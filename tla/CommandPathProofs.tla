--------------------------- MODULE CommandPathProofs ---------------------------
(***************************************************************************)
(* Theorems about CommandPath, for every number of files, commands and      *)
(* kills, and every choice of processes that run.                           *)
(***************************************************************************)
EXTENDS CommandPath, TLAPS

USE DEF viewVars, channelVars, ingressVars, regionVars, nodeVars, killVars, pathVars, allVars

(* The invariant. *)

Commands == Operator \cup {"NONE"}
Stages == {"command", "ingress", "orchestrate", "publish", "down"}

Supervisors ==
    [last_state : Messages, pre_state : Messages, start_requested : BOOLEAN,
     start_sent : BOOLEAN, abort_sent : BOOLEAN, motion : {"NONE", "NORMAL", "FAULT"},
     seq : 0..MaxCommands, unwritten : Commands]

ProgramManagers ==
    [program : JobSizes \cup {0}, load : 0..MaxJobs, start_received : BOOLEAN,
     job_submitted : BOOLEAN]

Interfaces ==
    [pending : Commands, buttons : SUBSET Operator, state : Messages,
     alignment : {"VALID", "INVALID"}]

ViewTypes ==
    /\ stage \in Stages
    /\ system \in SystemStates
    /\ job \in [present : BOOLEAN, loaded : BOOLEAN, layer : {0, 1}]
    /\ resume \in [available : BOOLEAN, consumed : BOOLEAN]
    /\ snapshot \in BOOLEAN
    /\ job_ipc \in [unread : BOOLEAN, segments : JobSizes \cup {0}]

ChannelTypes ==
    /\ last_seen_seq \in 0..MaxCommands
    /\ fetched \in [seq : 0..MaxCommands, header : 0..writes]
    /\ handled \in [header : Nat, body : Nat] /\ writes \in Nat
    /\ slot \in [seq : 0..MaxCommands, command : Commands, header : 0..writes, body : 0..writes]

IngressTypes ==
    /\ rejection \in Rejections
    /\ job_id \in Nat /\ region_load \in Nat
    /\ taken \subseteq 0..MaxJobs
    /\ pm \in ProgramManagers

NodeTypes ==
    /\ published \in Messages /\ inbox \in [Subscribers -> Messages]
    /\ sup \in Supervisors
    /\ requests \subseteq Operator
    /\ ui \in Interfaces
    /\ crashes \in 0..MaxCrashes /\ restarts \in 0..MaxRestarts
    /\ credit \in Int

One(b) == IF b THEN 1 ELSE 0

\* A START that is latched has its number reserved.
Budget == sup.seq + One(sup.start_requested) <= MaxCommands

Types == ViewTypes /\ ChannelTypes /\ IngressTypes /\ NodeTypes /\ Budget

\* While the firmware runs, the number it has yet to read is newer than the one it has taken.
\* The slot may be overwritten, by something newer still, after it was fetched. The command in
\* the slot is the one it has executed or a newer one: an older one never comes back.
InOrder ==
    /\ handled.header <= writes /\ handled.body <= writes
    /\ slot.command # "NONE" => slot.body >= handled.body
    /\ stage # "command" => fetched = NothingFetched
    /\ stage # "down" /\ slot.seq > last_seen_seq => slot.header > handled.header
    /\ fetched # NothingFetched =>
          /\ fetched.header > handled.header
          /\ \/ slot.header = fetched.header /\ slot.seq = fetched.seq
             \/ slot.header > fetched.header

\* A request that has started no print yet is latched, or being written, or in the slot and not
\* executed, whatever number it lies under; and each of the three is backed by one of its own.
Backed ==
    credit >= One(sup.start_requested) + One(sup.unwritten = "START")
              + One(slot.command = "START" /\ slot.body > handled.body)

\* The loads reach the job region in increasing order, and each at most once. Those the
\* firmware took are not newer than the one in the region.
Programs ==
    /\ \A n \in taken : n <= region_load
    /\ region_load <= pm.load
    /\ pm.program > 0 /\ ~pm.job_submitted => region_load < pm.load
    /\ job_ipc.unread => region_load \notin taken
    /\ job_id + One(job_ipc.unread) <= region_load

\* What is published at the start of a tick carries the number of the last command, and a
\* supervisor that was never restarted knows no number that is higher than its own.
News ==
    /\ stage = "down" => last_seen_seq = 0
    /\ stage = "command" => published.seq = last_seen_seq
    /\ restarts = 0 =>
          /\ slot.seq <= sup.seq /\ fetched.seq <= sup.seq /\ last_seen_seq <= sup.seq
          /\ published.seq <= sup.seq /\ sup.last_state.seq <= sup.seq
          /\ sup.pre_state # Sup!NoState => sup.pre_state.seq < sup.seq
-----------------------------------------------------------------------------
(* Messages *)

LEMMA BoundsAreNat ==
    MaxJobs \in Nat /\ MaxCrashes \in Nat /\ MaxCommands \in Nat /\ MaxRestarts \in Nat
BY NodesAssumption

LEMMA OneNoState == Pm!NoState = Sup!NoState /\ Ui!NoState = Sup!NoState
BY DEF Pm!NoState, Sup!NoState, Ui!NoState

LEMMA NoStateType == Sup!NoState \in Messages /\ BootMessage \in Messages
BY DEF Sup!NoState, BootMessage, Messages, Sup!Message, Rejections

LEMMA BootIsFirst == BootMessage.seq = 0 /\ Sup!NoState.seq = 0
BY DEF Sup!NoState, BootMessage

LEMMA MessageSeq == ASSUME NEW m \in Messages PROVE m.seq \in Nat
BY DEF Messages, Sup!Message

LEMMA PublishedType == ASSUME Types PROVE Published \in Messages /\ Published.seq = last_seen_seq
BY NodesAssumption
DEF Types, ViewTypes, ChannelTypes, IngressTypes, Published, Messages, Sup!Message
-----------------------------------------------------------------------------
(* The supervisor *)

\* The supervisor begins a write: a new number in the slot, and an own one to it.
WritesOne ==
    /\ slot' = [slot EXCEPT !.seq = sup.seq + 1, !.header = writes + 1]
    /\ writes' = writes + 1
    /\ sup'.seq = sup.seq + 1

WritesNothing == slot' = slot /\ writes' = writes /\ sup'.seq = sup.seq

LEMMA WrittenType ==
    ASSUME NEW s \in Supervisors, NEW c \in Operator, s.seq + 1 <= MaxCommands
    PROVE  Sup!Written(s, c) \in Supervisors
<1>1. s.seq + 1 \in 0..MaxCommands
    BY BoundsAreNat DEF Supervisors
<1> QED
    BY <1>1 DEF Supervisors, Commands, Sup!Written

LEMMA MarkSentType ==
    ASSUME NEW s \in Supervisors PROVE Sup!MarkSent(s) \in Supervisors
BY DEF Supervisors, Sup!MarkSent

LEMMA ObservedType ==
    ASSUME NEW s \in Supervisors, NEW m \in Messages
    PROVE  Sup!Observed(s, m) \in Supervisors
BY NoStateType DEF Supervisors, Sup!Observed, Sup!Evaluated

LEMMA StartLatchedType ==
    ASSUME NEW s \in Supervisors PROVE Sup!StartLatched(s) \in Supervisors
BY DEF Supervisors, Sup!StartLatched

Unstarted == One(sup.start_requested) + One(sup.unwritten = "START")

\* What any callback of the supervisor does: it writes at most one number; a START is latched
\* or written only for a request; the policy remembers a message that is older than the number.
Acts ==
    /\ sup' \in Supervisors
    /\ Budget'
    /\ WritesOne \/ WritesNothing
    /\ Unstarted' - Unstarted <= credit' - credit
    /\ sup'.last_state \in {sup.last_state, published}
    /\ sup'.pre_state # Sup!NoState =>
          \/ sup'.pre_state = sup.pre_state
          \/ sup'.pre_state \in {sup.last_state, published} /\ sup'.seq = sup.seq + 1

LEMMA SendActs ==
    ASSUME Types, Sup!MayWrite, sup.unwritten = "NONE", NEW c \in Operator \ {"START"},
           Sup!SendByPolicy(c), credit' = credit
    PROVE  Acts
<1>1. sup \in Supervisors /\ credit \in Int
    BY DEF Types, NodeTypes
<1>2. CASE UNCHANGED <<sup, slot, writes>>
    BY <1>1, <1>2 DEF Acts, WritesNothing, Types, Budget, Unstarted, One
<1>3. CASE sup' = Sup!MarkSent(Sup!Written(sup, c)) /\ Sup!Write(c)
    <2>1. sup.seq + 1 <= MaxCommands /\ sup.seq + 1 + One(sup.start_requested) <= MaxCommands
        BY <1>1, BoundsAreNat DEF Sup!MayWrite, One, Supervisors
    <2>2. sup' \in Supervisors
        BY <1>1, <1>3, <2>1, WrittenType, MarkSentType
    <2>3. /\ sup'.seq = sup.seq + 1 /\ sup'.unwritten = c
          /\ sup'.start_requested = sup.start_requested
          /\ sup'.last_state = sup.last_state /\ sup'.pre_state = sup.last_state
        BY <1>1, <1>3 DEF Sup!MarkSent, Sup!Written, Supervisors
    <2>4. WritesOne
        BY <1>3, <2>3 DEF Sup!Write, WritesOne
    <2>5. Budget'
        BY <2>1, <2>3 DEF Budget, One
    <2>6. Unstarted' - Unstarted <= credit' - credit
        BY <1>1, <2>3 DEF Unstarted, One
    <2> QED
        BY <2>2, <2>3, <2>4, <2>5, <2>6 DEF Acts
<1> QED
    BY <1>2, <1>3 DEF Sup!SendByPolicy

LEMMA AbortActs ==
    ASSUME Types, Sup!MayWrite, sup.unwritten = "NONE", Sup!Write("ABORT"), credit' = credit,
           sup' \in Supervisors, sup'.seq = sup.seq + 1, sup'.unwritten = "ABORT",
           sup'.start_requested = sup.start_requested,
           sup'.last_state = sup.last_state, sup'.pre_state = sup.pre_state
    PROVE  Acts
<1>1. sup \in Supervisors /\ credit \in Int
    BY DEF Types, NodeTypes
<1>2. Budget'
    BY <1>1, BoundsAreNat DEF Sup!MayWrite, One, Supervisors, Budget
<1>3. WritesOne
    BY DEF Sup!Write, WritesOne
<1>4. Unstarted' - Unstarted <= credit' - credit
    BY <1>1 DEF Unstarted, One
<1> QED
    BY <1>2, <1>3, <1>4 DEF Acts

LEMMA ServeActs ==
    ASSUME Types, NEW c \in Operator, ServeRequest(c)
    PROVE  Acts /\ credit' \in Int /\ inbox' = inbox /\ published' = published
<1>1. sup \in Supervisors /\ credit \in Int
    BY DEF Types, NodeTypes
<1>2. /\ sup.unwritten = "NONE" /\ Sup!MayWrite
      /\ inbox' = inbox /\ published' = published
      /\ credit' = IF c = "START" THEN credit + 1 ELSE credit
    BY DEF ServeRequest, Sup!Serve
<1>3. CASE c = "START" /\ Sup!StartService
    <2>1. /\ sup' \in Supervisors /\ sup'.start_requested = TRUE /\ sup'.seq = sup.seq
          /\ sup'.unwritten = sup.unwritten /\ sup'.last_state = sup.last_state
          /\ sup'.pre_state = sup.pre_state /\ WritesNothing
        BY <1>1, <1>3 DEF Sup!StartService, Supervisors, WritesNothing
    <2>2. Budget'
        BY <1>1, <1>2, <2>1, BoundsAreNat DEF Budget, One, Sup!MayWrite, Supervisors
    <2>3. Unstarted' - Unstarted <= credit' - credit
        BY <1>1, <1>2, <1>3, <2>1 DEF Unstarted, One
    <2> QED
        BY <1>1, <1>2, <2>1, <2>2, <2>3 DEF Acts
<1>4. CASE c = "RESUME" /\ Sup!ResumeService
    <2>1. CASE UNCHANGED <<sup, slot, writes>>
        BY <1>1, <1>2, <1>4, <2>1 DEF Acts, WritesNothing, Types, Budget, Unstarted, One
    <2>2. CASE Sup!SendByPolicy("RESUME")
        BY <1>1, <1>2, <1>4, <2>2, SendActs
    <2> QED
        BY <1>4, <2>1, <2>2 DEF Sup!ResumeService
<1>5. CASE c = "ABORT" /\ Sup!AbortService
    <2>1. sup.seq + 1 <= MaxCommands
        BY <1>1, <1>2, BoundsAreNat DEF Sup!MayWrite, One, Supervisors
    <2>2. sup' \in Supervisors
        BY <1>1, <1>5, <2>1, WrittenType DEF Sup!AbortService
    <2>3. /\ sup'.seq = sup.seq + 1 /\ sup'.unwritten = "ABORT"
          /\ sup'.start_requested = sup.start_requested
          /\ sup'.last_state = sup.last_state /\ sup'.pre_state = sup.pre_state
        BY <1>1, <1>5 DEF Sup!AbortService, Sup!Written, Supervisors
    <2> QED
        BY <1>1, <1>2, <1>5, <2>2, <2>3, AbortActs DEF Sup!AbortService
<1>6. CASE c \in {"PAUSE", "CLEAR_JOB"} /\ Sup!SendByPolicy(c)
    BY <1>1, <1>2, <1>6, SendActs
<1> QED
    BY <1>3, <1>4, <1>5, <1>6 DEF ServeRequest, Sup!Serve

LEMMA MotionActs ==
    ASSUME Types, MotionReport
    PROVE  Acts /\ credit' = credit /\ inbox' = inbox /\ published' = published
<1>1. sup \in Supervisors /\ credit \in Int
    BY DEF Types, NodeTypes
<1>2. credit' = credit /\ inbox' = inbox /\ published' = published
    BY DEF MotionReport, Sup!MotionState
<1>3. PICK e \in MotionReports : Sup!MotionState(e)
    BY DEF MotionReport
<1>4. e \in {"NORMAL", "FAULT"}
    BY NodesAssumption
<1>5. CASE e = "FAULT" /\ ~sup.abort_sent
    <2>1. /\ sup.unwritten = "NONE" /\ Sup!MayWrite /\ Sup!Write("ABORT")
          /\ sup' = [Sup!Written(sup, "ABORT") EXCEPT !.motion = e, !.abort_sent = TRUE]
        BY <1>3, <1>5 DEF Sup!MotionState
    <2>2. sup.seq + 1 <= MaxCommands
        BY <1>1, <2>1, BoundsAreNat DEF Sup!MayWrite, One, Supervisors
    <2>3. Sup!Written(sup, "ABORT") \in Supervisors
        BY <1>1, <2>2, WrittenType DEF Operator
    <2>4. sup' \in Supervisors
        BY <1>4, <2>1, <2>3 DEF Supervisors
    <2>5. /\ sup'.seq = sup.seq + 1 /\ sup'.unwritten = "ABORT"
          /\ sup'.start_requested = sup.start_requested
          /\ sup'.last_state = sup.last_state /\ sup'.pre_state = sup.pre_state
        BY <1>1, <2>1 DEF Sup!Written, Supervisors
    <2> QED
        BY <1>2, <2>1, <2>4, <2>5, AbortActs
<1>6. CASE ~(e = "FAULT" /\ ~sup.abort_sent)
    <2>1. /\ sup' \in Supervisors /\ WritesNothing
          /\ sup'.start_requested = sup.start_requested /\ sup'.unwritten = sup.unwritten
          /\ sup'.last_state = sup.last_state /\ sup'.pre_state = sup.pre_state
        BY <1>1, <1>3, <1>4, <1>6 DEF Sup!MotionState, Supervisors, WritesNothing
    <2>2. Budget'
        BY <2>1 DEF Types, Budget, WritesNothing
    <2>3. Unstarted' - Unstarted <= credit' - credit
        BY <1>1, <1>2, <2>1 DEF Unstarted, One
    <2> QED
        BY <1>2, <2>1, <2>2, <2>3 DEF Acts
<1> QED
    BY <1>2, <1>5, <1>6

LEMMA TimerActs ==
    ASSUME Types, SupervisorTimer
    PROVE  Acts /\ credit' = credit /\ inbox' \in [Subscribers -> Messages]
           /\ published' = published
<1> DEFINE s == Sup!Observed(sup, published)
           starts == s.start_requested /\ published.loaded /\ ~s.start_sent
<1>1. sup \in Supervisors /\ credit \in Int /\ published \in Messages
    BY DEF Types, NodeTypes
<1>2. /\ credit' = credit /\ published' = published
      /\ inbox' = [n \in Subscribers |-> published] /\ sup.unwritten = "NONE"
    BY DEF SupervisorTimer, Sup!OnTimer
<1>3. inbox' \in [Subscribers -> Messages]
    BY <1>1, <1>2
<1>4. s \in Supervisors
    BY <1>1, ObservedType
<1>5. /\ s.seq = sup.seq /\ s.unwritten = "NONE" /\ s.start_requested = sup.start_requested
      /\ s.last_state = published /\ s.pre_state \in {sup.pre_state, Sup!NoState}
    BY <1>1, <1>2 DEF Sup!Observed, Sup!Evaluated, Supervisors
<1>6. CASE starts /\ Sup!CanSend(s)
    <2> DEFINE t == Sup!StartLatched(s)
    <2>1. sup' = Sup!MarkSent(Sup!Written(t, "START")) /\ Sup!Write("START")
        BY <1>6 DEF SupervisorTimer, Sup!OnTimer
    <2>2. /\ t \in Supervisors /\ t.seq = sup.seq /\ t.last_state = published
          /\ t.start_requested = FALSE
        BY <1>4, <1>5, StartLatchedType DEF Sup!StartLatched, Supervisors
    <2>3. sup.start_requested = TRUE
        BY <1>1, <1>5, <1>6 DEF Supervisors
    <2>4. sup.seq + 1 <= MaxCommands
        BY <1>1, <2>3 DEF Types, Budget, One, Supervisors
    <2>5. sup' \in Supervisors
        BY <2>1, <2>2, <2>4, WrittenType, MarkSentType DEF Operator
    <2>6. /\ sup'.seq = sup.seq + 1 /\ sup'.unwritten = "START" /\ sup'.start_requested = FALSE
          /\ sup'.last_state = published /\ sup'.pre_state = published
        BY <2>1, <2>2 DEF Sup!MarkSent, Sup!Written, Supervisors
    <2>7. Budget'
        BY <1>1, <2>4, <2>6 DEF Budget, One, Supervisors
    <2>8. WritesOne
        BY <2>1, <2>6 DEF Sup!Write, WritesOne
    <2>9. Unstarted' - Unstarted <= credit' - credit
        BY <1>1, <1>2, <2>3, <2>6 DEF Unstarted, One
    <2> QED
        BY <1>2, <1>3, <2>5, <2>6, <2>7, <2>8, <2>9 DEF Acts
<1>7. CASE ~(starts /\ Sup!CanSend(s))
    <2>1. UNCHANGED <<slot, writes>> /\ (sup' = Sup!StartLatched(s) \/ sup' = s)
        BY <1>7 DEF SupervisorTimer, Sup!OnTimer
    <2>2. sup' \in Supervisors
        BY <1>4, <2>1, StartLatchedType
    <2>3. /\ sup'.seq = sup.seq /\ sup'.unwritten = "NONE" /\ sup'.last_state = published
          /\ sup'.start_requested \in {FALSE, sup.start_requested}
          /\ sup'.pre_state \in {sup.pre_state, Sup!NoState}
        BY <1>4, <1>5, <2>1 DEF Sup!StartLatched, Supervisors
    <2>4. One(sup'.start_requested) <= One(sup.start_requested)
        <3>1. CASE sup'.start_requested = FALSE
            BY <3>1 DEF One
        <3>2. CASE sup'.start_requested = sup.start_requested
            BY <3>2 DEF One
        <3> QED
            BY <2>3, <3>1, <3>2
    <2>5. /\ One(sup'.start_requested) \in Int /\ One(sup.start_requested) \in Int
          /\ sup.seq \in Int
        BY <1>1 DEF One, Supervisors
    <2>6. Budget'
        BY <2>3, <2>4, <2>5, BoundsAreNat DEF Types, Budget
    <2>7. WritesNothing
        BY <2>1, <2>3 DEF WritesNothing
    <2>8. Unstarted' - Unstarted <= credit' - credit
        <3>1. One(sup'.unwritten = "START") = 0 /\ One(sup.unwritten = "START") = 0
            BY <1>2, <2>3 DEF One
        <3> QED
            BY <1>1, <1>2, <2>4, <2>5, <3>1 DEF Unstarted
    <2> QED
        BY <1>2, <1>3, <2>2, <2>3, <2>6, <2>7, <2>8 DEF Acts
<1> QED
    BY <1>6, <1>7
-----------------------------------------------------------------------------
(* The types *)

LEMMA TypesInit == PathInit => Types
<1> SUFFICES ASSUME PathInit PROVE Types
    OBVIOUS
<1>1. ViewTypes
    BY DEF PathInit, Init, ViewTypes, Stages, SystemStates, NoJob, Unused, EmptyJobIpc
<1>2. ChannelTypes
    <2>1. /\ last_seen_seq = 0 /\ fetched = NothingFetched /\ writes = 0
          /\ handled = [header |-> 0, body |-> 0]
          /\ slot = Sup!EmptySlot
        BY DEF PathInit
    <2> QED
        BY <2>1, BoundsAreNat DEF ChannelTypes, NothingFetched, Sup!EmptySlot, Commands
<1>3. pm \in ProgramManagers
    <2>1. pm = Pm!FreshProgramManager
        BY DEF PathInit
    <2> QED
        BY <2>1, BoundsAreNat DEF ProgramManagers, Pm!FreshProgramManager
<1>4. IngressTypes
    BY <1>3 DEF PathInit, IngressTypes, Rejections
<1>5. sup \in Supervisors /\ Budget
    <2>1. sup = Sup!FreshSupervisor
        BY DEF PathInit
    <2> QED
        BY <2>1, BoundsAreNat, NoStateType
        DEF Supervisors, Commands, Sup!FreshSupervisor, Budget, One
<1>6. ui \in Interfaces
    BY NoStateType, OneNoState DEF PathInit, Interfaces, Commands, Ui!FreshInterface
<1>7. NodeTypes
    <2>1. /\ published = BootMessage /\ inbox = [n \in Subscribers |-> Sup!NoState]
          /\ requests = {} /\ crashes = 0 /\ restarts = 0 /\ credit = 0
        BY DEF PathInit
    <2> QED
        BY <1>5, <1>6, <2>1, BoundsAreNat, NoStateType DEF NodeTypes
<1> QED
    BY <1>1, <1>2, <1>4, <1>5, <1>7 DEF Types

LEMMA ActsChannelTypes ==
    ASSUME Types, Acts, UNCHANGED channelVars
    PROVE  ChannelTypes'
<1>1. sup \in Supervisors /\ sup' \in Supervisors /\ ChannelTypes
    BY DEF Types, NodeTypes, Acts
<1>2. CASE WritesNothing
    BY <1>1, <1>2 DEF WritesNothing, ChannelTypes
<1>3. CASE WritesOne
    <2>1. sup.seq + 1 \in 0..MaxCommands
        BY <1>1, <1>3 DEF WritesOne, Supervisors
    <2>2. writes' = writes + 1 /\ writes \in Nat
        BY <1>1, <1>3 DEF WritesOne, ChannelTypes
    <2>3. slot' \in [seq : 0..MaxCommands, command : Commands, header : 0..writes',
                     body : 0..writes']
        <3>1. slot \in [seq : 0..MaxCommands, command : Commands, header : 0..writes,
                        body : 0..writes]
            BY <1>1 DEF ChannelTypes
        <3>2. writes + 1 \in 0..writes' /\ slot.body \in 0..writes'
            BY <2>2, <3>1
        <3>3. slot' = [slot EXCEPT !.seq = sup.seq + 1, !.header = writes + 1]
            BY <1>3 DEF WritesOne
        <3> QED
            BY <2>1, <3>1, <3>2, <3>3
    <2>4. fetched' \in [seq : 0..MaxCommands, header : 0..writes']
        BY <1>1, <2>2 DEF ChannelTypes
    <2> QED
        BY <1>1, <2>2, <2>3, <2>4 DEF ChannelTypes
<1> QED
    BY <1>2, <1>3 DEF Acts

\* What the actions of FirmwareView keep.
LEMMA CommandViewTypes ==
    ASSUME ViewTypes, NoCommand \/ Start \/ Pause \/ Resume \/ Abort \/ ClearJob
    PROVE  ViewTypes' /\ stage' = "ingress" /\ UNCHANGED job_ipc
<1> USE DEF ViewTypes, Stages, SystemStates, NoJob, Used, Unused
<1>1. CASE NoCommand
    BY <1>1 DEF NoCommand
<1>2. CASE Start
    BY <1>2 DEF Start
<1>3. CASE Pause
    BY <1>3 DEF Pause
<1>4. CASE Resume
    BY <1>4 DEF Resume
<1>5. CASE Abort
    BY <1>5 DEF Abort
<1>6. CASE ClearJob
    BY <1>6 DEF ClearJob
<1> QED
    BY <1>1, <1>2, <1>3, <1>4, <1>5, <1>6

LEMMA OrchestrateViewTypes ==
    ASSUME ViewTypes, Orchestrate
    PROVE  ViewTypes' /\ stage' = "publish" /\ UNCHANGED job_ipc
<1> USE DEF ViewTypes, Stages, SystemStates, Used, Unused, OrchestratedVars
<1>1. CASE GoOn
    BY <1>1 DEF GoOn
<1>2. CASE Complete
    BY <1>2 DEF Complete
<1>3. CASE FinalizeAbort
    BY <1>3 DEF FinalizeAbort
<1>4. CASE HoldPaused
    BY <1>4 DEF HoldPaused
<1>5. CASE FinishResume
    BY <1>5 DEF FinishResume
<1> QED
    BY <1>1, <1>2, <1>3, <1>4, <1>5 DEF Orchestrate

LEMMA HandleViewTypes ==
    ASSUME ViewTypes, HandleCommand
    PROVE  ViewTypes' /\ stage' = "ingress" /\ UNCHANGED job_ipc
BY CommandViewTypes DEF HandleCommand

LEMMA ViewTypesStep == Types /\ [PathNext]_allVars => ViewTypes'
<1> SUFFICES ASSUME Types, [PathNext]_allVars PROVE ViewTypes'
    OBVIOUS
<1>0. ViewTypes
    BY DEF Types
<1>1. CASE UNCHANGED viewVars
    BY <1>0, <1>1 DEF ViewTypes
<1>2. CASE NothingToFetch
    BY <1>0, <1>2, CommandViewTypes DEF NothingToFetch
<1>3. CASE HandleCommand
    BY <1>0, <1>3, HandleViewTypes
<1>4. CASE TakeJob
    BY <1>0, <1>4 DEF TakeJob, AcceptJob, ViewTypes, Stages
<1>5. CASE RefuseJob
    BY <1>0, <1>5 DEF RefuseJob, NoJobAccepted, ViewTypes, Stages
<1>6. CASE Execute
    BY <1>0, <1>6, OrchestrateViewTypes DEF Execute
<1>7. CASE PublishState
    BY <1>0, <1>7 DEF PublishState, Publish, ViewTypes, Stages
<1>8. CASE BootFirmware
    BY <1>0, <1>8 DEF BootFirmware, Boot, ViewTypes, Stages, SystemStates, EmptyJobIpc
<1>9. CASE KillFirmware
    BY <1>0, <1>9 DEF KillFirmware, Crash, ViewTypes, Stages, SystemStates, NoJob, Unused
<1>10. CASE ManageProgram
    <2>1. pm \in ProgramManagers
        BY DEF Types, IngressTypes
    <2>2. job_ipc' = job_ipc \/ job_ipc' = [unread |-> TRUE, segments |-> pm.program]
        BY <1>10 DEF ManageProgram, Pm!StateCallback
    <2>3. job_ipc' \in [unread : BOOLEAN, segments : JobSizes \cup {0}]
        <3>1. pm.program \in JobSizes \cup {0}
            BY <2>1 DEF ProgramManagers
        <3>2. job_ipc \in [unread : BOOLEAN, segments : JobSizes \cup {0}]
            BY <1>0 DEF ViewTypes
        <3> DEFINE new == [unread |-> TRUE, segments |-> pm.program]
        <3>3. new \in [unread : BOOLEAN, segments : JobSizes \cup {0}]
            BY <3>1
        <3> HIDE DEF new
        <3>4. job_ipc' = job_ipc \/ job_ipc' = new
            BY <2>2 DEF new
        <3> QED
            BY <3>2, <3>3, <3>4
    <2> QED
        BY <1>0, <1>10, <2>3 DEF ManageProgram, ViewTypes
<1> QED
    BY <1>1, <1>2, <1>3, <1>4, <1>5, <1>6, <1>7, <1>8, <1>9, <1>10
    DEF PathNext, Loop, FetchCommand, SupervisorTimer, SupervisorWrites, WindowRequest,
        OtherRequest, ServeRequest, MotionReport, SupervisorRestart, Load, WindowObserves,
        WindowActs

\* A request comes from the window or from elsewhere.
LEMMA RequestedCommand ==
    ASSUME Types, WindowRequest \/ OtherRequest
    PROVE  /\ \E c \in Operator : ServeRequest(c)
           /\ requests' \subseteq Operator
<1>1. requests \subseteq Operator /\ OtherRequests \subseteq Operator
    BY NodesAssumption DEF Types, NodeTypes, Operator
<1> QED
    BY <1>1 DEF WindowRequest, OtherRequest

\* Whatever the supervisor does but complete a copy or restart.
SupervisorActs == SupervisorTimer \/ WindowRequest \/ OtherRequest \/ MotionReport

LEMMA SupervisorDoes ==
    ASSUME Types, SupervisorActs
    PROVE  /\ Acts /\ credit' \in Int /\ published' = published
           /\ inbox' \in [Subscribers -> Messages]
           /\ UNCHANGED <<viewVars, channelVars, ingressVars, killVars, pm, region_load, ui>>
<1>1. credit \in Int /\ inbox \in [Subscribers -> Messages]
    BY DEF Types, NodeTypes
<1>2. CASE SupervisorTimer
    BY <1>1, <1>2, TimerActs DEF SupervisorTimer
<1>3. CASE MotionReport
    BY <1>1, <1>3, MotionActs DEF MotionReport
<1>4. CASE WindowRequest \/ OtherRequest
    <2>1. PICK c \in Operator : ServeRequest(c)
        BY <1>4, RequestedCommand
    <2> QED
        BY <1>1, <2>1, ServeActs DEF ServeRequest
<1> QED
    BY <1>2, <1>3, <1>4 DEF SupervisorActs

LEMMA FinishWriteType ==
    ASSUME Types, SupervisorWrites
    PROVE  /\ sup' \in Supervisors /\ Budget'
           /\ sup' = [sup EXCEPT !.unwritten = "NONE"]
           /\ slot' = [slot EXCEPT !.command = sup.unwritten, !.body = writes]
           /\ writes' = writes /\ credit' = credit
<1>1. sup \in Supervisors
    BY DEF Types, NodeTypes
<1>2. /\ sup' = [sup EXCEPT !.unwritten = "NONE"]
      /\ slot' = [slot EXCEPT !.command = sup.unwritten, !.body = writes]
      /\ writes' = writes /\ credit' = credit
    BY DEF SupervisorWrites, Sup!FinishWrite
<1>3. sup' \in Supervisors /\ sup'.seq = sup.seq /\ sup'.start_requested = sup.start_requested
    BY <1>1, <1>2 DEF Supervisors, Commands
<1> QED
    BY <1>2, <1>3 DEF Types, Budget

LEMMA RestartType ==
    ASSUME Types, SupervisorRestart
    PROVE  /\ sup' = Sup!FreshSupervisor /\ sup' \in Supervisors /\ Budget'
           /\ restarts' = restarts + 1 /\ restarts' \in 0..MaxRestarts
<1>1. sup' = Sup!FreshSupervisor
    BY DEF SupervisorRestart, Sup!Restart
<1>2. sup' \in Supervisors /\ Budget'
    BY <1>1, BoundsAreNat, NoStateType
    DEF Supervisors, Commands, Sup!FreshSupervisor, Budget, One
<1> QED
    BY <1>1, <1>2, BoundsAreNat DEF SupervisorRestart, Types, NodeTypes

LEMMA ChannelTypesStep == Types /\ [PathNext]_allVars => ChannelTypes'
<1> SUFFICES ASSUME Types, [PathNext]_allVars PROVE ChannelTypes'
    OBVIOUS
<1>0. ChannelTypes
    BY DEF Types
<1>1. CASE UNCHANGED <<last_seen_seq, fetched, handled, slot, writes>>
    BY <1>0, <1>1 DEF ChannelTypes
<1>2. CASE FetchCommand
    <2>1. /\ fetched' = [seq |-> slot.seq, header |-> slot.header]
          /\ UNCHANGED <<last_seen_seq, handled, slot, writes>>
        BY <1>2 DEF FetchCommand
    <2> QED
        BY <1>0, <2>1 DEF ChannelTypes
<1>3. CASE HandleCommand
    <2>1. /\ last_seen_seq' = fetched.seq /\ fetched' = NothingFetched
          /\ handled' \in {handled, Copied} /\ UNCHANGED <<slot, writes>>
        BY <1>3 DEF HandleCommand
    <2>2. Copied \in [header : Nat, body : Nat]
        BY <1>0 DEF Copied, ChannelTypes
    <2> QED
        BY <1>0, <2>1, <2>2, BoundsAreNat DEF ChannelTypes, NothingFetched
<1>4. CASE BootFirmware
    <2>1. slot' = Sup!EmptySlot /\ UNCHANGED <<last_seen_seq, fetched, handled, writes>>
        BY <1>4 DEF BootFirmware, SlotAtBoot
    <2> QED
        BY <1>0, <2>1, BoundsAreNat DEF ChannelTypes, Sup!EmptySlot, Commands
<1>5. CASE KillFirmware
    <2>1. /\ last_seen_seq' = 0 /\ fetched' = NothingFetched
          /\ UNCHANGED <<handled, slot, writes>>
        BY <1>5 DEF KillFirmware
    <2> QED
        BY <1>0, <2>1, BoundsAreNat DEF ChannelTypes, NothingFetched
<1>6. CASE SupervisorActs
    BY <1>6, SupervisorDoes, ActsChannelTypes
<1>7. CASE SupervisorWrites
    <2>1. UNCHANGED <<last_seen_seq, fetched, handled>>
        BY <1>7 DEF SupervisorWrites, channelVars
    <2>2. sup.unwritten \in Commands /\ writes \in 0..writes
        BY <1>0 DEF Types, NodeTypes, Supervisors, ChannelTypes
    <2>3. /\ slot' = [slot EXCEPT !.command = sup.unwritten, !.body = writes]
          /\ writes' = writes
        BY <1>7, FinishWriteType
    <2>4. slot' \in [seq : 0..MaxCommands, command : Commands, header : 0..writes',
                     body : 0..writes']
        BY <1>0, <2>2, <2>3 DEF ChannelTypes
    <2> QED
        BY <1>0, <2>1, <2>3, <2>4 DEF ChannelTypes
<1> QED
    BY <1>1, <1>2, <1>3, <1>4, <1>5, <1>6, <1>7
    DEF PathNext, Loop, NothingToFetch, TakeJob, RefuseJob, Execute, PublishState,
        SupervisorActs, SupervisorRestart, Sup!Restart, Load, ManageProgram, WindowObserves,
        WindowActs

LEMMA IngressTypesStep == Types /\ Programs /\ [PathNext]_allVars => IngressTypes'
<1> SUFFICES ASSUME Types, Programs, [PathNext]_allVars PROVE IngressTypes'
    OBVIOUS
<1>0. IngressTypes /\ pm \in ProgramManagers /\ taken \subseteq 0..MaxJobs
    BY DEF Types, IngressTypes
<1>a. job_id \in Nat
    BY DEF Types, IngressTypes
<1>1. CASE UNCHANGED <<rejection, job_id, taken, pm, region_load>>
    BY <1>0, <1>1 DEF IngressTypes
<1>2. CASE HandleCommand
    <2>1. /\ rejection' \in {"", rejection} /\ job_id' \in {0, job_id}
          /\ UNCHANGED <<taken, pm, region_load>>
        BY <1>2 DEF HandleCommand
    <2>2. rejection' \in Rejections
        BY <1>0, <2>1 DEF IngressTypes, Rejections
    <2>3. job_id' = 0 \/ job_id' = job_id
        BY <2>1
    <2>4. job_id' \in Nat
        BY <1>a, <2>3
    <2> QED
        BY <1>0, <2>1, <2>2, <2>4 DEF IngressTypes
<1>3. CASE TakeJob
    <2>1. /\ job_id' = job_id + 1 /\ rejection' = "" /\ taken' = taken \cup {region_load}
          /\ UNCHANGED <<pm, region_load>>
        BY <1>3 DEF TakeJob
    <2>2. region_load \in 0..MaxJobs
        BY <1>0, BoundsAreNat DEF Programs, IngressTypes, ProgramManagers
    <2>3. rejection' \in Rejections
        BY <2>1 DEF Rejections
    <2>4. job_id' \in Nat
        <3>1. job_id' = job_id + 1
            BY <2>1
        <3> QED
            BY <1>a, <3>1
    <2>5. taken' \subseteq 0..MaxJobs
        BY <1>0, <2>1, <2>2
    <2> QED
        BY <1>0, <2>1, <2>3, <2>4, <2>5 DEF IngressTypes
<1>4. CASE RefuseJob
    <2>1. rejection' \in Rejections
        BY <1>0, <1>4 DEF RefuseJob, Rejection, IngressTypes, Rejections
    <2> QED
        BY <1>0, <1>4, <2>1 DEF RefuseJob, IngressTypes
<1>5. CASE KillFirmware
    BY <1>0, <1>5 DEF KillFirmware, IngressTypes, Rejections
<1>6. CASE Load
    <2>1. PICK n \in JobSizes :
              pm' = [Pm!FreshProgramManager EXCEPT !.program = n, !.load = pm.load + 1]
        BY <1>6 DEF Load, Pm!LoadGcode
    <2>2. pm.load + 1 \in 0..MaxJobs
        BY <1>0, <1>6, BoundsAreNat DEF Load, Pm!LoadGcode, ProgramManagers
    <2>3. pm' \in ProgramManagers
        BY <2>1, <2>2 DEF ProgramManagers, Pm!FreshProgramManager
    <2> QED
        BY <1>0, <1>6, <2>3 DEF Load, Pm!LoadGcode, IngressTypes
<1>7. CASE ManageProgram
    <2>1. /\ pm' = Pm!AfterState(inbox["pm"])
          /\ region_load' \in {region_load, pm.load}
          /\ UNCHANGED <<rejection, job_id, taken>>
        BY <1>7 DEF ManageProgram, Pm!StateCallback
    <2>2. pm' \in ProgramManagers
        BY <1>0, <2>1 DEF Pm!AfterState, Pm!Submits, Pm!Starts, ProgramManagers,
           Pm!FreshProgramManager
    <2>3. pm.load \in Nat
        BY <1>0 DEF ProgramManagers
    <2> QED
        BY <1>0, <2>1, <2>2, <2>3 DEF IngressTypes
<1> QED
    BY <1>1, <1>2, <1>3, <1>4, <1>5, <1>6, <1>7, SupervisorDoes
    DEF PathNext, Loop, FetchCommand, NothingToFetch, Execute, PublishState, BootFirmware,
        SupervisorActs, SupervisorWrites, SupervisorRestart, WindowObserves, WindowActs

LEMMA NodeTypesStep == Types /\ [PathNext]_allVars => NodeTypes' /\ Budget'
<1> SUFFICES ASSUME Types, [PathNext]_allVars PROVE NodeTypes' /\ Budget'
    OBVIOUS
<1>0. NodeTypes /\ Budget
    BY DEF Types
<1>1. CASE UNCHANGED <<published, inbox, sup, requests, ui, killVars, credit>>
    BY <1>0, <1>1 DEF NodeTypes, Budget
<1>2. CASE HandleCommand
    <2>1. credit' \in {credit, credit - 1}
          /\ UNCHANGED <<published, inbox, sup, requests, ui, killVars>>
        BY <1>2 DEF HandleCommand
    <2>2. credit' \in Int
        BY <1>0, <2>1 DEF NodeTypes
    <2> QED
        BY <1>0, <2>1, <2>2 DEF NodeTypes, Budget
<1>3. CASE PublishState \/ BootFirmware
    <2>1. published' \in {Published, BootMessage}
          /\ UNCHANGED <<inbox, sup, requests, ui, killVars, credit>>
        BY <1>3 DEF PublishState, BootFirmware
    <2>2. published' \in Messages
        BY <2>1, PublishedType, NoStateType
    <2> QED
        BY <1>0, <2>1, <2>2 DEF NodeTypes, Budget
<1>4. CASE KillFirmware
    <2>1. crashes' = crashes + 1 /\ crashes < MaxCrashes
          /\ UNCHANGED <<published, inbox, sup, requests, ui, restarts, credit>>
        BY <1>4 DEF KillFirmware
    <2>2. crashes \in 0..MaxCrashes
        BY <1>0 DEF NodeTypes
    <2>3. crashes' \in 0..MaxCrashes
        BY <2>1, <2>2, BoundsAreNat
    <2> QED
        BY <1>0, <2>1, <2>3 DEF NodeTypes, Budget
<1>5. CASE SupervisorActs
    <2>1. requests' \subseteq Operator
        <3>1. requests \subseteq Operator
            BY <1>0 DEF NodeTypes
        <3> QED
            BY <1>5, <3>1, RequestedCommand DEF SupervisorActs, SupervisorTimer, MotionReport
    <2>2. sup' \in Supervisors /\ Budget'
        BY <1>5, SupervisorDoes DEF Acts
    <2> QED
        BY <1>0, <1>5, <2>1, <2>2, SupervisorDoes DEF NodeTypes
<1>6. CASE SupervisorWrites
    BY <1>0, <1>6, FinishWriteType DEF SupervisorWrites, Sup!FinishWrite, NodeTypes
<1>7. CASE SupervisorRestart
    BY <1>0, <1>7, RestartType DEF SupervisorRestart, Sup!Restart, NodeTypes
<1>8. CASE ManageProgram
    <2>1. inbox' = [inbox EXCEPT !["pm"] = Pm!NoState]
          /\ UNCHANGED <<published, sup, requests, ui, killVars, credit>>
        BY <1>8 DEF ManageProgram, Pm!StateCallback
    <2>2. inbox' \in [Subscribers -> Messages]
        BY <1>0, <2>1, NoStateType, OneNoState DEF NodeTypes
    <2> QED
        BY <1>0, <2>1, <2>2 DEF NodeTypes, Budget
<1>9. CASE WindowObserves
    <2>1. /\ inbox["ui"] \in Messages /\ inbox' \in [Subscribers -> Messages]
        BY <1>0, <1>9, NoStateType, OneNoState DEF WindowObserves, Ui!Observe, NodeTypes
    <2>2. ui' \in Interfaces
        <3>1. Ui!PendingAfter(inbox["ui"]) \in Commands
            BY <1>0 DEF Ui!PendingAfter, NodeTypes, Interfaces, Commands
        <3>2. \A m, a, p : Ui!EnabledButtons(m, a, p) \in SUBSET Operator
            BY DEF Ui!EnabledButtons, Operator
        <3> QED
            BY <1>0, <1>9, <2>1, <3>1, <3>2 DEF WindowObserves, Ui!Observe, NodeTypes, Interfaces
    <2>3. UNCHANGED <<published, sup, requests, killVars, credit>>
        BY <1>9 DEF WindowObserves, Ui!Observe
    <2> QED
        BY <1>0, <2>1, <2>2, <2>3 DEF NodeTypes, Budget
<1>10. CASE WindowActs
    <2>1. ui' \in Interfaces /\ requests' \subseteq Operator /\ inbox' = inbox
        <3>1. CASE Ui!OnAlignment
            <4>1. PICK a \in AlignmentReports :
                      ui' = [ui EXCEPT !.alignment = a,
                                       !.buttons = Ui!EnabledButtons(ui.state, a, ui.pending)]
                BY <3>1 DEF Ui!OnAlignment
            <4>2. a \in {"VALID", "INVALID"}
                BY NodesAssumption
            <4>3. Ui!EnabledButtons(ui.state, a, ui.pending) \in SUBSET Operator
                BY DEF Ui!EnabledButtons, Operator
            <4> QED
                BY <1>0, <3>1, <4>1, <4>2, <4>3 DEF Ui!OnAlignment, NodeTypes, Interfaces
        <3>2. CASE \E c \in Buttons : Ui!Press(c)
            <4>1. PICK c \in Buttons : Ui!Press(c)
                BY <3>2
            <4>2. c \in Operator
                BY NodesAssumption DEF Operator
            <4> QED
                BY <1>0, <4>1, <4>2 DEF Ui!Press, NodeTypes, Interfaces, Commands
        <3> QED
            BY <1>10, <3>1, <3>2 DEF WindowActs
    <2>2. UNCHANGED <<published, sup, killVars, credit>>
        BY <1>10 DEF WindowActs
    <2> QED
        BY <1>0, <2>1, <2>2 DEF NodeTypes, Budget
<1> QED
    BY <1>1, <1>2, <1>3, <1>4, <1>5, <1>6, <1>7, <1>8, <1>9, <1>10
    DEF PathNext, Loop, FetchCommand, NothingToFetch, TakeJob, RefuseJob, Execute,
        SupervisorActs, Load, Pm!LoadGcode
-----------------------------------------------------------------------------
(* The order of the commands *)

LEMMA InOrderStep == Types /\ InOrder /\ [PathNext]_allVars => InOrder'
<1> SUFFICES ASSUME Types, InOrder, [PathNext]_allVars PROVE InOrder'
    OBVIOUS
<1>0. ChannelTypes /\ ViewTypes
    BY DEF Types
<1>1. CASE UNCHANGED <<stage, last_seen_seq, fetched, handled, slot, writes>>
    BY <1>1 DEF InOrder
<1>2. CASE FetchCommand
    <2>1. /\ stage = "command" /\ fetched = NothingFetched /\ slot.seq > last_seen_seq
          /\ fetched' = [seq |-> slot.seq, header |-> slot.header]
          /\ UNCHANGED <<stage, last_seen_seq, handled, slot, writes>>
        BY <1>2 DEF FetchCommand
    <2> QED
        BY <1>0, <2>1 DEF InOrder, ChannelTypes, NothingFetched
<1>3. CASE HandleCommand
    <2>1. /\ fetched # NothingFetched /\ last_seen_seq' = fetched.seq
          /\ fetched' = NothingFetched
          /\ handled' = IF slot.command = "NONE" THEN handled ELSE Copied
          /\ UNCHANGED <<slot, writes>>
        BY <1>3 DEF HandleCommand
    <2>2. handled'.header \in {handled.header, fetched.header}
          /\ handled'.body \in {handled.body, slot.body}
          /\ (slot.command # "NONE" => handled'.body = slot.body)
        BY <2>1 DEF Copied
    <2>3. handled'.header <= writes' /\ handled'.body <= writes'
        BY <1>0, <2>1, <2>2 DEF InOrder, ChannelTypes
    <2>4. slot'.command # "NONE" => slot'.body >= handled'.body
        BY <1>0, <2>1, <2>2 DEF ChannelTypes
    <2>5. slot'.seq > last_seen_seq' => slot'.header > handled'.header
        BY <1>0, <2>1, <2>2 DEF InOrder, ChannelTypes
    <2> QED
        BY <2>1, <2>3, <2>4, <2>5 DEF InOrder
<1>4. CASE NothingToFetch \/ TakeJob \/ RefuseJob \/ Execute \/ PublishState
    <2>1. UNCHANGED <<last_seen_seq, fetched, handled, slot, writes>> /\ stage # "down"
        BY <1>4 DEF NothingToFetch, NoCommand, TakeJob, AcceptJob, RefuseJob, NoJobAccepted,
           Execute, Orchestrate, GoOn, Complete, FinalizeAbort, HoldPaused, FinishResume,
           PublishState, Publish
    <2>2. fetched = NothingFetched
        BY <1>4 DEF InOrder, NothingToFetch, TakeJob, AcceptJob, RefuseJob, NoJobAccepted,
           Execute, Orchestrate, GoOn, Complete, FinalizeAbort, HoldPaused, FinishResume,
           PublishState, Publish
    <2> QED
        BY <2>1, <2>2 DEF InOrder
<1>5. CASE BootFirmware
    <2>1. /\ stage = "down" /\ slot'.seq = 0 /\ slot'.command = "NONE"
          /\ UNCHANGED <<last_seen_seq, fetched, handled, writes>>
        BY <1>5 DEF BootFirmware, Boot, SlotAtBoot, Sup!EmptySlot
    <2> QED
        BY <1>0, <2>1 DEF InOrder, ChannelTypes
<1>6. CASE KillFirmware
    BY <1>6 DEF InOrder, KillFirmware, Crash
<1>7. CASE SupervisorActs
    <2>1. UNCHANGED <<stage, last_seen_seq, fetched, handled>>
        BY <1>7, SupervisorDoes
    <2>2. CASE WritesNothing
        BY <2>1, <2>2 DEF WritesNothing, InOrder
    <2>3. CASE WritesOne
        <3>1. /\ writes' = writes + 1 /\ slot'.header = writes + 1
              /\ slot'.command = slot.command /\ slot'.body = slot.body
            BY <1>0, <2>3 DEF WritesOne, ChannelTypes
        <3> QED
            BY <1>0, <2>1, <3>1 DEF InOrder, ChannelTypes
    <2> QED
        BY <1>7, <2>2, <2>3, SupervisorDoes DEF Acts
<1>8. CASE SupervisorWrites
    <2>1. UNCHANGED <<stage, last_seen_seq, fetched, handled, writes>>
        BY <1>8, FinishWriteType DEF SupervisorWrites
    <2>2. slot'.seq = slot.seq /\ slot'.header = slot.header /\ slot'.body = writes
        BY <1>0, <1>8, FinishWriteType DEF ChannelTypes
    <2> QED
        BY <2>1, <2>2 DEF InOrder
<1> QED
    BY <1>1, <1>2, <1>3, <1>4, <1>5, <1>6, <1>7, <1>8
    DEF PathNext, Loop, SupervisorActs, SupervisorRestart, Sup!Restart, Load, ManageProgram,
        WindowObserves, WindowActs

\* What is executed is taken under a newer number, and is a command as new or newer. Two whole
\* copies carry the numbers they are taken under, so their commands differ.
LEMMA ExecutedInOrder ==
    ASSUME Types, InOrder, HandleCommand, slot.command # "NONE"
    PROVE  /\ Copied.header > handled.header
           /\ Copied.body >= handled.body
           /\ Whole(Copied) /\ Whole(handled) => Copied.body > handled.body
<1>1. Copied.header = fetched.header /\ Copied.body = slot.body
    BY DEF Copied
<1>2. fetched.header > handled.header /\ slot.body >= handled.body
    BY DEF InOrder, HandleCommand
<1> QED
    BY <1>1, <1>2 DEF Whole
-----------------------------------------------------------------------------
(* The prints and their requests *)

\* A START that is in the slot and not executed.
Ready == slot.command = "START" /\ slot.body > handled.body

\* What was covered stays so if it grows no faster than what covers it.
LEMMA StillCovered ==
    ASSUME NEW c \in Int, NEW d \in Int, NEW u \in Int, NEW v \in Int, NEW r \in Int,
           c >= u + r, v - u <= d - c
    PROVE  d >= v + r
OBVIOUS

LEMMA BackedStep == Types /\ InOrder /\ Backed /\ [PathNext]_allVars => Backed'
<1> SUFFICES ASSUME Types, InOrder, Backed, [PathNext]_allVars PROVE Backed'
    OBVIOUS
<1>0. ChannelTypes /\ sup \in Supervisors /\ credit \in Int
    BY DEF Types, NodeTypes
<1>a. credit >= Unstarted + One(Ready)
    BY DEF Backed, Unstarted, Ready
<1>b. Unstarted \in Int /\ One(Ready) \in 0..1
    BY <1>0 DEF Unstarted, One
<1>c. (credit' >= Unstarted' + One(Ready)') => Backed'
    BY DEF Backed, Unstarted, Ready
<1>1. CASE UNCHANGED <<handled, slot, sup, credit>>
    BY <1>1 DEF Backed
<1>2. CASE HandleCommand
    <2>1. /\ handled' = IF slot.command = "NONE" THEN handled ELSE Copied
          /\ UNCHANGED <<slot, sup>>
          /\ credit' = IF Starts /\ Copied.body > handled.body THEN credit - 1 ELSE credit
        BY <1>2 DEF HandleCommand
    <2>2. Copied.body = slot.body /\ (slot.command # "NONE" => handled'.body = slot.body)
        BY <2>1 DEF Copied
    <2>3. Unstarted' = Unstarted
        BY <2>1 DEF Unstarted
    <2>4. ~Ready'
        BY <1>0, <2>1, <2>2 DEF Ready, ChannelTypes
    <2>5. One(Ready)' <= One(Ready)
        BY <2>4 DEF One
    <2>6. CASE Starts /\ Copied.body > handled.body
        <3>1. slot.command = "START"
            BY <1>2, <2>6 DEF HandleCommand, Starts, NoCommand, Pause, Resume, Abort, ClearJob
        <3>2. Ready /\ ~Ready'
            BY <2>2, <2>4, <2>6, <3>1 DEF Ready
        <3>3. One(Ready) = 1 /\ One(Ready)' = 0
            BY <3>2 DEF One
        <3>4. credit' = credit - 1
            BY <2>1, <2>6
        <3> QED
            BY <1>0, <1>a, <1>b, <1>c, <2>3, <3>3, <3>4
    <2>7. CASE ~(Starts /\ Copied.body > handled.body)
        <3>1. credit' = credit
            BY <2>1, <2>7
        <3>2. One(Ready)' \in 0..1
            BY DEF One
        <3> QED
            BY <1>0, <1>a, <1>b, <1>c, <2>3, <2>5, <3>1, <3>2
    <2> QED
        BY <2>6, <2>7
<1>3. CASE BootFirmware
    <2>1. slot' = Sup!EmptySlot /\ UNCHANGED <<handled, sup, credit>>
        BY <1>3 DEF BootFirmware, SlotAtBoot
    <2>2. ~Ready'
        BY <2>1 DEF Ready, Sup!EmptySlot
    <2>3. One(Ready)' = 0 /\ Unstarted' = Unstarted
        BY <2>1, <2>2 DEF One, Unstarted
    <2> QED
        BY <1>0, <1>a, <1>b, <1>c, <2>1, <2>3
<1>4. CASE SupervisorActs
    <2>1. /\ Acts /\ credit' \in Int /\ handled' = handled
        BY <1>4, SupervisorDoes
    <2>2. slot'.command = slot.command /\ slot'.body = slot.body
        BY <1>0, <2>1 DEF Acts, WritesOne, WritesNothing, ChannelTypes
    <2>3. One(Ready)' = One(Ready)
        BY <2>1, <2>2 DEF Ready
    <2>4. Unstarted' - Unstarted <= credit' - credit
        BY <2>1 DEF Acts
    <2>5. Unstarted' \in Int /\ credit' \in Int
        BY <2>1 DEF Unstarted, One
    <2>6. credit' >= Unstarted' + One(Ready)'
        <3>1. credit \in Int /\ One(Ready) \in Int
            BY <1>0, <1>b
        <3>2. credit' >= Unstarted' + One(Ready)
            BY <1>a, <1>b, <2>4, <2>5, <3>1, StillCovered
        <3> QED
            BY <2>3, <3>2
    <2> QED
        BY <1>c, <2>6
<1>5. CASE SupervisorWrites
    <2>1. /\ sup' = [sup EXCEPT !.unwritten = "NONE"]
          /\ slot' = [slot EXCEPT !.command = sup.unwritten, !.body = writes]
          /\ credit' = credit /\ handled' = handled
        BY <1>5, FinishWriteType DEF SupervisorWrites
    <2>2. sup'.start_requested = sup.start_requested /\ sup'.unwritten = "NONE"
        BY <1>0, <2>1 DEF Supervisors
    <2>3. Ready' => sup.unwritten = "START"
        BY <1>0, <2>1 DEF Ready, ChannelTypes
    <2>4. One(Ready)' <= One(sup.unwritten = "START")
        BY <2>3 DEF One
    <2>5. Unstarted' = One(sup.start_requested)
        BY <2>2 DEF Unstarted, One
    <2>6. Unstarted = One(sup.start_requested) + One(sup.unwritten = "START")
        BY DEF Unstarted
    <2>7. One(sup.start_requested) \in Int /\ One(sup.unwritten = "START") \in Int
          /\ One(Ready)' \in Int
        BY DEF One
    <2>8. credit' = credit
        BY <2>1
    <2>9. credit' >= Unstarted' + One(Ready)'
        BY <1>0, <1>a, <1>b, <2>4, <2>5, <2>6, <2>7, <2>8
    <2> QED
        BY <1>c, <2>9
<1>6. CASE SupervisorRestart
    <2>1. sup' = Sup!FreshSupervisor /\ UNCHANGED <<handled, slot, credit>>
        BY <1>6 DEF SupervisorRestart, Sup!Restart
    <2>2. Unstarted' = 0 /\ Unstarted >= 0
        BY <2>1 DEF Sup!FreshSupervisor, Unstarted, One
    <2>3. One(Ready)' = One(Ready)
        BY <2>1 DEF Ready
    <2> QED
        BY <1>0, <1>a, <1>b, <1>c, <2>1, <2>2, <2>3
<1> QED
    BY <1>1, <1>2, <1>3, <1>4, <1>5, <1>6
    DEF PathNext, Loop, FetchCommand, NothingToFetch, TakeJob, RefuseJob, Execute,
        PublishState, KillFirmware, SupervisorActs, Load, ManageProgram, WindowObserves,
        WindowActs
-----------------------------------------------------------------------------
(* The programs *)

LEMMA ProgramsStep == Types /\ Programs /\ [PathNext]_allVars => Programs'
<1> SUFFICES ASSUME Types, Programs, [PathNext]_allVars PROVE Programs'
    OBVIOUS
<1>0. /\ pm \in ProgramManagers /\ pm.load \in Nat /\ job_id \in Nat /\ region_load \in Nat
      /\ taken \subseteq Nat
      /\ job_ipc \in [unread : BOOLEAN, segments : JobSizes \cup {0}]
    BY BoundsAreNat DEF Types, ViewTypes, IngressTypes, ProgramManagers
<1>1. CASE UNCHANGED <<taken, region_load, pm, job_ipc, job_id>>
    BY <1>1 DEF Programs
<1>2. CASE HandleCommand
    <2>1. job_ipc' = job_ipc /\ job_id' \in {0, job_id} /\ UNCHANGED <<taken, region_load, pm>>
        BY <1>2, HandleViewTypes DEF HandleCommand, Types
    <2>2. One(job_ipc.unread) \in {0, 1}
        BY DEF One
    <2>3. job_id' <= job_id
        BY <1>0, <2>1
    <2>4. job_id' \in Nat
        BY <1>0, <2>1
    <2>5. job_id' + One(job_ipc.unread) <= region_load
        BY <1>0, <2>2, <2>3, <2>4 DEF Programs
    <2> QED
        BY <2>1, <2>5 DEF Programs
<1>3. CASE TakeJob
    <2>1. /\ job_ipc.unread /\ job_ipc'.unread = FALSE /\ job_id' = job_id + 1
          /\ taken' = taken \cup {region_load} /\ UNCHANGED <<region_load, pm>>
        BY <1>0, <1>3 DEF TakeJob, AcceptJob
    <2> QED
        BY <1>0, <2>1 DEF Programs, One
<1>4. CASE BootFirmware
    <2>1. job_ipc'.unread = FALSE /\ UNCHANGED <<taken, region_load, pm, job_id>>
        BY <1>4 DEF BootFirmware, Boot, EmptyJobIpc
    <2> QED
        BY <1>0, <2>1 DEF Programs, One
<1>5. CASE KillFirmware
    <2>1. job_id' = 0 /\ UNCHANGED <<taken, region_load, pm, job_ipc>>
        BY <1>5 DEF KillFirmware, Crash
    <2> QED
        BY <1>0, <2>1 DEF Programs, One
<1>6. CASE Load
    <2>1. PICK n \in JobSizes :
              pm' = [Pm!FreshProgramManager EXCEPT !.program = n, !.load = pm.load + 1]
        BY <1>6 DEF Load, Pm!LoadGcode
    <2>2. pm'.load = pm.load + 1 /\ UNCHANGED <<taken, region_load, job_ipc, job_id>>
        BY <1>6, <2>1 DEF Load, Pm!LoadGcode, Pm!FreshProgramManager
    <2> QED
        BY <1>0, <2>2 DEF Programs
<1>7. CASE ManageProgram
    <2> DEFINE m == inbox["pm"]
    <2>1. /\ pm' = Pm!AfterState(m) /\ UNCHANGED <<taken, job_id>>
          /\ IF Pm!Submits(m)
             THEN /\ job_ipc' = [unread |-> TRUE, segments |-> pm.program]
                  /\ region_load' = pm.load
             ELSE UNCHANGED <<job_ipc, region_load>>
        BY <1>7 DEF ManageProgram, Pm!StateCallback
    <2>2. /\ pm'.load = pm.load
          /\ pm'.program > 0 /\ ~pm'.job_submitted
                => pm.program > 0 /\ ~pm.job_submitted /\ ~Pm!Submits(m)
        <3>1. CASE Pm!Resets(m)
            <4>1. pm' = [Pm!FreshProgramManager EXCEPT !.load = pm.load]
                BY <2>1, <3>1 DEF Pm!AfterState
            <4>2. pm'.load = pm.load /\ pm'.program = 0
                BY <4>1 DEF Pm!FreshProgramManager
            <4> QED
                BY <4>2
        <3>2. CASE ~Pm!Resets(m)
            <4>1. pm' = [pm EXCEPT !.job_submitted = @ \/ Pm!Submits(m),
                                   !.start_received = @ \/ Pm!Starts(m)]
                BY <2>1, <3>2 DEF Pm!AfterState
            <4>2. /\ pm'.load = pm.load /\ pm'.program = pm.program
                  /\ pm'.job_submitted = (pm.job_submitted \/ Pm!Submits(m))
                BY <1>0, <4>1 DEF ProgramManagers
            <4> QED
                BY <4>2
        <3> QED
            BY <3>1, <3>2
    <2>3. CASE Pm!Submits(m)
        <3>1. pm.program > 0 /\ ~pm.job_submitted
            BY <2>3 DEF Pm!Submits
        <3>2. region_load < pm.load
            BY <3>1 DEF Programs
        <3>3. region_load' = pm.load /\ job_ipc'.unread = TRUE /\ job_id' = job_id
            BY <2>1, <2>3
        <3>4. \A n \in taken : n < pm.load
            BY <1>0, <3>2 DEF Programs
        <3>5. job_id + 1 <= pm.load
            BY <1>0, <3>2 DEF Programs, One
        <3>6. job_id' + One(job_ipc'.unread) <= region_load'
            BY <3>3, <3>5 DEF One
        <3>7. region_load' \notin taken' /\ \A n \in taken' : n <= region_load'
            BY <1>0, <2>1, <3>3, <3>4
        <3> QED
            BY <1>0, <2>2, <2>3, <3>3, <3>6, <3>7 DEF Programs
    <2>4. CASE ~Pm!Submits(m)
        BY <1>0, <2>1, <2>2, <2>4 DEF Programs
    <2> QED
        BY <2>3, <2>4
<1> QED
    BY <1>1, <1>2, <1>3, <1>4, <1>5, <1>6, <1>7, SupervisorDoes
    DEF PathNext, Loop, FetchCommand, NothingToFetch, NoCommand, RefuseJob, NoJobAccepted,
        Execute, Orchestrate, GoOn, Complete, FinalizeAbort, HoldPaused, FinishResume,
        OrchestratedVars, PublishState, Publish, SupervisorActs, SupervisorWrites,
        SupervisorRestart, WindowObserves, WindowActs
-----------------------------------------------------------------------------
(* The policy *)

LEMMA NewsStep == Types /\ InOrder /\ News /\ [PathNext]_allVars => News'
<1> SUFFICES ASSUME Types, InOrder, News, [PathNext]_allVars PROVE News'
    OBVIOUS
<1>0. /\ ChannelTypes /\ sup \in Supervisors /\ published \in Messages
      /\ restarts \in 0..MaxRestarts /\ sup.seq \in Nat /\ published.seq \in Nat
      /\ sup.last_state.seq \in Nat
    BY MessageSeq, BoundsAreNat DEF Types, NodeTypes, Supervisors
<1>1. CASE UNCHANGED <<stage, last_seen_seq, fetched, published, slot, sup, restarts>>
    BY <1>1 DEF News
<1>2. CASE FetchCommand
    <2>1. /\ stage = "command" /\ fetched' = [seq |-> slot.seq, header |-> slot.header]
          /\ UNCHANGED <<stage, last_seen_seq, published, slot, sup, restarts>>
        BY <1>2 DEF FetchCommand
    <2> QED
        BY <2>1 DEF News
<1>3. CASE HandleCommand
    <2>1. /\ last_seen_seq' = fetched.seq /\ fetched' = NothingFetched /\ stage' = "ingress"
          /\ UNCHANGED <<published, slot, sup, restarts>>
        BY <1>3, HandleViewTypes DEF HandleCommand, Types
    <2> QED
        BY <1>0, <2>1 DEF News, NothingFetched
<1>4. CASE NothingToFetch \/ TakeJob \/ RefuseJob \/ Execute
    <2>1. /\ UNCHANGED <<last_seen_seq, fetched, published, slot, sup, restarts>>
          /\ stage' \in {"ingress", "orchestrate", "publish"}
        BY <1>4, OrchestrateViewTypes DEF NothingToFetch, NoCommand, TakeJob, AcceptJob,
           RefuseJob, NoJobAccepted, Execute, Types
    <2> QED
        BY <2>1 DEF News
<1>5. CASE PublishState
    <2>1. /\ published' = Published /\ stage' = "command"
          /\ UNCHANGED <<last_seen_seq, fetched, slot, sup, restarts>>
        BY <1>5 DEF PublishState, Publish
    <2>2. published'.seq = last_seen_seq
        BY <2>1, PublishedType
    <2> QED
        BY <2>1, <2>2 DEF News
<1>6. CASE BootFirmware
    <2>1. /\ stage = "down" /\ stage' = "command" /\ published'.seq = 0 /\ slot'.seq = 0
          /\ UNCHANGED <<last_seen_seq, fetched, sup, restarts>>
        BY <1>6, BootIsFirst DEF BootFirmware, Boot, SlotAtBoot, Sup!EmptySlot
    <2> QED
        BY <1>0, <2>1 DEF News
<1>7. CASE KillFirmware
    <2>1. /\ stage' = "down" /\ last_seen_seq' = 0 /\ fetched'.seq = 0
          /\ UNCHANGED <<published, slot, sup, restarts>>
        BY <1>7 DEF KillFirmware, Crash, NothingFetched
    <2> QED
        BY <1>0, <2>1 DEF News
<1>8. CASE SupervisorActs
    <2>1. Acts /\ UNCHANGED <<stage, last_seen_seq, fetched, published, restarts>>
        BY <1>8, SupervisorDoes
    <2>2. sup'.seq \in {sup.seq, sup.seq + 1}
        BY <2>1 DEF Acts, WritesOne, WritesNothing
    <2>3. ASSUME restarts = 0 PROVE slot'.seq <= sup'.seq
        <3>1. CASE WritesNothing
            BY <2>3, <3>1 DEF WritesNothing, News
        <3>2. CASE WritesOne
            BY <1>0, <3>2 DEF WritesOne, ChannelTypes
        <3> QED
            BY <2>1, <3>1, <3>2 DEF Acts
    <2>4. ASSUME restarts = 0, sup'.pre_state # Sup!NoState PROVE sup'.pre_state.seq < sup'.seq
        <3>1. CASE sup'.pre_state = sup.pre_state
            <4>1. sup.pre_state.seq < sup.seq /\ sup.pre_state.seq \in Nat
                BY <1>0, <2>4, <3>1, MessageSeq DEF News, Supervisors
            <4> QED
                BY <1>0, <2>2, <3>1, <4>1
        <3>2. CASE sup'.pre_state \in {sup.last_state, published} /\ sup'.seq = sup.seq + 1
            BY <1>0, <2>4, <3>2 DEF News
        <3> QED
            BY <2>1, <2>4, <3>1, <3>2 DEF Acts
    <2>5. sup'.last_state \in {sup.last_state, published}
        BY <2>1 DEF Acts
    <2>6. fetched.seq \in Nat /\ last_seen_seq \in Nat
        BY <1>0, BoundsAreNat DEF ChannelTypes
    <2> QED
        BY <1>0, <2>1, <2>2, <2>3, <2>4, <2>5, <2>6 DEF News
<1>9. CASE SupervisorWrites
    <2>1. /\ UNCHANGED <<stage, last_seen_seq, fetched, published, restarts>>
          /\ slot'.seq = slot.seq /\ sup'.seq = sup.seq
          /\ sup'.last_state = sup.last_state /\ sup'.pre_state = sup.pre_state
        BY <1>0, <1>9, FinishWriteType DEF SupervisorWrites, Sup!FinishWrite, ChannelTypes,
           Supervisors
    <2> QED
        BY <2>1 DEF News
<1>10. CASE SupervisorRestart
    <2>1. /\ UNCHANGED <<stage, last_seen_seq, published>> /\ restarts' = restarts + 1
        BY <1>10 DEF SupervisorRestart, Sup!Restart
    <2> QED
        BY <1>0, <2>1 DEF News
<1> QED
    BY <1>1, <1>2, <1>3, <1>4, <1>5, <1>6, <1>7, <1>8, <1>9, <1>10
    DEF PathNext, Loop, SupervisorActs, Load, Pm!LoadGcode, ManageProgram, WindowObserves,
        WindowActs
-----------------------------------------------------------------------------
(* The results *)

PathInv == Types /\ InOrder /\ Backed /\ Programs /\ News

LEMMA PathInvInit == PathInit => PathInv
<1> SUFFICES ASSUME PathInit PROVE PathInv
    OBVIOUS
<1>1. Types
    BY TypesInit
<1>2. /\ last_seen_seq = 0 /\ fetched = NothingFetched /\ writes = 0
      /\ handled = [header |-> 0, body |-> 0]
      /\ slot = Sup!EmptySlot /\ stage = "down"
    BY DEF PathInit, Init
<1>3. InOrder
    BY <1>2 DEF InOrder, Sup!EmptySlot
<1>4. sup = Sup!FreshSupervisor /\ credit = 0 /\ published = BootMessage
    BY DEF PathInit
<1>5. Backed
    BY <1>2, <1>4 DEF Backed, One, Sup!FreshSupervisor, Sup!EmptySlot
<1>6. Programs
    <2>1. /\ taken = {} /\ region_load = 0 /\ pm.load = 0 /\ pm.program = 0 /\ job_id = 0
          /\ job_ipc.unread = FALSE
        BY DEF PathInit, Init, Pm!FreshProgramManager, EmptyJobIpc
    <2> QED
        BY <2>1 DEF Programs, One
<1>7. News
    BY <1>2, <1>4, BootIsFirst
    DEF News, Sup!EmptySlot, Sup!FreshSupervisor, NothingFetched
<1> QED
    BY <1>1, <1>3, <1>5, <1>6, <1>7 DEF PathInv

LEMMA PathInvStep == PathInv /\ [PathNext]_allVars => PathInv'
BY ViewTypesStep, ChannelTypesStep, IngressTypesStep, NodeTypesStep, InOrderStep, BackedStep,
   ProgramsStep, NewsStep
DEF PathInv, Types

LEMMA PathInvariant == PathSpec => []PathInv
BY PathInvInit, PathInvStep, PTL DEF PathSpec

\* Every process keeps its types, for every number of commands, files, kills and restarts: the
\* numbers of the supervisor and of the slot stay within the commands that were asked for, and
\* the firmware never counts more jobs than files were loaded.
THEOREM PathTypeCorrect == PathSpec => []PathTypeOK
<1>1. PathInv => PathTypeOK
    <2> SUFFICES ASSUME PathInv PROVE PathTypeOK
        OBVIOUS
    <2>1. /\ ChannelTypes /\ IngressTypes /\ NodeTypes /\ Programs
        BY DEF PathInv, Types
    <2>2. job_id \in 0..MaxJobs
        BY <2>1, BoundsAreNat DEF Programs, IngressTypes, ProgramManagers, One
    <2>3. ui.pending \in Commands /\ ui.buttons \subseteq Operator
        BY <2>1 DEF NodeTypes, Interfaces
    <2>4. /\ rejection \in Rejections /\ pm \in ProgramManagers /\ taken \subseteq 0..MaxJobs
        BY <2>1 DEF IngressTypes
    <2>5. /\ published \in Messages /\ inbox \in [Subscribers -> Messages]
          /\ sup \in Supervisors /\ requests \subseteq Operator
          /\ crashes \in 0..MaxCrashes /\ restarts \in 0..MaxRestarts
        BY <2>1 DEF NodeTypes
    <2>6. /\ last_seen_seq \in 0..MaxCommands
          /\ fetched \in [seq : 0..MaxCommands, header : 0..writes]
          /\ slot \in [seq : 0..MaxCommands, command : Commands, header : 0..writes,
                        body : 0..writes]
        BY <2>1 DEF ChannelTypes
    <2> QED
        BY <2>2, <2>3, <2>4, <2>5, <2>6
        DEF PathTypeOK, Supervisors, ProgramManagers, Commands
<1> QED
    BY <1>1, PathInvariant, PTL

\* CommandChannel::poll executes commands in the order they were written in, each under a later
\* number than the one before, over torn copies and any number of kills of the firmware and of
\* the supervisor. Two whole copies in a row are of different commands; where one of the two is
\* torn, the same command may be executed again. That every command is executed is not stated.
THEOREM CommandsHandledInOrder == PathSpec => HandledInOrder
<1>1. PathInv /\ [PathNext]_allVars =>
          [HandleCommand /\ slot.command # "NONE" =>
              /\ Copied.header > handled.header
              /\ Copied.body >= handled.body
              /\ Whole(Copied) /\ Whole(handled) => Copied.body > handled.body]_allVars
    BY ExecutedInOrder DEF PathInv
<1> QED
    BY <1>1, PathInvariant, PTL DEF PathSpec, HandledInOrder

\* Latch, policy, slot and firmware start no more prints than START requests were served, over
\* torn copies and any number of kills. Not counted is the print of a START that was executed
\* before and is executed again from a torn copy, which CommandsHandledInOrder admits: one request
\* can then start two prints.
THEOREM PrintsAreRequested == PathSpec => []StartsAreRequested
<1>1. PathInv => StartsAreRequested
    <2> SUFFICES ASSUME PathInv PROVE StartsAreRequested
        OBVIOUS
    <2>1. credit \in Int /\ Backed
        BY DEF PathInv, Types, NodeTypes
    <2> QED
        BY <2>1 DEF Backed, One, StartsAreRequested
<1> QED
    BY <1>1, PathInvariant, PTL

\* A file that was loaded once is accepted as a job at most once (poll_job_ingress), whatever
\* MotionLoader::stateCallback is told late and however often the firmware is killed.
THEOREM ProgramsTakenOnce == PathSpec => ProgramTakenOnce
<1>1. PathInv /\ [PathNext]_allVars => [TakeJob => region_load \notin taken]_allVars
    BY DEF PathInv, Programs, TakeJob, AcceptJob
<1> QED
    BY <1>1, PathInvariant, PTL DEF PathSpec, ProgramTakenOnce

\* The published state differs from the one CommandPolicy remembers once the command was
\* handled, in a supervisor that was not restarted: its number is higher.
THEOREM HandledCommandsShow == PathSpec => []HandledCommandShows
<1>1. PathInv => HandledCommandShows
    <2> SUFFICES ASSUME PathInv, stage = "command", sup.pre_state # Sup!NoState,
                        slot.seq = sup.seq, slot.seq = last_seen_seq, restarts = 0
                 PROVE  published # sup.pre_state
        BY DEF HandledCommandShows
    <2>1. published.seq = sup.seq /\ sup.pre_state.seq < sup.seq
        BY DEF PathInv, News
    <2>2. published \in Messages
        BY DEF PathInv, Types, NodeTypes
    <2>3. published.seq \in Nat
        BY <2>2, MessageSeq
    <2>4. published = sup.pre_state => published.seq < published.seq
        BY <2>1
    <2> QED
        BY <2>3, <2>4
<1> QED
    BY <1>1, PathInvariant, PTL
-----------------------------------------------------------------------------
(* The firmware of CommandPath is that of FirmwareView *)

\* What the program manager writes into the job region is a job.
LEMMA ProgramWrites ==
    ASSUME Types, ManageProgram
    PROVE  [Next]_viewVars
<1>1. UNCHANGED <<stage, system, job, resume, operator_actions, snapshot>>
    BY DEF ManageProgram
<1>2. CASE job_ipc' = job_ipc
    BY <1>1, <1>2
<1>3. CASE job_ipc' # job_ipc
    <2>1. pm.program > 0 /\ job_ipc' = [unread |-> TRUE, segments |-> pm.program]
        BY <1>3 DEF ManageProgram, Pm!StateCallback, Pm!Submits
    <2>2. pm.program \in JobSizes
        BY <2>1 DEF Types, IngressTypes, ProgramManagers
    <2> QED
        BY <1>1, <2>1, <2>2 DEF Next, WriteJob
<1> QED
    BY <1>2, <1>3

\* Every step of the five processes is a step of the firmware as FirmwareView describes it, or
\* leaves what it shows alone.
LEMMA ViewStep == Types /\ [PathNext]_allVars => [Next]_viewVars
<1> SUFFICES ASSUME Types, [PathNext]_allVars PROVE [Next]_viewVars
    OBVIOUS
<1>1. CASE ManageProgram
    BY <1>1, ProgramWrites
<1>2. CASE HandleCommand
    BY <1>2 DEF HandleCommand, Next
<1>3. CASE NothingToFetch \/ TakeJob \/ RefuseJob \/ Execute \/ PublishState \/ BootFirmware
            \/ KillFirmware
    BY <1>3 DEF NothingToFetch, TakeJob, RefuseJob, Execute, PublishState, BootFirmware,
           KillFirmware, Next
<1>4. CASE UNCHANGED viewVars
    BY <1>4
<1> QED
    BY <1>1, <1>2, <1>3, <1>4
    DEF PathNext, Loop, FetchCommand, SupervisorTimer, SupervisorWrites, WindowRequest,
        OtherRequest, ServeRequest, MotionReport, SupervisorRestart, Load, WindowObserves,
        WindowActs

\* With the slot, the supervisor, the program manager and the window around it, the firmware
\* does only what FirmwareView allows, which is what Firmware implements (ViewRefinement): the
\* command path neither gives it a command that its own main loop could not be given nor writes
\* the job region in another way.
THEOREM PathRunsTheView == PathSpec => Spec
<1>1. PathInit => Init
    BY DEF PathInit
<1>2. PathInv => Types
    BY DEF PathInv
<1> QED
    BY <1>1, <1>2, PathInvariant, ViewStep, PTL DEF PathSpec, Spec
=============================================================================
