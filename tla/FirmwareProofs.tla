---------------------------- MODULE FirmwareProofs ----------------------------
(* Theorems about Firmware, for every value of its constants. *)
EXTENDS Firmware, SequenceTheorems, TLAPS

-----------------------------------------------------------------------------
(* The inductive invariant *)

InPrint == system \in {"EXECUTING_PRINT", "PAUSED", "RESUMING"}

\* A process that is not running has the state of a fresh one.
DownIsFresh == pc = "down" => ~job.present /\ job.total = 0 /\ printed = <<>> /\ resumes = 0
                              /\ last_cursor = 0 /\ ~ctx.owned /\ ~abort_started

Ownership == (ctx.phase = "RUNNING" <=> ctx.owned) /\ ~(ctx.armed /\ ctx.owned)

\* From the test in the "execute" stage to the submission, the loop is the executor.
Submitting == pc \in {"recheck", "submit"} =>
                  /\ system = "EXECUTING_PRINT" /\ ctx.owned
                  /\ ctx.cursor < job.total /\ last_cursor = ctx.cursor

AbortOnlyAborting == abort_started => system = "ABORTING" /\ ~ctx.owned

\* Only a boot into PAUSED is in a print without a job, and then nothing can be executed.
JobOfThePrint == /\ InPrint => job.present \/ (job.total = 0 /\ printed = <<>>)
                 /\ ctx.owned => job.present

TotalsAreSizes == job.total \in JobSizes \cup {0} /\ job_ipc.segments \in JobSizes \cup {0}

CursorMonotone ==
    /\ ctx.cursor = 0 \/ ctx.cursor >= last_cursor
    /\ snapshot_file.valid /\ pc # "down" =>
           snapshot_file.cursor = 0 \/ snapshot_file.cursor >= last_cursor

ResumeSpent == resumes <= 1 /\ (InPrint /\ resumes > 0 => resume.consumed)

PrintedBehindCursor == InPrint => \A i \in DOMAIN printed : printed[i] < ctx.cursor

Inv == /\ DownIsFresh
       /\ Ownership
       /\ Submitting
       /\ AbortOnlyAborting
       /\ JobOfThePrint
       /\ TotalsAreSizes
       /\ CursorMonotone
       /\ ResumeSpent
       /\ PrintedBehindCursor
       /\ SnapshotIsTheCursor
       /\ SnapshotOnlyWhilePaused
       /\ JobViewsAgree
       /\ OnlyPrintsAreExecuted

IInv == TypeOK /\ Inv
-----------------------------------------------------------------------------
(* Type correctness *)

USE DEF ctxVars, machineVars, worldVars, boundVars, historyVars

\* Polling the motion controller keeps the type of its state.
LEMMA PolledType ==
    ASSUME NEW m \in Motion
    PROVE  Polled(m) \in Motion /\ Polled(m).submitted = m.submitted
BY DEF Polled, PollResult, Motion

\* The sequence counter wraps within its range.
LEMMA NextSeqType ==
    ASSUME NEW n \in 0..SeqModulus-1
    PROVE  NextSeq(n) \in 0..SeqModulus-1
BY SeqModulusAssumption DEF NextSeq

\* The answers stored as flags are Booleans.
LEMMA ReadyType ==
    ASSUME NEW m
    PROVE  Ready(m) \in BOOLEAN
<1> DEFINE target == IF m.capacity > 2 THEN m.capacity - 2 ELSE m.capacity
<1>1. (m.depth < target /\ Inflight(m) < target) \in BOOLEAN
    OBVIOUS
<1>2. (Inflight(m) < StreamWindow) \in BOOLEAN
    OBVIOUS
<1> QED
    BY <1>1, <1>2 DEF Ready

\* derive_operator_actions yields a set of permissions in every state.
LEMMA ActionsInType ==
    ASSUME resume \in [available : BOOLEAN, consumed : BOOLEAN]
    PROVE  ActionsIn(system, resume.consumed) \in OperatorActions
<1>1. (~resume.consumed) \in BOOLEAN
    OBVIOUS
<1>2. \A b \in BOOLEAN :
          [can_submit_job |-> TRUE, can_start |-> TRUE, can_clear_job |-> TRUE,
           can_recover |-> FALSE, can_resume |-> b] \in OperatorActions
    BY DEF OperatorActions
<1> QED
    BY <1>1, <1>2 DEF ActionsIn, NoActions, OperatorActions

\* The records and sequences a fresh process starts from.
LEMMA FreshTypes ==
    /\ NoJob \in JobRecord
    /\ NoActions \in OperatorActions
    /\ FreshContext \in ExecutionContext
    /\ FreshMotion \in Motion
    /\ NoSnapshot \in SnapshotFile
    /\ <<>> \in Seq(Nat)
    /\ <<>> \in Seq(0..SeqModulus-1)
<1>1. NoJob \in JobRecord
    BY DEF NoJob, JobRecord
<1>2. NoActions \in OperatorActions
    BY DEF NoActions, OperatorActions
<1>3. FreshContext \in ExecutionContext
    BY DEF FreshContext, ExecutionContext
<1>4. FreshMotion \in Motion
    BY SeqModulusAssumption DEF FreshMotion, Motion
<1>5. NoSnapshot \in SnapshotFile
    BY DEF NoSnapshot, SnapshotFile
<1>6. <<>> \in Seq(Nat) /\ <<>> \in Seq(0..SeqModulus-1)
    BY EmptySeq
<1> QED
    BY <1>1, <1>2, <1>3, <1>4, <1>5, <1>6

\* A process that has not booted yet is well typed.
LEMMA TypeInit == Init => TypeOK
<1> SUFFICES ASSUME Init PROVE TypeOK
    OBVIOUS
<1>1. job \in JobRecord /\ operator_actions \in OperatorActions /\ ctx \in ExecutionContext
    BY FreshTypes DEF Init
<1>2. motion \in Motion /\ snapshot_file \in SnapshotFile
    BY FreshTypes DEF Init
<1>3. world \in Seq(0..SeqModulus-1) /\ printed \in Seq(Nat)
    BY FreshTypes DEF Init
<1>4. /\ job_ipc \in [unread : BOOLEAN, segments : Nat]
      /\ resume \in [available : BOOLEAN, consumed : BOOLEAN]
    BY DEF Init, EmptyJobIpc
<1>5. /\ pc \in Stages \cup {"down"} /\ system \in SystemStates /\ recovery \in BOOLEAN
      /\ last_cursor \in Nat /\ resumes \in Nat
    BY DEF Init, SystemStates
<1>6. motion_idle \in BOOLEAN /\ abort_started \in BOOLEAN /\ pause_snapshot \in BOOLEAN
    BY DEF Init
<1>7. jobs_written \in 0..MaxJobs /\ crashes \in 0..MaxCrashes
    BY BoundsAssumption DEF Init
<1> QED
    BY <1>1, <1>2, <1>3, <1>4, <1>5, <1>6, <1>7 DEF TypeOK

\* Moving the cursor on keeps the type of the context.
LEMMA CursorStep ==
    ASSUME NEW c \in ExecutionContext
    PROVE  [c EXCEPT !.cursor = @ + 1] \in ExecutionContext /\ c.cursor \in Nat
BY DEF ExecutionContext

\* What Submit appends to the queue of the world and to the history.
LEMMA SubmitSequences ==
    ASSUME motion \in Motion, ctx \in ExecutionContext,
           world \in Seq(0..SeqModulus-1), printed \in Seq(Nat), Submit
    PROVE  world' \in Seq(0..SeqModulus-1) /\ printed' \in Seq(Nat)
<1>1. NextSeq(motion.submitted) \in 0..SeqModulus-1 /\ ctx.cursor \in Nat
    BY NextSeqType, CursorStep DEF Motion
<1>2. \/ /\ world' = Append(world, NextSeq(motion.submitted))
         /\ printed' = Append(printed, ctx.cursor)
      \/ world' = world /\ printed' = printed
    BY DEF Submit
<1>3. Append(world, NextSeq(motion.submitted)) \in Seq(0..SeqModulus-1)
    BY <1>1, AppendProperties
<1>4. Append(printed, ctx.cursor) \in Seq(Nat)
    BY <1>1, AppendProperties
<1> QED
    BY <1>2, <1>3, <1>4

\* Every stage of the loop, callback, crash and loss keeps the types.
LEMMA TypeStep == TypeOK /\ [Next]_vars => TypeOK'
<1> SUFFICES ASSUME TypeOK PROVE [Next]_vars => TypeOK'
    OBVIOUS
<1> USE DEF TypeOK
<1>1. ASSUME OnWorldComplete PROVE TypeOK'
    <2>1. Head(world) \in 0..SeqModulus-1 /\ world' \in Seq(0..SeqModulus-1)
        BY <1>1, HeadTailProperties DEF OnWorldComplete
    <2>2. motion' \in Motion
        BY <1>1, <2>1 DEF OnWorldComplete, Motion
    <2> QED
        BY <1>1, <2>1, <2>2 DEF OnWorldComplete
<1>2. ASSUME OnMotionStatus PROVE TypeOK'
    <2>1. motion' \in Motion
        BY <1>2, StatusReportsAssumption DEF OnMotionStatus, Motion
    <2> QED
        BY <1>2, <2>1 DEF OnMotionStatus
<1>3. ASSUME OnMotionResult PROVE TypeOK'
    BY <1>3 DEF OnMotionResult, Motion
<1>4. ASSUME TimePasses PROVE TypeOK'
    <2>1. motion' \in Motion
        BY <1>4 DEF TimePasses, Motion
    <2> QED
        BY <1>4, <2>1 DEF TimePasses
<1>5. ASSUME WriteJob PROVE TypeOK'
    BY <1>5, JobSizesAssumption, BoundsAssumption DEF WriteJob
<1>6. ASSUME Crash PROVE TypeOK'
    <2>1. /\ job' \in JobRecord /\ operator_actions' \in OperatorActions
          /\ ctx' \in ExecutionContext /\ motion' \in Motion
        BY <1>6, FreshTypes DEF Crash, ProcessGone
    <2>2. printed' \in Seq(Nat)
        BY <1>6, FreshTypes DEF Crash, ProcessGone
    <2>3. /\ pc' \in Stages \cup {"down"} /\ system' \in SystemStates
          /\ resume' \in [available : BOOLEAN, consumed : BOOLEAN] /\ recovery' \in BOOLEAN
        BY <1>6 DEF Crash, ProcessGone, SystemStates
    <2>4. /\ motion_idle' \in BOOLEAN /\ abort_started' \in BOOLEAN
          /\ pause_snapshot' \in BOOLEAN
        BY <1>6 DEF Crash, ProcessGone
    <2>5. last_cursor' \in Nat /\ resumes' \in Nat
        BY <1>6 DEF Crash, ProcessGone
    <2>6. crashes' \in 0..MaxCrashes
        BY <1>6, BoundsAssumption DEF Crash
    <2> QED
        BY <1>6, <2>1, <2>2, <2>3, <2>4, <2>5, <2>6 DEF Crash
<1>7. ASSUME WorldLost PROVE TypeOK'
    BY <1>7 DEF WorldLost
<1>8. ASSUME NoCommand PROVE TypeOK'
    BY <1>8 DEF NoCommand, Stages
<1>9. ASSUME Start PROVE TypeOK'
    BY <1>9, FreshTypes DEF Start, Stages, SystemStates, JobRecord
<1>10. ASSUME Pause PROVE TypeOK'
    BY <1>10 DEF Pause, Stages, SystemStates
<1>11. ASSUME Resume PROVE TypeOK'
    BY <1>11 DEF Resume, Stages, SystemStates
<1>12. ASSUME Abort PROVE TypeOK'
    BY <1>12 DEF Abort, Stages, SystemStates
<1>13. ASSUME ClearJob PROVE TypeOK'
    BY <1>13 DEF ClearJob, Stages, SystemStates, JobCleared, JobRecord, ResetSoft,
           ExecutionContext, SnapshotFile, NoSnapshot
<1>14. ASSUME Recover PROVE TypeOK'
    BY <1>14 DEF Recover, Stages, SystemStates, ResetSoft, ExecutionContext, SnapshotFile,
           NoSnapshot
<1>15. ASSUME AcceptJob PROVE TypeOK'
    BY <1>15 DEF AcceptJob, Stages, JobRecord
<1>16. ASSUME NoJobAccepted PROVE TypeOK'
    BY <1>16 DEF NoJobAccepted, Stages
<1>17. ASSUME Activate PROVE TypeOK'
    <2>1. Gated(ctx) \in ExecutionContext
        BY DEF Gated, ExecutionContext
    <2>2. Armed(Gated(ctx)) \in ExecutionContext
        BY <2>1 DEF Armed, ExecutionContext
    <2> QED
        BY <1>17, <2>2 DEF Activate, Stages
<1>18. ASSUME StepNotCalled PROVE TypeOK'
    BY <1>18 DEF StepNotCalled, Stages
<1>19. ASSUME StepExhausted PROVE TypeOK'
    BY <1>19 DEF StepExhausted, Stages, ExecutionContext
<1>20. ASSUME StepSettle PROVE TypeOK'
    BY <1>20, PolledType DEF StepSettle, Stages, ExecutionContext
<1>21. ASSUME Recheck PROVE TypeOK'
    BY <1>21 DEF Recheck, Stages
<1>22. ASSUME Submit PROVE TypeOK'
    <2>1. ctx' \in ExecutionContext
        BY <1>22, CursorStep DEF Submit
    <2>2. motion' \in Motion
        BY <1>22, NextSeqType DEF Submit, Motion
    <2>3. world' \in Seq(0..SeqModulus-1) /\ printed' \in Seq(Nat)
        BY <1>22, SubmitSequences
    <2> QED
        BY <1>22, <2>1, <2>2, <2>3 DEF Submit, Stages
<1>23. ASSUME PollMotion PROVE TypeOK'
    BY <1>23, PolledType, ReadyType DEF PollMotion, Stages
<1>24. ASSUME NothingToOrchestrate PROVE TypeOK'
    BY <1>24 DEF NothingToOrchestrate, Stages
<1>25. ASSUME KeepExecuting PROVE TypeOK'
    BY <1>25 DEF KeepExecuting, Stages, StartedEarly, ExecutionContext
<1>26. ASSUME CompleteJob PROVE TypeOK'
    BY <1>26 DEF CompleteJob, Stages, SystemStates, JobRecord, ResetHard, ResetSoft,
           ExecutionContext
<1>27. ASSUME AbortPending PROVE TypeOK'
    BY <1>27 DEF AbortPending, Stages, AbortBegun, ExecutionContext, AbortSnapshot,
           SnapshotFile, NoSnapshot, Motion
<1>28. ASSUME FinalizeAbort PROVE TypeOK'
    BY <1>28 DEF FinalizeAbort, Stages, SystemStates, AbortBegun, ExecutionContext,
           AbortSnapshot, SnapshotFile, NoSnapshot, Motion, JobRecord
<1>29. ASSUME HoldPaused PROVE TypeOK'
    <2>1. Persisted \in SnapshotFile /\ NoSnapshot \in SnapshotFile
        BY FreshTypes DEF Persisted, SnapshotFile, JobContextId, ExecutionContext
    <2>2. snapshot_file' \in SnapshotFile
        BY <1>29, <2>1 DEF HoldPaused
    <2>3. ctx' \in ExecutionContext
        BY <1>29 DEF HoldPaused, ExecutionContext
    <2> QED
        BY <1>29, <2>2, <2>3 DEF HoldPaused, Stages
<1>30. ASSUME RestoreSnapshot PROVE TypeOK'
    BY <1>30 DEF RestoreSnapshot, Stages, SystemStates, ResetHard, ResetSoft,
           ExecutionContext, SnapshotFile, NoSnapshot
<1>31. ASSUME SnapshotMissing PROVE TypeOK'
    BY <1>31 DEF SnapshotMissing, Stages, SystemStates
<1>32. ASSUME Publish PROVE TypeOK'
    BY <1>32, ReadyType, ActionsInType DEF Publish, Stages
<1>33. ASSUME Boot PROVE TypeOK'
    BY <1>33 DEF Boot, Stages, SystemStates, SnapshotAccepted, SnapshotFile, NoSnapshot,
           EmptyJobIpc
<1>34. ASSUME UNCHANGED vars PROVE TypeOK'
    BY <1>34 DEF vars
<1> QED
    BY <1>1, <1>2, <1>3, <1>4, <1>5, <1>6, <1>7, <1>8, <1>9, <1>10, <1>11, <1>12, <1>13,
       <1>14, <1>15, <1>16, <1>17, <1>18, <1>19, <1>20, <1>21, <1>22, <1>23, <1>24, <1>25,
       <1>26, <1>27, <1>28, <1>29, <1>30, <1>31, <1>32, <1>33, <1>34
       DEF Next, Tick, Environment, Command, Ingress, ExecutionStep, Orchestrate

\* The state of the firmware is well typed, for every window, counter width and set of jobs:
\* the phase of the execution context is never left at COMPLETED between two stages.
THEOREM TypeCorrect == Spec => []TypeOK
<1>1. Init => TypeOK
    BY TypeInit
<1>2. TypeOK /\ [Next]_vars => TypeOK'
    BY TypeStep
<1> QED
    BY <1>1, <1>2, PTL DEF Spec

-----------------------------------------------------------------------------
(* The invariant is inductive *)

\* The types a step of the invariant relies on.
LEMMA CoreTypes ==
    ASSUME TypeOK
    PROVE  /\ ctx \in ExecutionContext /\ job \in JobRecord /\ snapshot_file \in SnapshotFile
           /\ resume \in [available : BOOLEAN, consumed : BOOLEAN]
           /\ last_cursor \in Nat /\ resumes \in Nat /\ printed \in Seq(Nat)
           /\ job_ipc \in [unread : BOOLEAN, segments : Nat]
BY DEF TypeOK

\* The invariant holds of a process that has not booted yet.
LEMMA InvInit == Init => Inv
BY DEF Init, Inv, DownIsFresh, Ownership, Submitting, AbortOnlyAborting, JobOfThePrint,
       TotalsAreSizes, CursorMonotone, ResumeSpent, PrintedBehindCursor, SnapshotIsTheCursor,
       SnapshotOnlyWhilePaused, JobViewsAgree, OnlyPrintsAreExecuted, InPrint, NoJob,
       FreshContext, NoSnapshot, EmptyJobIpc

\* A submission moves the cursor past the segment it records.
LEMMA SubmitStep ==
    ASSUME TypeOK, Inv, Submit
    PROVE  CursorMonotone' /\ PrintedBehindCursor'
<1> USE CoreTypes
<1>1. /\ ctx.cursor \in Nat
      /\ ctx'.cursor = ctx.cursor + 1
    BY DEF Submit, ExecutionContext
<1>2. /\ system = "EXECUTING_PRINT" /\ system' = system /\ last_cursor = ctx.cursor
      /\ last_cursor' = last_cursor /\ snapshot_file' = snapshot_file /\ pc = "submit"
    BY DEF Inv, Submitting, Submit
<1>3. CursorMonotone'
    <2>1. ctx'.cursor >= last_cursor'
        BY <1>1, <1>2
    <2>2. ~snapshot_file'.valid
        BY <1>2 DEF Inv, SnapshotOnlyWhilePaused
    <2> QED
        BY <2>1, <2>2 DEF CursorMonotone
<1>4. PrintedBehindCursor'
    <2>1. \A i \in DOMAIN printed : printed[i] < ctx.cursor
        BY <1>2 DEF Inv, PrintedBehindCursor, InPrint
    <2>2. CASE printed' = printed
        BY <2>1, <2>2, <1>1 DEF PrintedBehindCursor
    <2>3. CASE printed' = Append(printed, ctx.cursor)
        <3>1. /\ DOMAIN printed = 1..Len(printed) /\ Len(printed) \in Nat
              /\ DOMAIN printed' = 1..Len(printed) + 1
              /\ \A i \in 1..Len(printed) : printed'[i] = printed[i]
              /\ printed'[Len(printed) + 1] = ctx.cursor
            <4>1. printed \in Seq(Nat) /\ ctx.cursor \in Nat
                BY DEF TypeOK, ExecutionContext
            <4> QED
                BY <2>3, <4>1, AppendProperties, LenProperties
        <3>2. \A i \in DOMAIN printed' : printed'[i] < ctx.cursor + 1
            <4> TAKE i \in DOMAIN printed'
            <4>1. CASE i \in 1..Len(printed)
                <5>1. printed'[i] = printed[i] /\ printed[i] < ctx.cursor
                    BY <2>1, <3>1, <4>1, Zenon
                <5>2. printed[i] \in Nat /\ ctx.cursor \in Nat
                    <6>1. printed \in Seq(Nat)
                        BY DEF TypeOK
                    <6> QED
                        BY <1>1, <4>1, <6>1, ElementOfSeq, Zenon
                <5> QED
                    BY <5>1, <5>2
            <4>2. CASE i = Len(printed) + 1
                BY <1>1, <3>1, <4>2
            <4>3. i \in 1..Len(printed) \/ i = Len(printed) + 1
                <5>1. i \in 1..Len(printed) + 1 /\ Len(printed) \in Nat
                    BY <3>1, Zenon
                <5> HIDE CoreTypes
                <5> QED
                    BY <5>1
            <4> QED
                BY <4>1, <4>2, <4>3, Zenon
        <3> QED
            BY <1>1, <3>2 DEF PrintedBehindCursor
    <2> QED
        BY <2>2, <2>3 DEF Submit
<1> QED
    BY <1>3, <1>4

\* Every stage of the loop, callback, crash and loss keeps the invariant.
LEMMA InvStep == TypeOK /\ Inv /\ [Next]_vars => Inv'
<1> SUFFICES ASSUME TypeOK, Inv PROVE [Next]_vars => Inv'
    OBVIOUS
<1> USE CoreTypes
<1> USE DEF Inv, InPrint, DownIsFresh, Ownership, Submitting, AbortOnlyAborting, JobOfThePrint,
            TotalsAreSizes, CursorMonotone, ResumeSpent, PrintedBehindCursor,
            SnapshotIsTheCursor, SnapshotOnlyWhilePaused, JobViewsAgree,
            OnlyPrintsAreExecuted
<1>1. ASSUME OnWorldComplete PROVE Inv'
    BY <1>1 DEF OnWorldComplete
<1>2. ASSUME OnMotionStatus PROVE Inv'
    BY <1>2 DEF OnMotionStatus
<1>3. ASSUME OnMotionResult PROVE Inv'
    BY <1>3 DEF OnMotionResult
<1>4. ASSUME TimePasses PROVE Inv'
    BY <1>4 DEF TimePasses
<1>5. ASSUME WriteJob PROVE Inv'
    BY <1>5 DEF WriteJob
<1>6. ASSUME Crash PROVE Inv'
    BY <1>6 DEF Crash, ProcessGone, NoJob, FreshContext, FreshMotion
<1>7. ASSUME WorldLost PROVE Inv'
    BY <1>7 DEF WorldLost
<1>8. ASSUME NoCommand PROVE Inv'
    BY <1>8 DEF NoCommand
<1>9. ASSUME Start PROVE Inv'
    BY <1>9 DEF Start, CommandAllowed, CanStartJob, ExecutionContext, JobRecord,
           SnapshotFile
<1>10. ASSUME Pause PROVE Inv'
    BY <1>10 DEF Pause, CommandAllowed, ExecutionContext, JobRecord, SnapshotFile
<1>11. ASSUME Resume PROVE Inv'
    BY <1>11 DEF Resume, CommandAllowed, CanResume, ExecutionContext, JobRecord,
           SnapshotFile
<1>12. ASSUME Abort PROVE Inv'
    BY <1>12 DEF Abort
<1>13. ASSUME ClearJob PROVE Inv'
    BY <1>13 DEF ClearJob, JobCleared, ResetSoft, NoSnapshot
<1>14. ASSUME Recover PROVE Inv'
    BY <1>14 DEF Recover, ResetSoft, NoSnapshot, CommandAllowed, ExecutionContext,
           JobRecord, SnapshotFile
<1>15. ASSUME AcceptJob PROVE Inv'
    BY <1>15 DEF AcceptJob, CanSubmitJob, ExecutionContext, JobRecord, SnapshotFile
<1>16. ASSUME NoJobAccepted PROVE Inv'
    BY <1>16 DEF NoJobAccepted
<1>17. ASSUME Activate PROVE Inv'
    BY <1>17 DEF Activate, Armed, Gated, ExecutionContext, JobRecord, SnapshotFile
<1>18. ASSUME StepNotCalled PROVE Inv'
    BY <1>18 DEF StepNotCalled
<1>19. ASSUME StepExhausted PROVE Inv'
    BY <1>19 DEF StepExhausted, MayStep, ExecutionContext, JobRecord, SnapshotFile
<1>20. ASSUME StepSettle PROVE Inv'
    BY <1>20 DEF StepSettle, MayStep, ExecutionContext, JobRecord, SnapshotFile
<1>21. ASSUME Recheck PROVE Inv'
    BY <1>21 DEF Recheck
<1>22. ASSUME Submit PROVE Inv'
    BY <1>22, SubmitStep DEF Submit, ExecutionContext, JobRecord, SnapshotFile
<1>23. ASSUME PollMotion PROVE Inv'
    BY <1>23 DEF PollMotion
<1>24. ASSUME NothingToOrchestrate PROVE Inv'
    BY <1>24 DEF NothingToOrchestrate
<1>25. ASSUME KeepExecuting PROVE Inv'
    BY <1>25 DEF KeepExecuting, StartedEarly, ExecutionContext, JobRecord, SnapshotFile
<1>26. ASSUME CompleteJob PROVE Inv'
    BY <1>26 DEF CompleteJob, ResetHard, ResetSoft
<1>27. ASSUME AbortPending PROVE Inv'
    BY <1>27 DEF AbortPending, AbortBegun, AbortSnapshot, NoSnapshot
<1>28. ASSUME FinalizeAbort PROVE Inv'
    BY <1>28 DEF FinalizeAbort, AbortBegun, AbortSnapshot, NoSnapshot
<1>29. ASSUME HoldPaused PROVE Inv'
    BY <1>29 DEF HoldPaused, Persisted, JobContextId, NoSnapshot
<1>30. ASSUME RestoreSnapshot PROVE Inv'
    BY <1>30 DEF RestoreSnapshot, ResetHard, ResetSoft, NoSnapshot
<1>31. ASSUME SnapshotMissing PROVE Inv'
    BY <1>31 DEF SnapshotMissing
<1>32. ASSUME Publish PROVE Inv'
    BY <1>32 DEF Publish
<1>33. ASSUME Boot PROVE Inv'
    BY <1>33 DEF Boot, SnapshotAccepted, NoSnapshot, EmptyJobIpc, FreshContext,
           ExecutionContext, JobRecord, SnapshotFile
<1>34. ASSUME UNCHANGED vars PROVE Inv'
    BY <1>34 DEF vars
<1> QED
    BY <1>1, <1>2, <1>3, <1>4, <1>5, <1>6, <1>7, <1>8, <1>9, <1>10, <1>11, <1>12, <1>13,
           <1>14, <1>15, <1>16, <1>17, <1>18, <1>19, <1>20, <1>21, <1>22, <1>23, <1>24,
           <1>25, <1>26, <1>27, <1>28, <1>29, <1>30, <1>31, <1>32, <1>33, <1>34
       DEF Next, Tick, Environment, Command, Ingress, ExecutionStep, Orchestrate

\* The type invariant and the thirteen parts of Inv hold together: hardly a part is inductive on
\* its own, because each relies on what the others say of the other records.
THEOREM InductiveInvariant == Spec => []IInv
<1>1. Init => IInv
    BY TypeInit, InvInit DEF IInv
<1>2. IInv /\ [Next]_vars => IInv'
    BY TypeStep, InvStep DEF IInv
<1> QED
    BY <1>1, <1>2, PTL DEF Spec
-----------------------------------------------------------------------------
(* What the properties of the runs need of the invariant *)

\* No assert of a tick fails, for any window, any jobs and any number of crashes.
THEOREM NoAssertionFails == Spec => []AssertionsHold
<1>1. IInv => AssertionsHold
    BY DEF IInv, Inv, Ownership, CursorMonotone, AssertionsHold
<1> QED
    BY <1>1, InductiveInvariant, PTL

\* execution_step reads a segment only of a job that is there and not freed, within its total.
THEOREM SegmentsReadInBounds == Spec => []SegmentReadInBounds
<1>1. IInv => SegmentReadInBounds
    BY DEF IInv, Inv, Submitting, JobOfThePrint, JobViewsAgree, SegmentReadInBounds
<1> QED
    BY <1>1, InductiveInvariant, PTL

\* A print is resumed at most once.
THEOREM OneResume == Spec => []ResumeOncePerStart
<1>1. IInv => ResumeOncePerStart
    BY DEF IInv, Inv, ResumeSpent, ResumeOncePerStart
<1> QED
    BY <1>1, InductiveInvariant, PTL

\* The cursor on disk is the one execution stopped at.
THEOREM ResumeContinues == Spec => []SnapshotIsTheCursor
<1>1. IInv => SnapshotIsTheCursor
    BY DEF IInv, Inv, SnapshotIsTheCursor
<1> QED
    BY <1>1, InductiveInvariant, PTL

\* A snapshot is on disk only in a pause or on the way out of one.
THEOREM SnapshotNeedsPause == Spec => []SnapshotOnlyWhilePaused
<1>1. IInv => SnapshotOnlyWhilePaused
    BY DEF IInv, Inv, SnapshotOnlyWhilePaused
<1> QED
    BY <1>1, InductiveInvariant, PTL

\* The four records of the job agree at the end of every stage.
THEOREM OneViewOfTheJob == Spec => []JobViewsAgree
<1>1. IInv => JobViewsAgree
    BY DEF IInv, Inv, JobViewsAgree
<1> QED
    BY <1>1, InductiveInvariant, PTL

\* No state but that of a print has an executor beyond the tick: a RESUME never waits for one.
THEOREM OnlyPrintsHaveAnExecutor == Spec => []OnlyPrintsAreExecuted
<1>1. IInv => OnlyPrintsAreExecuted
    BY DEF IInv, Inv
<1> QED
    BY <1>1, InductiveInvariant, PTL
-----------------------------------------------------------------------------
(* A print that runs, and one that is aborted *)

\* The flag of the context and the one of the orchestrator are set and cleared together, and
\* no reset of the context touches the former.
AbortFlagsAgree == ctx.abort_in_progress <=> abort_started

\* When the loop comes to the execution of a print with segments left, it executes: it is the
\* owner, RUNNING, and no abort is left over.
PrintIsExecutable ==
    /\ pc \in {"execute", "recheck", "submit", "poll", "orchestrate"}
    /\ system = "EXECUTING_PRINT"
    /\ ctx.cursor < job.total
    => MayStep

\* The firmware runs, and its print has been aborted since it was booted.
PrintAborted == pc # "down" /\ system \in {"ABORTING", "IDLE"}

LEMMA ExecutableInit == Init => AbortFlagsAgree /\ PrintIsExecutable
BY DEF Init, AbortFlagsAgree, PrintIsExecutable, FreshContext

LEMMA FlagsStep == IInv /\ AbortFlagsAgree /\ [Next]_vars => AbortFlagsAgree'
<1> SUFFICES ASSUME IInv, AbortFlagsAgree PROVE [Next]_vars => AbortFlagsAgree'
    OBVIOUS
<1>1. ctx \in ExecutionContext /\ abort_started \in BOOLEAN
    BY DEF IInv, TypeOK
<1> USE DEF AbortFlagsAgree
<1>2. ASSUME UNCHANGED <<ctx, abort_started>> PROVE AbortFlagsAgree'
    BY <1>2
<1>3. ASSUME Environment PROVE AbortFlagsAgree'
    <2>1. CASE Crash
        BY <2>1 DEF Crash, ProcessGone, FreshContext
    <2> QED
        BY <1>2, <1>3, <2>1
        DEF Environment, OnWorldComplete, OnMotionStatus, OnMotionResult, TimePasses, WriteJob,
            WorldLost
<1>4. ASSUME Command PROVE AbortFlagsAgree'
    <2>1. CASE ClearJob \/ Recover
        BY <1>1, <2>1 DEF ClearJob, Recover, ResetSoft, ExecutionContext
    <2> QED
        BY <1>2, <1>4, <2>1 DEF Command, NoCommand, Start, Pause, Resume, Abort
<1>5. ASSUME Activate PROVE AbortFlagsAgree'
    BY <1>1, <1>5 DEF Activate, Armed, Gated, ExecutionContext
<1>6. ASSUME ExecutionStep PROVE AbortFlagsAgree'
    <2>1. CASE Submit
        BY <1>1, <2>1 DEF Submit, ExecutionContext
    <2> QED
        BY <1>2, <1>6, <2>1 DEF ExecutionStep, StepNotCalled, StepExhausted, StepSettle, Recheck
<1>7. ASSUME AbortPending \/ FinalizeAbort PROVE AbortFlagsAgree'
    BY <1>1, <1>7 DEF AbortPending, FinalizeAbort, AbortBegun, ExecutionContext
<1>8. ASSUME KeepExecuting \/ CompleteJob \/ HoldPaused \/ RestoreSnapshot
      PROVE  AbortFlagsAgree'
    <2>1. CASE KeepExecuting
        BY <1>1, <2>1 DEF KeepExecuting, StartedEarly, ExecutionContext
    <2>2. CASE CompleteJob
        BY <1>1, <2>2 DEF CompleteJob, ResetHard, ResetSoft, ExecutionContext
    <2>3. CASE HoldPaused
        BY <1>1, <2>3 DEF HoldPaused, ExecutionContext
    <2>4. CASE RestoreSnapshot
        BY <1>1, <2>4 DEF RestoreSnapshot, ResetHard, ResetSoft, ExecutionContext
    <2> QED
        BY <1>8, <2>1, <2>2, <2>3, <2>4
<1>9. ASSUME Ingress \/ PollMotion \/ NothingToOrchestrate \/ SnapshotMissing \/ Publish \/ Boot
      PROVE  AbortFlagsAgree'
    BY <1>2, <1>9
    DEF Ingress, AcceptJob, NoJobAccepted, PollMotion, NothingToOrchestrate, SnapshotMissing,
        Publish, Boot
<1>10. ASSUME UNCHANGED vars PROVE AbortFlagsAgree'
    BY <1>2, <1>10 DEF vars
<1> QED
    BY <1>3, <1>4, <1>5, <1>6, <1>7, <1>8, <1>9, <1>10 DEF Next, Tick, Orchestrate

\* The gate and the arming make every print with segments left an executable one; the steps
\* between them and the end of the orchestrator leave it so.
LEMMA ExecutableStep ==
    IInv /\ AbortFlagsAgree /\ PrintIsExecutable /\ [Next]_vars => PrintIsExecutable'
<1> SUFFICES ASSUME IInv, AbortFlagsAgree, PrintIsExecutable
             PROVE  [Next]_vars => PrintIsExecutable'
    OBVIOUS
<1>1. ctx \in ExecutionContext /\ job \in JobRecord
    BY DEF IInv, TypeOK
<1>2. ASSUME pc' \notin {"execute", "recheck", "submit", "poll", "orchestrate"}
      PROVE  PrintIsExecutable'
    BY <1>2 DEF PrintIsExecutable
<1>3. ASSUME UNCHANGED <<system, job, ctx>>,
             pc' = pc \/ pc \in {"execute", "recheck", "submit", "poll", "orchestrate"}
      PROVE  PrintIsExecutable'
    BY <1>3 DEF PrintIsExecutable, MayStep
<1>4. ASSUME Environment PROVE PrintIsExecutable'
    <2>1. CASE Crash
        BY <1>2, <2>1 DEF Crash, ProcessGone
    <2> QED
        BY <1>3, <1>4, <2>1
        DEF Environment, OnWorldComplete, OnMotionStatus, OnMotionResult, TimePasses, WriteJob,
            WorldLost
<1>5. ASSUME Command \/ Ingress \/ Orchestrate \/ Publish \/ Boot PROVE PrintIsExecutable'
    BY <1>2, <1>5
    DEF Command, NoCommand, Start, Pause, Resume, Abort, ClearJob, Recover, Ingress, AcceptJob,
        NoJobAccepted, Orchestrate, NothingToOrchestrate, KeepExecuting, CompleteJob,
        AbortPending, FinalizeAbort, HoldPaused, RestoreSnapshot, SnapshotMissing, Publish, Boot
<1>6. ASSUME Activate PROVE PrintIsExecutable'
    <2> SUFFICES ASSUME system = "EXECUTING_PRINT", ctx'.cursor < job.total PROVE MayStep'
        BY <1>6 DEF Activate, PrintIsExecutable
    <2>1. ctx' = Armed(Gated(ctx)) /\ system' = system
        BY <1>6 DEF Activate
    <2>2. ctx'.cursor = ctx.cursor /\ ctx'.abort_in_progress = ctx.abort_in_progress
        BY <1>1, <2>1 DEF Armed, Gated, ExecutionContext
    <2>3. ~ctx.abort_in_progress
        BY DEF IInv, Inv, AbortOnlyAborting, AbortFlagsAgree
    <2>4. job.present /\ job.loaded
        BY <1>1, <2>2 DEF IInv, Inv, JobOfThePrint, InPrint, JobViewsAgree, JobRecord,
                          ExecutionContext
    <2>5. ctx'.phase = "RUNNING" /\ ctx'.owned
        <3>1. CASE ctx.phase = "IDLE"
            BY <1>1, <2>1, <2>2, <2>4, <3>1 DEF Armed, Gated, ExecutionContext
        <3>2. CASE ctx.phase = "RUNNING"
            BY <1>1, <2>1, <3>2 DEF Armed, Gated, ExecutionContext, IInv, Inv, Ownership
        <3> QED
            BY <1>1, <3>1, <3>2 DEF ExecutionContext
    <2> QED
        BY <2>1, <2>2, <2>3, <2>5 DEF MayStep
<1>7. ASSUME Submit PROVE PrintIsExecutable'
    <2>1. ctx' = [ctx EXCEPT !.cursor = @ + 1] /\ UNCHANGED <<system, job>>
        BY <1>7 DEF Submit
    <2>2. MayStep
        BY <1>7 DEF Submit, IInv, Inv, Submitting, PrintIsExecutable
    <2>3. MayStep'
        BY <1>1, <2>1, <2>2 DEF MayStep, ExecutionContext
    <2> QED
        BY <2>3 DEF PrintIsExecutable
<1>8. ASSUME StepNotCalled \/ StepExhausted \/ StepSettle \/ Recheck \/ PollMotion
      PROVE  PrintIsExecutable'
    BY <1>3, <1>8 DEF StepNotCalled, StepExhausted, StepSettle, Recheck, PollMotion
<1>9. ASSUME UNCHANGED vars PROVE PrintIsExecutable'
    BY <1>3, <1>9 DEF vars
<1> QED
    BY <1>4, <1>5, <1>6, <1>7, <1>8, <1>9 DEF Next, Tick, ExecutionStep

\* What ExecutionEnds rests on: a print that has segments left is never without its executor
\* when the loop comes to it, whether it was started, resumed or booted into, however the
\* gate, the snapshot and the aborts before left the context. Only the window can hold it.
THEOREM PrintsHaveTheirExecutor == Spec => []PrintIsExecutable
<1> DEFINE I == IInv /\ AbortFlagsAgree /\ PrintIsExecutable
<1>1. Init => I
    BY TypeInit, InvInit, ExecutableInit DEF IInv
<1>2. I /\ [Next]_vars => I'
    BY TypeStep, InvStep, FlagsStep, ExecutableStep DEF IInv
<1> QED
    BY <1>1, <1>2, PTL DEF Spec

\* finalize_abort leaves the firmware in IDLE, where no command is allowed and the
\* orchestrator has nothing to do: an aborted firmware sends nothing more, and nothing but a
\* kill of the process gets it out.
THEOREM AbortIsFinal ==
    Spec => [][PrintAborted =>
                  \/ pc' = "down"
                  \/ PrintAborted' /\ UNCHANGED <<motion.submitted, printed>>]_vars
<1> DEFINE Final == PrintAborted =>
                       \/ pc' = "down"
                       \/ PrintAborted' /\ UNCHANGED <<motion.submitted, printed>>
<1>1. IInv /\ [Next]_vars => [Final]_vars
    <2> SUFFICES ASSUME IInv, Next, PrintAborted, pc' # "down"
                 PROVE  PrintAborted' /\ UNCHANGED <<motion.submitted, printed>>
        OBVIOUS
    <2>1. pc # "down" /\ system \in {"ABORTING", "IDLE"} /\ motion \in Motion
        BY DEF PrintAborted, IInv, TypeOK
    <2>2. ASSUME UNCHANGED <<system, motion.submitted, printed>>
          PROVE  PrintAborted' /\ UNCHANGED <<motion.submitted, printed>>
        BY <2>1, <2>2 DEF PrintAborted
    <2>3. CASE Environment
        BY <2>1, <2>2, <2>3
        DEF Environment, OnWorldComplete, OnMotionStatus, OnMotionResult, TimePasses, WriteJob,
            WorldLost, Crash, ProcessGone, Motion
    <2>4. CASE Command
        <3>1. \A command \in {"START", "PAUSE", "RESUME", "CLEAR_JOB", "RECOVER"} :
                  ~CommandAllowed(system, command)
            BY <2>1 DEF CommandAllowed
        <3>2. CASE NoCommand
            BY <2>2, <3>2 DEF NoCommand
        <3>3. CASE Abort
            BY <2>1, <3>3 DEF Abort, CommandAllowed
        <3> QED
            BY <2>4, <3>1, <3>2, <3>3
            DEF Command, Start, Pause, Resume, ClearJob, Recover
    <2>5. CASE ExecutionStep
        <3>1. ~Submit /\ ~MayStep
            BY <2>1 DEF IInv, Inv, Submitting, Submit, MayStep
        <3> QED
            BY <2>2, <2>5, <3>1
            DEF ExecutionStep, StepNotCalled, StepExhausted, StepSettle, Recheck
    <2>6. CASE PollMotion
        <3>1. Polled(motion).submitted = motion.submitted
            BY <2>1 DEF Polled, PollResult, Motion
        <3> QED
            BY <2>2, <2>6, <3>1 DEF PollMotion
    <2>7. CASE AbortPending \/ NothingToOrchestrate
        BY <2>1, <2>2, <2>7 DEF AbortPending, NothingToOrchestrate, Motion
    <2>8. CASE FinalizeAbort
        BY <2>1, <2>8 DEF FinalizeAbort, PrintAborted, Motion
    <2>9. CASE KeepExecuting \/ CompleteJob \/ HoldPaused \/ RestoreSnapshot \/ SnapshotMissing
               \/ Boot
        BY <2>1, <2>9
        DEF KeepExecuting, CompleteJob, HoldPaused, RestoreSnapshot, SnapshotMissing, Boot
    <2>10. CASE Ingress \/ Activate \/ Publish
        BY <2>2, <2>10 DEF Ingress, AcceptJob, NoJobAccepted, Activate, Publish
    <2> QED
        BY <2>3, <2>4, <2>5, <2>6, <2>7, <2>8, <2>9, <2>10 DEF Next, Tick, Orchestrate
<1> QED
    BY <1>1, InductiveInvariant, PTL DEF Spec
=============================================================================
