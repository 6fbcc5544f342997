-------------------------- MODULE FirmwareRefinement --------------------------
(***************************************************************************)
(* Firmware implements PrintLifecycle, for every value of the constants.    *)
(* Most stages of the loop and every callback map to a stutter; a command   *)
(* maps to the transition of the print it asks for, a submission to Send.   *)
(***************************************************************************)
EXTENDS FirmwareProofs

USE DEF ctxVars, machineVars, worldVars, boundVars, historyVars

\* A process that has not booted yet is a print that is off.
LEMMA LifecycleInit == Init => Lifecycle!Init
BY DEF Init, Lifecycle!Init, PrintMode

\* A submission sends a segment of the job that is beyond all that were sent before.
LEMMA SubmitSends ==
    ASSUME TypeOK, Inv, Submit
    PROVE  Lifecycle!Send \/ UNCHANGED <<PrintMode, resumes, printed>>
<1>1. /\ pc = "submit" /\ pc' = "poll" /\ system = "EXECUTING_PRINT" /\ system' = system
      /\ resumes' = resumes /\ ctx.cursor < job.total
    BY DEF Submit, Inv, Submitting
<1>2. PrintMode = "printing" /\ PrintMode' = "printing"
    BY <1>1 DEF PrintMode
<1>3. \A i \in DOMAIN printed : printed[i] < ctx.cursor
    BY <1>1 DEF Inv, PrintedBehindCursor, InPrint
<1>4. ctx.cursor \in JobSegments
    <2>1. ctx.cursor \in Nat /\ job.total \in Nat
        BY CoreTypes DEF ExecutionContext, JobRecord
    <2>2. job.total \in JobSizes
        BY <1>1, <2>1 DEF Inv, TotalsAreSizes
    <2>3. ctx.cursor \in 0..(job.total - 1)
        BY <1>1, <2>1
    <2> QED
        BY <2>2, <2>3 DEF JobSegments
<1>5. CASE printed' = Append(printed, ctx.cursor)
    BY <1>1, <1>2, <1>3, <1>4, <1>5 DEF Lifecycle!Send
<1>6. CASE printed' = printed
    BY <1>1, <1>2, <1>6
<1> QED
    BY <1>5, <1>6 DEF Submit

\* Every step of the firmware is a step of the life of a print, or leaves it as it is.
LEMMA LifecycleStep == TypeOK /\ Inv /\ [Next]_vars => [Lifecycle!Next]_Lifecycle!vars
<1> SUFFICES ASSUME TypeOK, Inv PROVE [Next]_vars => [Lifecycle!Next]_Lifecycle!vars
    OBVIOUS
<1> DEFINE Stutter == UNCHANGED <<PrintMode, resumes, printed>>
<1> USE CoreTypes
<1> USE DEF PrintMode
<1>1. ASSUME OnWorldComplete PROVE Stutter
    BY <1>1 DEF OnWorldComplete
<1>2. ASSUME OnMotionStatus PROVE Stutter
    BY <1>2 DEF OnMotionStatus
<1>3. ASSUME OnMotionResult PROVE Stutter
    BY <1>3 DEF OnMotionResult
<1>4. ASSUME TimePasses PROVE Stutter
    BY <1>4 DEF TimePasses
<1>5. ASSUME WriteJob PROVE Stutter
    BY <1>5 DEF WriteJob
<1>6. ASSUME Crash PROVE Lifecycle!PowerOff
    BY <1>6 DEF Crash, ProcessGone, Lifecycle!PowerOff
<1>7. ASSUME WorldLost PROVE Stutter
    BY <1>7 DEF WorldLost
<1>8. ASSUME NoCommand PROVE Stutter
    BY <1>8 DEF NoCommand
<1>9. ASSUME Start PROVE Lifecycle!Begin
    BY <1>9 DEF Start, CommandAllowed, CanStartJob, Lifecycle!Begin
<1>10. ASSUME Pause PROVE Lifecycle!Hold
    BY <1>10 DEF Pause, CommandAllowed, Lifecycle!Hold
<1>11. ASSUME Resume PROVE Lifecycle!AskResume
    BY <1>11 DEF Resume, CommandAllowed, CanResume, Lifecycle!AskResume, Inv, ResumeSpent,
           InPrint
<1>12. ASSUME Abort PROVE Lifecycle!Stop
    BY <1>12 DEF Abort, CommandAllowed, Lifecycle!Stop
<1>13. ASSUME ClearJob PROVE Lifecycle!Clear \/ Stutter
    BY <1>13 DEF ClearJob, CommandAllowed, Lifecycle!Clear
<1>14. ASSUME Recover PROVE Stutter
    BY <1>14 DEF Recover, CommandAllowed
<1>15. ASSUME AcceptJob PROVE Stutter
    BY <1>15 DEF AcceptJob
<1>16. ASSUME NoJobAccepted PROVE Stutter
    BY <1>16 DEF NoJobAccepted
<1>17. ASSUME Activate PROVE Stutter
    BY <1>17 DEF Activate
<1>18. ASSUME StepNotCalled PROVE Stutter
    BY <1>18 DEF StepNotCalled
<1>19. ASSUME StepExhausted PROVE Stutter
    BY <1>19 DEF StepExhausted
<1>20. ASSUME StepSettle PROVE Stutter
    BY <1>20 DEF StepSettle
<1>21. ASSUME Recheck PROVE Stutter
    BY <1>21 DEF Recheck
<1>22. ASSUME Submit PROVE Lifecycle!Send \/ Stutter
    BY <1>22, SubmitSends
<1>23. ASSUME PollMotion PROVE Stutter
    BY <1>23 DEF PollMotion
<1>24. ASSUME NothingToOrchestrate PROVE Stutter
    BY <1>24 DEF NothingToOrchestrate
<1>25. ASSUME KeepExecuting PROVE Stutter
    BY <1>25 DEF KeepExecuting
<1>26. ASSUME CompleteJob PROVE Lifecycle!Finish
    BY <1>26 DEF CompleteJob, Lifecycle!Finish
<1>27. ASSUME AbortPending PROVE Stutter
    BY <1>27 DEF AbortPending
<1>28. ASSUME FinalizeAbort PROVE Stutter
    BY <1>28 DEF FinalizeAbort
<1>29. ASSUME HoldPaused PROVE Stutter
    BY <1>29 DEF HoldPaused
<1>30. ASSUME RestoreSnapshot PROVE Lifecycle!Continue
    BY <1>30 DEF RestoreSnapshot, Lifecycle!Continue
<1>31. ASSUME SnapshotMissing PROVE Lifecycle!Stop
    BY <1>31 DEF SnapshotMissing, Lifecycle!Stop
<1>32. ASSUME Publish PROVE Stutter
    BY <1>32 DEF Publish
<1>33. ASSUME Boot PROVE Lifecycle!PowerOn
    BY <1>33 DEF Boot, SnapshotAccepted, Lifecycle!PowerOn, Inv, DownIsFresh
<1>34. ASSUME UNCHANGED vars PROVE Stutter
    BY <1>34 DEF vars
<1>35. Stutter => UNCHANGED Lifecycle!vars
    BY DEF Lifecycle!vars
<1> HIDE DEF Stutter
<1> QED
    BY <1>1, <1>2, <1>3, <1>4, <1>5, <1>6, <1>7, <1>8, <1>9, <1>10, <1>11, <1>12, <1>13,
           <1>14, <1>15, <1>16, <1>17, <1>18, <1>19, <1>20, <1>21, <1>22, <1>23, <1>24,
           <1>25, <1>26, <1>27, <1>28, <1>29, <1>30, <1>31, <1>32, <1>33, <1>34, <1>35
       DEF Next, Tick, Environment, Command, Ingress, ExecutionStep, Orchestrate, Lifecycle!Next

\* Every behaviour of the firmware is a life of prints: segments leave only while printing
\* and in increasing order, a print is resumed at most once, and a print that was aborted or
\* that faulted is never continued.
THEOREM Refinement == Spec => ImplementsLifecycle
<1>1. Init => Lifecycle!Init
    BY LifecycleInit
<1>2. IInv /\ [Next]_vars => [Lifecycle!Next]_Lifecycle!vars
    BY LifecycleStep DEF IInv
<1> QED
    BY <1>1, <1>2, InductiveInvariant, PTL DEF Spec, ImplementsLifecycle, Lifecycle!Spec
-----------------------------------------------------------------------------
(* What a print owes to the refinement *)

SentInOrder == \A i, j \in DOMAIN printed : i < j => printed[i] < printed[j]

\* Each segment that PrintLifecycle sends is beyond all before it.
LEMMA SendKeepsOrder ==
    ASSUME printed \in Seq(Nat), SentInOrder, [Lifecycle!Next]_Lifecycle!vars
    PROVE  SentInOrder'
<1>1. CASE printed' = printed \/ printed' = <<>>
    BY <1>1 DEF SentInOrder
<1>2. CASE Lifecycle!Send
    <2>1. PICK n \in JobSegments : /\ \A i \in DOMAIN printed : printed[i] < n
                                   /\ printed' = Append(printed, n)
        BY <1>2 DEF Lifecycle!Send
    <2>2. /\ DOMAIN printed = 1..Len(printed) /\ DOMAIN printed' = 1..(Len(printed) + 1)
          /\ printed'[Len(printed) + 1] = n
          /\ \A i \in 1..Len(printed) : printed'[i] = printed[i]
        BY <2>1
    <2>3. ASSUME NEW i \in DOMAIN printed', NEW j \in DOMAIN printed', i < j
          PROVE  printed'[i] < printed'[j]
        <3>1. Len(printed) \in Nat
            BY LenProperties
        <3>2. i \in DOMAIN printed /\ (j \in DOMAIN printed \/ j = Len(printed) + 1)
            BY <2>2, <2>3, <3>1
        <3> QED
            BY <2>1, <2>2, <2>3, <3>2 DEF SentInOrder
    <2> QED
        BY <2>3 DEF SentInOrder
<1> QED
    BY <1>1, <1>2
    DEF Lifecycle!Next, Lifecycle!vars, Lifecycle!PowerOn, Lifecycle!PowerOff, Lifecycle!Begin,
        Lifecycle!Hold, Lifecycle!AskResume, Lifecycle!Continue, Lifecycle!Finish,
        Lifecycle!Stop, Lifecycle!Clear

\* No segment is sent twice in a print, nor after a later one, whatever is paused, resumed,
\* killed or lost, or fails to be written: execution_step never goes back.
THEOREM SegmentsSentOnce == Spec => []SentInOrder
<1>1. Init => SentInOrder
    BY DEF Init, SentInOrder
<1>2. TypeOK /\ SentInOrder /\ [Lifecycle!Next]_Lifecycle!vars => SentInOrder'
    BY SendKeepsOrder DEF TypeOK
<1> QED
    BY <1>1, <1>2, TypeCorrect, Refinement, PTL DEF Spec, ImplementsLifecycle, Lifecycle!Spec

\* Nothing is sent but by a print: not in a pause, not while it is resumed, not after an abort
\* or a fault was taken, not even later in the tick that took it.
THEOREM OnlyPrintsSend ==
    Spec => [][printed' # printed /\ printed' # <<>> => PrintMode = "printing"]_vars
<1>1. [Lifecycle!Next]_Lifecycle!vars =>
          [printed' # printed /\ printed' # <<>> => PrintMode = "printing"]_vars
    BY DEF Lifecycle!Next, Lifecycle!vars, Lifecycle!PowerOn, Lifecycle!PowerOff,
           Lifecycle!Begin, Lifecycle!Send, Lifecycle!Hold, Lifecycle!AskResume,
           Lifecycle!Continue, Lifecycle!Finish, Lifecycle!Stop, Lifecycle!Clear
<1> QED
    BY <1>1, Refinement, PTL DEF ImplementsLifecycle, Lifecycle!Spec
-----------------------------------------------------------------------------
(* The contract with the mobile stack *)

LEMMA ContractStep == TypeOK /\ [Next]_vars => [Contract!Next]_(Contract!vars)
<1> SUFFICES ASSUME TypeOK PROVE [Next]_vars => [Contract!Next]_(Contract!vars)
    OBVIOUS
<1> DEFINE Stutter ==
        /\ (pc' = "down") <=> (pc = "down")
        /\ motion'.submitted = motion.submitted /\ motion'.completed = motion.completed
        /\ world' = world
<1>1. motion \in Motion
    BY DEF TypeOK
<1>2. Stutter => UNCHANGED Contract!vars
    BY DEF Contract!vars
<1>3. ASSUME OnWorldComplete PROVE Contract!Complete
    BY <1>1, <1>3 DEF OnWorldComplete, Motion, Contract!Complete
<1>4. ASSUME OnMotionStatus \/ OnMotionResult \/ TimePasses PROVE Stutter
    BY <1>1, <1>4 DEF OnMotionStatus, OnMotionResult, TimePasses, Motion
<1>5. ASSUME Crash PROVE Contract!Crash
    BY <1>5 DEF Crash, ProcessGone, FreshMotion, Contract!Crash
<1>6. ASSUME WorldLost PROVE Contract!Lost
    BY <1>6 DEF WorldLost, Contract!Lost
<1>7. ASSUME Boot PROVE Contract!Boot
    BY <1>7 DEF Boot, Contract!Boot
<1>8. ASSUME Command PROVE Stutter
    BY <1>1, <1>8
    DEF Command, NoCommand, Start, Pause, Resume, Abort, ClearJob, Recover, Motion
<1>9. ASSUME Ingress PROVE Stutter
    BY <1>9 DEF Ingress, AcceptJob, NoJobAccepted
<1>10. Polled(motion).submitted = motion.submitted /\ Polled(motion).completed = motion.completed
    BY <1>1 DEF Polled, PollResult, Motion
<1>11. ASSUME Submit PROVE Contract!Submit \/ Stutter
    BY <1>1, <1>11 DEF Submit, Motion, Contract!Submit, Contract!NextSeq, NextSeq
<1>12. ASSUME ExecutionStep \/ PollMotion, ~Submit PROVE Stutter
    BY <1>10, <1>12
    DEF ExecutionStep, PollMotion, StepNotCalled, StepExhausted, StepSettle, Recheck
<1>13. ASSUME Orchestrate PROVE Stutter
    BY <1>1, <1>13
    DEF Orchestrate, NothingToOrchestrate, KeepExecuting, CompleteJob, AbortPending,
        FinalizeAbort, HoldPaused, RestoreSnapshot, SnapshotMissing, Motion
<1>14. ASSUME Activate \/ Publish \/ WriteJob \/ UNCHANGED vars PROVE Stutter
    BY <1>14 DEF Activate, Publish, WriteJob, vars
<1> HIDE DEF Stutter
<1> QED
    BY <1>2, <1>3, <1>4, <1>5, <1>6, <1>7, <1>8, <1>9, <1>11, <1>12, <1>13, <1>14
    DEF Next, Tick, Environment, Contract!Next

\* For every window, counter width and number of kills, the firmware keeps the contract of
\* WorldQueue, which the mobile stack implements from the other side.
THEOREM FirmwareKeepsContract == Spec => KeepsWorldContract
<1>1. Init => Contract!Init
    BY DEF Init, FreshMotion, Contract!Init
<1> QED
    BY <1>1, ContractStep, InductiveInvariant, PTL
    DEF Spec, KeepsWorldContract, Contract!Spec, IInv
=============================================================================
