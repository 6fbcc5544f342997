------------------------ MODULE FirmwareViewRefinement ------------------------
(***************************************************************************)
(* Firmware implements FirmwareView, for every value of the constants: what  *)
(* CommandPath composes with the other processes is the firmware itself, its *)
(* print left open. The stages "activate" to "poll" and every callback map   *)
(* to a stutter, the eight branches of the orchestrator to the five of       *)
(* FirmwareView.                                                             *)
(***************************************************************************)
EXTENDS FirmwareProofs

USE DEF ctxVars, machineVars, worldVars, boundVars, historyVars

\* The boot accepts every snapshot there is: none has another job id than the constant one.
SnapshotIdentity == snapshot_file.valid => snapshot_file.job_id = JobContextId

\* The identity a snapshot is written with is the one it is compared with.
LEMMA IdentityStep ==
    SnapshotIdentity /\ [Next]_vars => SnapshotIdentity'
<1> SUFFICES ASSUME SnapshotIdentity, [Next]_vars PROVE SnapshotIdentity'
    OBVIOUS
<1>1. snapshot_file' \in {snapshot_file, NoSnapshot, Persisted}
    BY DEF Next, Tick, Environment, Command, Ingress, ExecutionStep, Orchestrate, vars,
           OnWorldComplete, OnMotionStatus, OnMotionResult, TimePasses, WriteJob, Crash,
           WorldLost, NoCommand, Start, Pause, Resume, Abort, ClearJob, Recover, AcceptJob,
           NoJobAccepted, Activate, StepNotCalled, StepExhausted, StepSettle, Recheck, Submit,
           PollMotion, NothingToOrchestrate, KeepExecuting, CompleteJob, AbortPending,
           FinalizeAbort, AbortSnapshot, HoldPaused, RestoreSnapshot, SnapshotMissing,
           Publish, Boot
<1> QED
    BY <1>1 DEF SnapshotIdentity, NoSnapshot, Persisted

\* A process that has not booted yet looks like one to its clients.
LEMMA ViewInit == Init => View!Init
BY DEF Init, View!Init, ViewStage, NoJob, View!NoJob, View!Unused, EmptyJobIpc,
       View!EmptyJobIpc, NoSnapshot, NoActions, View!NoActions

\* The abort leaves no snapshot behind, whether this is its first tick or a later one.
LEMMA AbortForgets ==
    ASSUME TypeOK, Inv, pc = "orchestrate", system = "ABORTING"
    PROVE  AbortSnapshot.valid = FALSE
<1>1. snapshot_file.valid \in BOOLEAN
    BY CoreTypes DEF SnapshotFile
<1>2. CASE abort_started
    BY <1>1, <1>2 DEF Inv, SnapshotOnlyWhilePaused, AbortSnapshot
<1>3. CASE ~abort_started
    BY <1>3 DEF AbortSnapshot, NoSnapshot
<1> QED
    BY <1>2, <1>3

\* Every step of the firmware is one its clients are told of, or none to them.
LEMMA ViewStep ==
    TypeOK /\ Inv /\ SnapshotIdentity /\ [Next]_vars => [View!Next]_View!viewVars
<1> SUFFICES ASSUME TypeOK, Inv, SnapshotIdentity
             PROVE  [Next]_vars => [View!Next]_View!viewVars
    OBVIOUS
<1> DEFINE Stutter == UNCHANGED <<ViewStage, system, job.present, job.loaded, job.layer,
                                  resume, operator_actions, snapshot_file.valid, job_ipc>>
<1> USE CoreTypes
<1> USE DEF ViewStage, JobRecord, SnapshotFile
<1>1. ASSUME OnWorldComplete PROVE Stutter
    BY <1>1 DEF OnWorldComplete
<1>2. ASSUME OnMotionStatus PROVE Stutter
    BY <1>2 DEF OnMotionStatus
<1>3. ASSUME OnMotionResult PROVE Stutter
    BY <1>3 DEF OnMotionResult
<1>4. ASSUME TimePasses PROVE Stutter
    BY <1>4 DEF TimePasses
<1>5. ASSUME WriteJob PROVE View!Next
    BY <1>5 DEF WriteJob, View!Next, View!WriteJob
<1>6. ASSUME Crash PROVE View!Crash
    BY <1>6 DEF Crash, ProcessGone, View!Crash, NoJob, View!NoJob, View!Unused, NoActions,
           View!NoActions
<1>7. ASSUME WorldLost PROVE Stutter
    BY <1>7 DEF WorldLost
<1>8. ASSUME NoCommand PROVE View!NoCommand
    BY <1>8 DEF NoCommand, View!NoCommand
<1>9. ASSUME Start PROVE View!Start
    <2>1. job'.present = job.present /\ job'.loaded = job.loaded /\ job'.layer = 1
        BY <1>9 DEF Start
    <2>2. [present |-> job'.present, loaded |-> job'.loaded, layer |-> job'.layer]
          = [[present |-> job.present, loaded |-> job.loaded, layer |-> job.layer]
             EXCEPT !.layer = 1]
        BY <2>1
    <2> QED
        BY <1>9, <2>2 DEF Start, CanStartJob, View!Start, View!Unused, CommandAllowed,
               View!CommandAllowed
<1>10. ASSUME Pause PROVE View!Pause
    BY <1>10 DEF Pause, View!Pause, CommandAllowed, View!CommandAllowed
<1>11. ASSUME Resume PROVE View!Resume
    BY <1>11 DEF Resume, CanResume, View!Resume, View!Used, CommandAllowed,
           View!CommandAllowed
<1>12. ASSUME Abort PROVE View!Abort
    BY <1>12 DEF Abort, View!Abort, CommandAllowed, View!CommandAllowed
<1>13. ASSUME ClearJob PROVE View!ClearJob
    BY <1>13 DEF ClearJob, JobCleared, View!ClearJob, View!NoJob, View!Used, NoSnapshot,
           CommandAllowed, View!CommandAllowed
<1>14. ASSUME Recover PROVE View!Recover
    BY <1>14 DEF Recover, View!Recover, View!Used, NoSnapshot, CommandAllowed,
           View!CommandAllowed
<1>15. ASSUME AcceptJob PROVE View!AcceptJob
    BY <1>15 DEF AcceptJob, CanSubmitJob, View!AcceptJob, View!CanSubmitJob, Inv,
           JobViewsAgree
<1>16. ASSUME NoJobAccepted PROVE View!NoJobAccepted
    BY <1>16 DEF NoJobAccepted, CanSubmitJob, View!NoJobAccepted, View!CanSubmitJob, Inv,
           JobViewsAgree
<1>17. ASSUME Activate PROVE Stutter
    BY <1>17 DEF Activate
<1>18. ASSUME StepNotCalled PROVE Stutter
    BY <1>18 DEF StepNotCalled
<1>19. ASSUME StepExhausted PROVE Stutter
    BY <1>19 DEF StepExhausted
<1>20. ASSUME StepSettle PROVE Stutter
    BY <1>20 DEF StepSettle
<1>21. ASSUME Recheck PROVE Stutter
    BY <1>21 DEF Recheck
<1>22. ASSUME Submit PROVE Stutter
    BY <1>22 DEF Submit
<1>23. ASSUME PollMotion PROVE Stutter
    BY <1>23 DEF PollMotion
<1>24. ASSUME NothingToOrchestrate PROVE View!GoOn
    BY <1>24 DEF NothingToOrchestrate, View!GoOn, View!OrchestratedVars
<1>25. ASSUME KeepExecuting PROVE View!GoOn
    BY <1>25 DEF KeepExecuting, View!GoOn, View!OrchestratedVars
<1>26. ASSUME CompleteJob PROVE View!Complete
    <2>1. job'.present = FALSE /\ job'.loaded = job.loaded /\ job'.layer = 0
        BY <1>26 DEF CompleteJob
    <2> QED
        BY <1>26, <2>1 DEF CompleteJob, View!Complete, View!Unused, View!OrchestratedVars
<1>27. ASSUME AbortPending PROVE View!GoOn
    <2>1. snapshot_file'.valid = FALSE
        BY <1>27, AbortForgets DEF AbortPending
    <2> QED
        BY <1>27, <2>1 DEF AbortPending, View!GoOn, View!OrchestratedVars
<1>28. ASSUME FinalizeAbort PROVE View!FinalizeAbort
    <2>1. snapshot_file'.valid = FALSE
        BY <1>28, AbortForgets DEF FinalizeAbort
    <2>2. job'.present = job.present /\ job'.loaded = job.loaded /\ job'.layer = job.layer
        BY <1>28 DEF FinalizeAbort
    <2> QED
        BY <1>28, <2>1, <2>2 DEF FinalizeAbort, View!FinalizeAbort, View!Unused,
               View!OrchestratedVars
<1>29. ASSUME HoldPaused PROVE View!HoldPaused
    <2>1. snapshot_file'.valid \in BOOLEAN
        <3>1. snapshot_file.valid \in BOOLEAN
            BY CoreTypes
        <3>2. snapshot_file' \in {snapshot_file, NoSnapshot, Persisted}
            BY <1>29 DEF HoldPaused
        <3>3. NoSnapshot.valid = FALSE /\ Persisted.valid = TRUE
            BY DEF NoSnapshot, Persisted
        <3> QED
            BY ONLY <3>1, <3>2, <3>3
    <2> QED
        BY ONLY <1>29, <2>1 DEF HoldPaused, View!HoldPaused, View!OrchestratedVars,
               ViewStage, machineVars
<1>30. ASSUME RestoreSnapshot PROVE View!FinishResume
    BY <1>30 DEF RestoreSnapshot, View!FinishResume, View!Used, View!OrchestratedVars,
           NoSnapshot
<1>31. ASSUME SnapshotMissing PROVE View!FinishResume
    BY <1>31 DEF SnapshotMissing, View!FinishResume, View!Used, View!OrchestratedVars
<1>32. ASSUME Publish PROVE View!Publish
    BY <1>32 DEF Publish, View!Publish, ActionsIn, View!ActionsIn, NoActions, View!NoActions
<1>33. ASSUME Boot PROVE View!Boot
    BY <1>33 DEF Boot, SnapshotAccepted, SnapshotIdentity, View!Boot, EmptyJobIpc,
           View!EmptyJobIpc, NoSnapshot
<1>34. ASSUME UNCHANGED vars PROVE Stutter
    BY <1>34 DEF vars
<1>35. Stutter => UNCHANGED View!viewVars
    BY DEF View!viewVars
<1> HIDE DEF Stutter
<1> QED
    BY <1>1, <1>2, <1>3, <1>4, <1>5, <1>6, <1>7, <1>8, <1>9, <1>10, <1>11, <1>12, <1>13,
           <1>14, <1>15, <1>16, <1>17, <1>18, <1>19, <1>20, <1>21, <1>22, <1>23, <1>24,
           <1>25, <1>26, <1>27, <1>28, <1>29, <1>30, <1>31, <1>32, <1>33, <1>34, <1>35
       DEF Next, Tick, Environment, Command, Ingress, ExecutionStep, Orchestrate, View!Next,
           View!Orchestrate

\* What the other processes see of the firmware, in every behaviour of its loop, callbacks and
\* crashes, is a behaviour of FirmwareView: what holds of every such behaviour, alone or
\* composed with them, holds of the firmware.
THEOREM ViewRefinement == Spec => ImplementsView
<1>1. Init => View!Init /\ SnapshotIdentity
    BY ViewInit DEF Init, SnapshotIdentity, NoSnapshot
<1>2. SnapshotIdentity /\ [Next]_vars => SnapshotIdentity'
    BY IdentityStep
<1>3. IInv /\ SnapshotIdentity /\ [Next]_vars => [View!Next]_View!viewVars
    BY ViewStep DEF IInv
<1> QED
    BY <1>1, <1>2, <1>3, InductiveInvariant, PTL DEF Spec, ImplementsView, View!Spec
=============================================================================
