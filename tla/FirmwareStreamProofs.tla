------------------------- MODULE FirmwareStreamProofs -------------------------
(***************************************************************************)
(* Theorems about a firmware that is not killed and whose world loses       *)
(* nothing and reports no queue, which is what the adapter of the repository *)
(* reports: the window, and, if the disk works, that no segment is left out. *)
(***************************************************************************)
EXTENDS FirmwareProofs

USE DEF ctxVars, machineVars, worldVars, boundVars, historyVars

Steady ==
    /\ MaxCrashes = 0
    /\ ~WorldMayFail
    /\ \A r \in StatusReports : r.capacity = 0
    /\ StreamWindow < SeqModulus

Undisturbed == Steady /\ ~PersistMayFail

\* The k-th sequence number after n.
After(n, k) == IF n + k < SeqModulus THEN n + k ELSE n + k - SeqModulus

\* The targets of the world carry the numbers that follow the last completion, up to the last
\* submission.
Numbered ==
    /\ Len(world) <= StreamWindow
    /\ \A i \in 1..Len(world) : world[i] = After(motion.completed, i)
    /\ motion.submitted = After(motion.completed, Len(world))
    /\ pc = "down" => world = <<>>

\* What execution_step saw last it still sees when it submits, and what main stored as
\* motion_idle the orchestrator still finds: a callback only makes room.
RoomIsKept ==
    /\ motion.capacity = 0
    /\ pc = "submit" => Inflight(motion) < StreamWindow
    /\ pc = "orchestrate" => ~motion_idle \/ Inflight(motion) < StreamWindow

\* The firmware has not been started, or its snapshot in memory is the one on disk, so that a
\* pause that was seen by the orchestrator can be resumed, and nothing faults.
Resumable ==
    /\ pc = "down" => ~snapshot_file.valid /\ ctx.cursor = 0
    /\ pause_snapshot = snapshot_file.valid
    /\ system = "PAUSED" /\ pc \in {"publish", "command"} => snapshot_file.valid
    /\ system = "RESUMING" => snapshot_file.valid
    /\ system \notin {"FAULT", "RECOVERING"}

\* The first n segments, each once and in order.
Prefix(sent, n) == Len(sent) = n /\ \A i \in 1..n : sent[i] = i - 1

\* What was sent of a print is the segments before the cursor, each once and in order.
SentInFull ==
    /\ system = "READY" => ctx.cursor = 0
    /\ InPrint => /\ job.present
                  /\ ctx.cursor <= job.total
                  /\ Prefix(printed, ctx.cursor)

Stream == Numbered /\ RoomIsKept
Whole == Resumable /\ SentInFull
StreamInv == Stream /\ Whole
-----------------------------------------------------------------------------
(* The window *)

LEMMA StreamTypes ==
    ASSUME TypeOK
    PROVE  /\ motion \in Motion /\ world \in Seq(0..SeqModulus-1)
           /\ motion.submitted \in 0..SeqModulus-1 /\ motion.completed \in 0..SeqModulus-1
           /\ crashes \in 0..MaxCrashes
           /\ SeqModulus \in Nat \ {0} /\ StreamWindow \in Nat \ {0}
BY StreamWindowAssumption, SeqModulusAssumption DEF TypeOK, Motion

\* The difference of the counters is the number of targets between them.
LEMMA InflightIsDistance ==
    ASSUME NEW m, NEW n \in Nat \ {0}, n = SeqModulus, NEW k \in 0..(n-1),
           m.completed \in 0..(n-1), m.submitted = After(m.completed, k)
    PROVE  Inflight(m) = k
BY DEF After, Inflight

LEMMA InflightIsLength ==
    ASSUME TypeOK, Steady, Numbered
    PROVE  Inflight(motion) = Len(world)
<1>1. Len(world) \in Nat /\ Len(world) < SeqModulus
    BY StreamTypes, LenProperties DEF Numbered, Steady
<1> QED
    BY <1>1, StreamTypes, InflightIsDistance DEF Numbered

LEMMA AfterNext ==
    ASSUME NEW m \in Nat \ {0}, m = SeqModulus, NEW n \in 0..(m-1), NEW k \in 0..(m-1)
    PROVE  /\ NextSeq(After(n, k)) = After(n, k + 1)
           /\ k + 1 < m => After(After(n, 1), k) = After(n, k + 1)
           /\ k > 0 => After(After(n, 1), k - 1) = After(n, k)
BY DEF NextSeq, After

\* A step that leaves the counters and the capacity alone.
LEMMA SameCounters ==
    ASSUME TypeOK, Steady, Stream, world' = world,
           motion'.submitted = motion.submitted, motion'.completed = motion.completed,
           motion'.capacity = motion.capacity, pc' = "submit" => pc = "submit",
           pc' = "down" => pc = "down",
           pc' = "orchestrate" => pc = "orchestrate" /\ motion_idle' = motion_idle
    PROVE  Stream'
BY DEF Stream, Numbered, RoomIsKept, Inflight

LEMMA PolledCounters ==
    ASSUME NEW m \in Motion
    PROVE  /\ Polled(m).submitted = m.submitted /\ Polled(m).completed = m.completed
           /\ Polled(m).capacity = m.capacity
BY DEF Polled, PollResult, Motion

LEMMA CompleteStream ==
    ASSUME TypeOK, Steady, Stream, OnWorldComplete
    PROVE  Stream'
<1> USE StreamTypes
<1>1. world # <<>> /\ pc # "down" /\ pc' = pc /\ world' = Tail(world)
    BY DEF OnWorldComplete, Stream, Numbered
<1>2. /\ motion'.completed = Head(world) /\ motion'.submitted = motion.submitted
      /\ motion'.capacity = motion.capacity
    BY <1>1 DEF OnWorldComplete, Motion
<1>3. /\ Len(world) \in Nat \ {0} /\ Head(world) = world[1]
      /\ Len(world') = Len(world) - 1
      /\ \A i \in 1..Len(world') : world'[i] = world[i + 1]
    BY <1>1, EmptySeq, LenProperties, HeadTailProperties
<1>4. Len(world) <= StreamWindow /\ Len(world) < SeqModulus
    BY <1>3 DEF Stream, Numbered, Steady
<1>5. motion'.completed = After(motion.completed, 1)
    BY <1>2, <1>3 DEF Stream, Numbered
<1>6. \A i \in 1..Len(world') : world'[i] = After(motion'.completed, i)
    <2> TAKE i \in 1..Len(world')
    <2>1. i + 1 \in 1..Len(world) /\ i \in 0..(SeqModulus-1) /\ i + 1 < SeqModulus
        <3>1. /\ Len(world) \in Nat \ {0} /\ Len(world') = Len(world) - 1
              /\ Len(world) < SeqModulus /\ SeqModulus \in Nat
            BY <1>3, <1>4, Zenon
        <3> HIDE StreamTypes
        <3> QED
            BY <3>1
    <2>2. world'[i] = After(motion.completed, i + 1)
        BY <1>3, <2>1 DEF Stream, Numbered
    <2>3. After(After(motion.completed, 1), i) = After(motion.completed, i + 1)
        BY <2>1, AfterNext
    <2> QED
        BY <2>2, <2>3, <1>5
<1>7. motion'.submitted = After(motion'.completed, Len(world'))
    <2>1. After(After(motion.completed, 1), Len(world) - 1) = After(motion.completed, Len(world))
        <3>1. Len(world) \in 0..(SeqModulus-1) /\ Len(world) > 0
            BY <1>3, <1>4
        <3> QED
            BY <3>1, AfterNext
    <2>2. motion.submitted = After(motion.completed, Len(world))
        BY DEF Stream, Numbered
    <2> QED
        BY <1>2, <1>3, <1>5, <2>1, <2>2
<1>8. Numbered'
    BY <1>1, <1>3, <1>4, <1>6, <1>7 DEF Numbered
<1>9. /\ motion'.completed \in 0..(SeqModulus-1)
      /\ Len(world') \in 0..(SeqModulus-1)
    <2>1. motion'.completed \in 0..(SeqModulus-1)
        BY <1>2, <1>3
    <2>2. Len(world') \in 0..(SeqModulus-1)
        BY <1>3, <1>4
    <2> QED
        BY <2>1, <2>2
<1>10. Inflight(motion') = Len(world')
    BY <1>7, <1>9, InflightIsDistance
<1> QED
    BY <1>1, <1>2, <1>3, <1>4, <1>8, <1>10 DEF Stream, RoomIsKept

LEMMA SubmitStream ==
    ASSUME TypeOK, Steady, Stream, Submit
    PROVE  Stream'
<1> USE StreamTypes
<1>1. Inflight(motion) = Len(world) /\ Len(world) < StreamWindow /\ Len(world) \in Nat
    BY InflightIsLength, LenProperties DEF Stream, RoomIsKept, Submit
<1>2. Ready(motion)
    BY <1>1 DEF Ready, Stream, RoomIsKept
<1>3. /\ world' = Append(world, NextSeq(motion.submitted)) /\ pc' = "poll"
      /\ motion' = [motion EXCEPT !.submitted = NextSeq(@)]
    BY <1>2 DEF Submit
<1>4. /\ motion'.completed = motion.completed /\ motion'.submitted = NextSeq(motion.submitted)
      /\ motion'.capacity = motion.capacity
    BY <1>3 DEF Motion
<1>5. NextSeq(motion.submitted) = After(motion.completed, Len(world) + 1)
    <2>1. Len(world) < SeqModulus
        BY <1>1 DEF Steady
    <2> QED
        BY <1>1, <2>1, AfterNext DEF Stream, Numbered
<1>6. /\ Len(world') = Len(world) + 1
      /\ \A i \in 1..Len(world) : world'[i] = world[i]
      /\ world'[Len(world) + 1] = NextSeq(motion.submitted)
    <2>1. NextSeq(motion.submitted) \in 0..SeqModulus-1
        BY NextSeqType
    <2> QED
        BY <1>3, <2>1, AppendProperties
<1>7. \A i \in 1..Len(world') : world'[i] = After(motion'.completed, i)
    <2> TAKE i \in 1..Len(world')
    <2>1. CASE i \in 1..Len(world)
        BY <2>1, <1>4, <1>6 DEF Stream, Numbered
    <2>2. CASE i = Len(world) + 1
        BY <2>2, <1>4, <1>5, <1>6
    <2> QED
        BY <2>1, <2>2, <1>1, <1>6
<1>8. Numbered'
    BY <1>1, <1>3, <1>4, <1>5, <1>6, <1>7 DEF Numbered
<1> QED
    BY <1>3, <1>4, <1>8 DEF Stream, RoomIsKept

LEMMA StreamStep == TypeOK /\ Steady /\ Stream /\ [Next]_vars => Stream'
<1> SUFFICES ASSUME TypeOK, Steady, Stream, [Next]_vars PROVE Stream'
    OBVIOUS
<1> USE StreamTypes
<1>1. CASE OnWorldComplete
    BY <1>1, CompleteStream
<1>2. CASE Submit
    BY <1>2, SubmitStream
<1>3. CASE Crash
    BY <1>3 DEF Crash, Steady
<1>4. CASE WorldLost
    BY <1>4 DEF WorldLost, Steady
<1>5. CASE OnMotionStatus
    <2>1. /\ motion'.submitted = motion.submitted /\ motion'.completed = motion.completed
          /\ motion'.capacity = motion.capacity
        BY <1>5 DEF OnMotionStatus, Motion, Steady, Stream, RoomIsKept
    <2> QED
        BY <1>5, <2>1, SameCounters DEF OnMotionStatus
<1>6. CASE OnMotionResult \/ TimePasses
    <2>1. /\ motion'.submitted = motion.submitted /\ motion'.completed = motion.completed
          /\ motion'.capacity = motion.capacity
        BY <1>6 DEF OnMotionResult, TimePasses, Motion
    <2> QED
        BY <1>6, <2>1, SameCounters DEF OnMotionResult, TimePasses
<1>7. CASE StepSettle
    <2>1. motion' = motion \/ motion' = Polled(motion)
        BY <1>7 DEF StepSettle
    <2>2. /\ motion'.submitted = motion.submitted /\ motion'.completed = motion.completed
          /\ motion'.capacity = motion.capacity
        BY <2>1, PolledCounters
    <2> QED
        BY <1>7, <2>2, SameCounters DEF StepSettle
<1>8. CASE Recheck
    <2>1. motion' = motion /\ world' = world /\ pc' \notin {"orchestrate", "down"}
        BY <1>8 DEF Recheck
    <2>2. pc' = "submit" => Inflight(motion) < StreamWindow
        BY <1>8 DEF Recheck, Ready, Stream, RoomIsKept
    <2> QED
        BY <2>1, <2>2 DEF Stream, Numbered, RoomIsKept
<1>9. CASE PollMotion
    <2>1. /\ motion' = Polled(motion) /\ world' = world /\ motion_idle' = Ready(motion)
          /\ pc' = "orchestrate"
        BY <1>9 DEF PollMotion
    <2>2. /\ motion'.submitted = motion.submitted /\ motion'.completed = motion.completed
          /\ motion'.capacity = motion.capacity
        BY <2>1, PolledCounters
    <2>3. Inflight(motion') = Inflight(motion)
        BY <2>2 DEF Inflight
    <2>4. CASE Inflight(motion) < StreamWindow
        BY <2>1, <2>2, <2>3, <2>4 DEF Stream, Numbered, RoomIsKept
    <2>5. CASE ~(Inflight(motion) < StreamWindow)
        <3>1. ~motion_idle'
            BY <2>1, <2>5 DEF Ready, Stream, RoomIsKept
        <3> QED
            BY <3>1, <2>1, <2>2, <2>3 DEF Stream, Numbered, RoomIsKept
    <2> QED
        BY <2>4, <2>5
<1>10. CASE AbortPending \/ FinalizeAbort
    <2>1. /\ motion'.submitted = motion.submitted /\ motion'.completed = motion.completed
          /\ motion'.capacity = motion.capacity
        BY <1>10 DEF AbortPending, FinalizeAbort, Motion
    <2> QED
        BY <1>10, <2>1, SameCounters DEF AbortPending, FinalizeAbort
<1>11. CASE UNCHANGED vars
    BY <1>11, SameCounters DEF vars
<1>12. ASSUME \/ Command \/ Ingress \/ Activate \/ StepNotCalled \/ StepExhausted \/ Publish
              \/ NothingToOrchestrate \/ KeepExecuting \/ CompleteJob \/ HoldPaused
              \/ RestoreSnapshot \/ SnapshotMissing \/ Boot \/ WriteJob
       PROVE  Stream'
    <2>1. /\ motion' = motion /\ world' = world /\ (pc' = "submit" => pc = "submit")
          /\ pc' # "down" \/ pc = "down"
          /\ pc' = "orchestrate" => pc = "orchestrate" /\ motion_idle' = motion_idle
        BY <1>12 DEF Command, NoCommand, Start, Pause, Resume, Abort, ClearJob, Recover,
              Ingress, AcceptJob, NoJobAccepted, Activate, StepNotCalled, StepExhausted,
              Publish, NothingToOrchestrate, KeepExecuting, CompleteJob, HoldPaused,
              RestoreSnapshot, SnapshotMissing, Boot, WriteJob
    <2> QED
        BY <2>1, SameCounters
<1> QED
    BY <1>1, <1>2, <1>3, <1>4, <1>5, <1>6, <1>7, <1>8, <1>9, <1>10, <1>11, <1>12
       DEF Next, Tick, Environment, ExecutionStep, Orchestrate
LEMMA StreamInit == Init => Stream
<1> SUFFICES ASSUME Init PROVE Stream
    OBVIOUS
<1>1. world = <<>> /\ Len(world) = 0 /\ motion = FreshMotion /\ pc = "down"
    BY EmptySeq DEF Init
<1> QED
    BY <1>1, StreamWindowAssumption, SeqModulusAssumption
    DEF Stream, Numbered, RoomIsKept, After, FreshMotion

LEMMA StreamInvariant == ASSUME Steady PROVE Spec => [](TypeOK /\ Stream)
<1>1. TypeOK /\ Stream /\ [Next]_vars => Stream'
    BY StreamStep
<1> QED
    BY <1>1, StreamInit, TypeCorrect, PTL DEF Spec

\* The difference of the two counters of RosSimMotionController is what the world still has to
\* do, and never more than STREAM_WINDOW: the room that execution_step saw is still there when
\* submit() publishes, for every window, counter width and number of jobs.
THEOREM WindowIsRespected == ASSUME Steady PROVE Spec => []WindowRespected
<1>1. TypeOK /\ Stream => WindowRespected
    BY InflightIsLength DEF Stream, Numbered, WindowRespected
<1> QED
    BY <1>1, StreamInvariant, PTL

\* When ExecutionOrchestrator::step takes a job away there is room in the window: motion_idle is
\* at most one stage old, and the callbacks of that stage only add room. What is left in flight
\* of "all segments completed + drained" is fewer than STREAM_WINDOW targets.
THEOREM CompletionsHaveRoom == ASSUME Steady PROVE Spec => CompletesWithRoom
<1>1. ASSUME TypeOK, Stream, CompleteJob
      PROVE  Len(world) < StreamWindow
    <2>1. Inflight(motion) < StreamWindow
        BY <1>1 DEF CompleteJob, JobFinished, Stream, RoomIsKept
    <2> QED
        BY <1>1, <2>1, InflightIsLength DEF Stream
<1>2. TypeOK /\ Stream /\ [Next]_vars => [CompleteJob => Len(world) < StreamWindow]_vars
    BY <1>1
<1> QED
    BY <1>2, StreamInvariant, PTL DEF Spec, CompletesWithRoom
-----------------------------------------------------------------------------
(* Every segment *)

LEMMA SubmitWhole ==
    ASSUME IInv, Undisturbed, StreamInv, Submit
    PROVE  Whole'
<1>1. /\ ctx \in ExecutionContext /\ ctx.cursor \in Nat /\ printed \in Seq(Nat)
      /\ job \in JobRecord
    BY DEF IInv, TypeOK, ExecutionContext
<1>2. Inflight(motion) < StreamWindow /\ Ready(motion)
    BY DEF StreamInv, Stream, RoomIsKept, Ready, Submit
<1>3. /\ pc = "submit" /\ system = "EXECUTING_PRINT" /\ ctx.cursor < job.total
    BY DEF IInv, Inv, Submitting, Submit
<1>4. /\ pc' = "poll" /\ system' = system /\ job' = job /\ pause_snapshot' = pause_snapshot
      /\ snapshot_file' = snapshot_file /\ ctx'.cursor = ctx.cursor + 1
      /\ printed' = Append(printed, ctx.cursor)
    BY <1>1, <1>2 DEF Submit, ExecutionContext
<1>5. job.present /\ Prefix(printed, ctx.cursor)
    BY <1>3 DEF StreamInv, Whole, SentInFull, InPrint
<1>6. /\ Len(printed') = ctx.cursor + 1
      /\ \A i \in 1..ctx.cursor : printed'[i] = printed[i]
      /\ printed'[ctx.cursor + 1] = ctx.cursor
    BY <1>1, <1>4, <1>5, AppendProperties DEF Prefix
<1>7. Prefix(printed', ctx'.cursor)
    <2>1. \A i \in 1..(ctx.cursor + 1) : i \in 1..ctx.cursor \/ i = ctx.cursor + 1
        BY <1>1
    <2> QED
        BY <1>1, <1>4, <1>5, <1>6, <2>1 DEF Prefix
<1>8. job.total \in Nat
    BY <1>1 DEF JobRecord
<1>9. SentInFull'
    BY <1>1, <1>3, <1>4, <1>5, <1>7, <1>8 DEF SentInFull, InPrint
<1>10. Resumable'
    BY <1>3, <1>4 DEF StreamInv, Whole, Resumable
<1> QED
    BY <1>9, <1>10 DEF Whole

LEMMA WholeStep == IInv /\ Undisturbed /\ StreamInv /\ [Next]_vars => Whole'
<1> SUFFICES ASSUME IInv, Undisturbed, StreamInv PROVE [Next]_vars => Whole'
    OBVIOUS
<1>0. /\ ctx \in ExecutionContext /\ job \in JobRecord /\ snapshot_file \in SnapshotFile
      /\ ctx.cursor \in Nat /\ job.total \in Nat /\ crashes \in 0..MaxCrashes
      /\ pause_snapshot \in BOOLEAN
    BY DEF IInv, TypeOK, ExecutionContext, JobRecord
<1> USE <1>0
<1> USE DEF StreamInv, Whole, Resumable, SentInFull, InPrint, IInv, Inv
<1>1. ASSUME OnWorldComplete PROVE Whole'
    BY <1>1 DEF OnWorldComplete
<1>2. ASSUME OnMotionStatus PROVE Whole'
    BY <1>2 DEF OnMotionStatus
<1>3. ASSUME OnMotionResult PROVE Whole'
    BY <1>3 DEF OnMotionResult
<1>4. ASSUME TimePasses PROVE Whole'
    BY <1>4 DEF TimePasses
<1>5. ASSUME WriteJob PROVE Whole'
    BY <1>5 DEF WriteJob
<1>6. ASSUME Crash PROVE Whole'
    BY <1>6 DEF Crash, Undisturbed, Steady
<1>7. ASSUME WorldLost PROVE Whole'
    BY <1>7 DEF WorldLost, Undisturbed, Steady
<1>8. ASSUME NoCommand PROVE Whole'
    BY <1>8 DEF NoCommand
<1>9. ASSUME Start PROVE Whole'
    BY <1>9, EmptySeq DEF Start, CommandAllowed, CanStartJob, JobRecord, Prefix
<1>10. ASSUME Pause PROVE Whole'
    BY <1>10 DEF Pause, CommandAllowed
<1>11. ASSUME Resume PROVE Whole'
    BY <1>11 DEF Resume, CommandAllowed, CanResume
<1>12. ASSUME Abort PROVE Whole'
    BY <1>12 DEF Abort, CommandAllowed
<1>13. ASSUME ClearJob PROVE Whole'
    BY <1>13 DEF ClearJob, CommandAllowed, JobCleared, ResetSoft, ExecutionContext, NoSnapshot,
           SnapshotOnlyWhilePaused
<1>14. ASSUME Recover PROVE Whole'
    BY <1>14 DEF Recover, CommandAllowed
<1>15. ASSUME AcceptJob PROVE Whole'
    BY <1>15 DEF AcceptJob, CanSubmitJob
<1>16. ASSUME NoJobAccepted PROVE Whole'
    BY <1>16 DEF NoJobAccepted
<1>17. ASSUME Activate PROVE Whole'
    BY <1>17 DEF Activate, Armed, Gated, ExecutionContext
<1>18. ASSUME StepNotCalled PROVE Whole'
    BY <1>18 DEF StepNotCalled
<1>19. ASSUME StepExhausted PROVE Whole'
    BY <1>19 DEF StepExhausted
<1>20. ASSUME StepSettle PROVE Whole'
    BY <1>20 DEF StepSettle
<1>21. ASSUME Recheck PROVE Whole'
    BY <1>21 DEF Recheck
<1>22. ASSUME Submit PROVE Whole'
    BY <1>22, SubmitWhole
<1>23. ASSUME PollMotion PROVE Whole'
    BY <1>23 DEF PollMotion
<1>24. ASSUME NothingToOrchestrate PROVE Whole'
    BY <1>24 DEF NothingToOrchestrate
<1>25. ASSUME KeepExecuting PROVE Whole'
    BY <1>25 DEF KeepExecuting, StartedEarly, ExecutionContext
<1>26. ASSUME CompleteJob PROVE Whole'
    BY <1>26 DEF CompleteJob, ResetHard, ResetSoft, ExecutionContext
<1>27. ASSUME AbortPending PROVE Whole'
    BY <1>27 DEF AbortPending, AbortBegun, AbortSnapshot, NoSnapshot, AbortOnlyAborting
<1>28. ASSUME FinalizeAbort PROVE Whole'
    BY <1>28 DEF FinalizeAbort, AbortBegun, AbortSnapshot, NoSnapshot, AbortOnlyAborting,
           JobRecord
<1>29. ASSUME HoldPaused PROVE Whole'
    <2>1. /\ pc = "orchestrate" /\ pc' = "publish" /\ system = "PAUSED" /\ system' = system
          /\ job' = job /\ printed' = printed /\ pause_snapshot' = TRUE
        BY <1>29 DEF HoldPaused
    <2>2. ctx'.cursor = ctx.cursor
        BY <1>29 DEF HoldPaused, ExecutionContext
    <2>3. snapshot_file'.valid = TRUE
        <3>1. \/ pause_snapshot = TRUE /\ snapshot_file' = snapshot_file
              \/ snapshot_file' = Persisted
            BY <1>29 DEF HoldPaused, Undisturbed
        <3> QED
            BY <3>1 DEF Persisted
    <2> QED
        BY <2>1, <2>2, <2>3
<1>30. ASSUME RestoreSnapshot PROVE Whole'
    BY <1>30 DEF RestoreSnapshot, ResetHard, ResetSoft, NoSnapshot, ExecutionContext,
           SnapshotIsTheCursor
<1>31. ASSUME SnapshotMissing PROVE Whole'
    BY <1>31 DEF SnapshotMissing
<1>32. ASSUME Publish PROVE Whole'
    BY <1>32 DEF Publish
<1>33. ASSUME Boot PROVE Whole'
    BY <1>33 DEF Boot, SnapshotAccepted, NoSnapshot
<1>34. ASSUME UNCHANGED vars PROVE Whole'
    BY <1>34 DEF vars
<1> QED
    BY <1>1, <1>2, <1>3, <1>4, <1>5, <1>6, <1>7, <1>8, <1>9, <1>10, <1>11, <1>12, <1>13,
       <1>14, <1>15, <1>16, <1>17, <1>18, <1>19, <1>20, <1>21, <1>22, <1>23, <1>24, <1>25,
       <1>26, <1>27, <1>28, <1>29, <1>30, <1>31, <1>32, <1>33, <1>34
       DEF Next, Tick, Environment, Command, Ingress, ExecutionStep, Orchestrate

LEMMA WholeInit == Init => Whole
<1> SUFFICES ASSUME Init PROVE Whole
    OBVIOUS
<1>1. /\ system = "IDLE" /\ ctx.cursor = 0 /\ ~snapshot_file.valid /\ pause_snapshot = FALSE
    BY DEF Init, FreshContext, NoSnapshot
<1> QED
    BY <1>1 DEF Whole, Resumable, SentInFull, InPrint, Init, NoSnapshot

LEMMA StreamInvInvariant == ASSUME Undisturbed PROVE Spec => [](IInv /\ StreamInv)
<1>1. IInv /\ StreamInv /\ [Next]_vars => StreamInv'
    BY StreamStep, WholeStep DEF StreamInv, IInv, Undisturbed
<1>2. Init => StreamInv
    BY StreamInit, WholeInit DEF StreamInv
<1> QED
    BY <1>1, <1>2, InductiveInvariant, PTL DEF Spec

\* ExecutionOrchestrator::step completes a job only when each segment of it was sent, once and
\* in order, over any number of pauses, resumes and aborted jobs before it.
THEOREM EverySegmentIsSent == ASSUME Undisturbed PROVE Spec => CompletesEverySegment
<1>1. ASSUME IInv, StreamInv, CompleteJob
      PROVE  printed = [i \in 1..job.total |-> i - 1]
    <2>1. /\ ctx.cursor \in Nat /\ job.total \in Nat /\ printed \in Seq(Nat)
        BY <1>1 DEF IInv, TypeOK, ExecutionContext, JobRecord
    <2>2. ctx.cursor = job.total
        BY <1>1, <2>1 DEF CompleteJob, JobFinished, StreamInv, Whole, SentInFull, InPrint
    <2>3. Len(printed) = job.total /\ \A i \in 1..Len(printed) : printed[i] = i - 1
        BY <1>1, <2>2 DEF CompleteJob, StreamInv, Whole, SentInFull, InPrint, Prefix
    <2>4. printed = [i \in 1..Len(printed) |-> printed[i]]
        BY <2>1, LenProperties
    <2> QED
        BY <2>3, <2>4
<1>2. IInv /\ StreamInv /\ [Next]_vars =>
         [CompleteJob => printed = [i \in 1..job.total |-> i - 1]]_vars
    BY <1>1
<1> QED
    BY <1>2, StreamInvInvariant, PTL DEF Spec, CompletesEverySegment
=============================================================================
