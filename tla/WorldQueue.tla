------------------------------ MODULE WorldQueue ------------------------------
(***************************************************************************)
(* What the firmware and the mobile stack promise each other about targets: *)
(* the firmware numbers the targets it submits, the stack completes them    *)
(* first in, first out, each once. The firmware may be killed: it numbers    *)
(* from 1 again, while the targets of the old process are still carried out. *)
(***************************************************************************)
EXTENDS Integers, Sequences

CONSTANT SeqModulus     \* 2^32, the range of the unsigned sequence numbers

VARIABLES
    up,          \* whether the firmware runs
    submitted,   \* last_submitted_seq_
    completed,   \* last_completed_seq_
    world        \* the numbers of the targets that are not completed, oldest first

vars == <<up, submitted, completed, world>>

Init == up = FALSE /\ submitted = 0 /\ completed = 0 /\ world = <<>>

\* The counter wraps.
NextSeq(n) == IF n + 1 < SeqModulus THEN n + 1 ELSE 0

Submit ==
    /\ up
    /\ submitted' = NextSeq(submitted)
    /\ world' = Append(world, submitted')
    /\ UNCHANGED <<up, completed>>

\* A completion that arrives while the firmware is down reaches nobody.
Complete ==
    /\ world # <<>>
    /\ world' = Tail(world)
    /\ completed' = IF up THEN Head(world) ELSE completed
    /\ UNCHANGED <<up, submitted>>

Boot == ~up /\ up' = TRUE /\ UNCHANGED <<submitted, completed, world>>

Crash == up /\ up' = FALSE /\ submitted' = 0 /\ completed' = 0 /\ UNCHANGED world

\* The stack is restarted or lost, and with it what it had not completed.
Lost == world # <<>> /\ world' = <<>> /\ UNCHANGED <<up, submitted, completed>>

Next == Submit \/ Complete \/ Boot \/ Crash \/ Lost

Spec == Init /\ [][Next]_vars
=============================================================================
