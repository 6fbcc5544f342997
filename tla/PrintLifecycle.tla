---------------------------- MODULE PrintLifecycle ----------------------------
(***************************************************************************)
(* What the firmware promises of a print, without its loop, its threads,    *)
(* its shared memory or its disk.                                           *)
(*                                                                         *)
(* A print is started, sends segments to the motion controller, may be      *)
(* paused and resumed once, and ends: finished, or stopped by an abort or a *)
(* fault. Segments go out only while it is printing, and each one is later  *)
(* in the job than every one sent before it since the start, over pauses,   *)
(* resumes and whatever else happens in between. A stopped print is never   *)
(* continued.                                                               *)
(***************************************************************************)
EXTENDS Naturals, Sequences

CONSTANT Segments   \* the segment numbers of the jobs

VARIABLES
    mode,     \* what the print is doing
    resumed,  \* whether the print has used its one resume
    sent      \* the segments sent since the print was started

vars == <<mode, resumed, sent>>

Modes == {"off", "ready", "printing", "paused", "resuming", "stopped"}

Init == mode = "off" /\ resumed = FALSE /\ sent = <<>>

PowerOn == /\ mode = "off"
           /\ mode' \in {"ready", "paused"}     \* paused: a print was paused at the crash
           /\ UNCHANGED <<resumed, sent>>

PowerOff == /\ mode # "off"
            /\ mode' = "off"
            /\ resumed' = FALSE
            /\ sent' = <<>>

Begin == /\ mode = "ready"
         /\ mode' = "printing"
         /\ resumed' = FALSE
         /\ sent' = <<>>

Send == /\ mode = "printing"
        /\ \E n \in Segments :
              /\ \A i \in DOMAIN sent : sent[i] < n
              /\ sent' = Append(sent, n)
        /\ UNCHANGED <<mode, resumed>>

Hold == mode = "printing" /\ mode' = "paused" /\ UNCHANGED <<resumed, sent>>

AskResume == /\ mode = "paused"
             /\ ~resumed
             /\ mode' = "resuming"
             /\ resumed' = TRUE
             /\ UNCHANGED sent

Continue == mode = "resuming" /\ mode' = "printing" /\ UNCHANGED <<resumed, sent>>

Finish == mode = "printing" /\ mode' = "ready" /\ UNCHANGED <<resumed, sent>>

Stop == /\ mode \in {"printing", "paused", "resuming"}
        /\ mode' = "stopped"
        /\ UNCHANGED <<resumed, sent>>

Clear == mode = "stopped" /\ mode' = "ready" /\ UNCHANGED <<resumed, sent>>

Next == \/ PowerOn \/ PowerOff \/ Begin \/ Send \/ Hold \/ AskResume \/ Continue
        \/ Finish \/ Stop \/ Clear

Spec == Init /\ [][Next]_vars
=============================================================================
