-------------------------- MODULE MachineStateMessage --------------------------
(***************************************************************************)
(* What the firmware publishes of itself: the state region of shared memory, *)
(* and the /machine_state message the supervisor makes of it.                *)
(*                                                                         *)
(* Left out: safety_state (never anything but OK), segment (never anything   *)
(* but 0), the outcome of the last command (it changes only together with    *)
(* its sequence number, and no subscriber reads it), the schema and the hash *)
(* of the job (they change only together with its id). paused is             *)
(* system = "PAUSED".                                                        *)
(***************************************************************************)
EXTENDS Integers

Message(systems, rejections) ==
    [system : systems, layer : {0, 1}, loaded : BOOLEAN, seq : Nat, job : Nat,
     rejection : rejections]

\* No message, or an empty optional.
NoState == [system |-> "NONE", layer |-> 0, loaded |-> FALSE, seq |-> 0, job |-> 0,
            rejection |-> ""]
=============================================================================
