---------------------------- MODULE MCMobileStack ----------------------------
(* The instance of MobileStack for TLC. *)
EXTENDS MobileStack

\* The first target sends the base forward. The second is within the work radius or not,
\* ahead or behind, depending on how far the base has come.
TwoTargets == <<3, 2>>
=============================================================================
