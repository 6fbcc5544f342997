------------------------------ MODULE MCFirmware ------------------------------
(* Values of the constants of Firmware for TLC. *)
EXTENDS Firmware

\* What motion_result_adapter.cpp reports in every status: no queue telemetry.
NoQueueTelemetry == {[depth |-> 0, capacity |-> 0]}
=============================================================================
