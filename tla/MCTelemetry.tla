---------------------------- MODULE MCTelemetry ----------------------------
(* Model checking of Telemetry. *)
EXTENDS Telemetry
=============================================================================
