---------------------- MODULE MCVpnConnectionTelemetry ----------------------
(* Model checking of VpnConnectionTelemetry. *)
EXTENDS VpnConnectionTelemetry
=============================================================================
