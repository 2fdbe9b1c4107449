---------------------------- MODULE MCGuestHole ----------------------------
(* Model checking of GuestHole. *)
EXTENDS GuestHole
=============================================================================
