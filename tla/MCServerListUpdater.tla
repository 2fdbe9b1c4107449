------------------------ MODULE MCServerListUpdater ------------------------
(* Model checking of ServerListUpdater. *)
EXTENDS ServerListUpdater
=============================================================================
