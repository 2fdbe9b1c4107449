----------------------- MODULE MCVpnConnectionManager -----------------------
(* Model checking of VpnConnectionManager on small instances. *)
EXTENDS VpnConnectionManager, TLC

\* The untracked coroutines are interchangeable.
CoroutineSymmetry == Permutations(Coroutines)
=============================================================================
