---------------------------- MODULE MCVpnBackend ----------------------------
\* VpnBackend for TLC; the configurations choose commands, errors and bounds.
EXTENDS VpnBackend
=============================================================================
