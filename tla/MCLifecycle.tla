---------------------------- MODULE MCLifecycle ----------------------------
EXTENDS Lifecycle
MCOthers == {"heartbeat"}
=============================================================================
