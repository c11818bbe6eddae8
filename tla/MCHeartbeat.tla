---------------------------- MODULE MCHeartbeat -----------------------------
EXTENDS Heartbeat
=============================================================================
