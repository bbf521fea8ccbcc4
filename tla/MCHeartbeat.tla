---------------------------- MODULE MCHeartbeat ----------------------------
(* Two changes, two outages, one broken connection.                        *)
EXTENDS Heartbeat
=============================================================================
