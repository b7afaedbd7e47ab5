--------------------------- MODULE MCEmbeddedRuns ---------------------------
(* A chat run and a cron run in one session.                                *)
EXTENDS EmbeddedRuns

MCSessionKey == [a |-> "s", k |-> "s"]
MCRuns == DOMAIN MCSessionKey
MCRequestedLane == [a |-> "main", k |-> "cron"]
=============================================================================
