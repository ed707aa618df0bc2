----------------------------- MODULE MCEventFeed -----------------------------
(* A small instance of EventFeed for TLC; its constants are in the cfg.  The *)
(* run checks liveness, so the writers are not declared symmetric.           *)
EXTENDS EventFeed
=============================================================================
