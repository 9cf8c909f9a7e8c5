-------------------------- MODULE MCProcessShutdown --------------------------
(* The instance of ProcessShutdown for TLC is in ProcessShutdown.cfg. *)
EXTENDS ProcessShutdown
=============================================================================
