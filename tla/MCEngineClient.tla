---------------------------- MODULE MCEngineClient ----------------------------
(* EngineClient for TLC: fast toggles between the modes while windows open and
   close, the daemon comes and goes, and answers are late. *)
EXTENDS EngineClient
===============================================================================
