----------------------------- MODULE MCCaptureHub -----------------------------
(* CaptureHub for TLC: the goroutines are model values of the config. *)
EXTENDS CaptureHub
===============================================================================
