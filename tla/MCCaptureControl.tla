---------------------------- MODULE MCCaptureControl ----------------------------
(* CaptureControl for TLC: buttons pressed while earlier handlers are under way,
   with every failure. *)
EXTENDS CaptureControl
===============================================================================
