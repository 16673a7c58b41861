--------------------------- MODULE MCAmbientInstall ---------------------------
(* AmbientInstall for TLC: up to three commands of any kind, two lines of the
   user's, one kill, daemon death or reboot.  *)
EXTENDS AmbientInstall
===============================================================================
