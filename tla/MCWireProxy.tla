------------------------------ MODULE MCWireProxy ------------------------------
(* WireProxy for TLC: connections share nothing, so one is explored with every
   pair of requests and every order of writes, ends and failures. *)
EXTENDS WireProxy
===============================================================================
