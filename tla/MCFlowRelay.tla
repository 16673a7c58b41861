----------------------------- MODULE MCFlowRelay -----------------------------
(* FlowRelay for TLC: flows share only the marker, so one flow is explored
   with every offer, every ClientHello and every order of callbacks. *)
EXTENDS FlowRelay
===============================================================================
