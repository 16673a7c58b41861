----------------------------- MODULE MCStableCA -----------------------------
(* StableCA for TLC: agents and hosts are model values of the configs. *)
EXTENDS StableCA
===============================================================================
