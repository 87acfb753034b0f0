------------------------------- MODULE MCSystem -------------------------------
(* BrSystem on small instances, see the .cfg files. *)
EXTENDS BrSystem
===============================================================================
