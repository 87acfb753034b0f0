------------------------------- MODULE MCMqueue -------------------------------
(* BrMqueue on small instances, see the .cfg files. *)
EXTENDS BrMqueue
===============================================================================
