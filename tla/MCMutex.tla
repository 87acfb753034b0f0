------------------------------- MODULE MCMutex -------------------------------
(* BrMutex on small instances, see the .cfg files. *)
EXTENDS BrMutex
===============================================================================
