------------------------------- MODULE MCTasks -------------------------------
(* BrTasks on small instances, see the .cfg files. *)
EXTENDS BrTasks
===============================================================================
