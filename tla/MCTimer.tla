-------------------------------- MODULE MCTimer --------------------------------
(* BrTimer on a small instance, see the .cfg file. *)
EXTENDS BrTimer
===============================================================================
