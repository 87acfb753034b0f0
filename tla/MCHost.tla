-------------------------------- MODULE MCHost --------------------------------
(* BrHost on small instances, see the .cfg files. *)
EXTENDS BrHost
===============================================================================
