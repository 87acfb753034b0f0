-------------------------------- MODULE MCSem --------------------------------
(* BrSem on small instances, see the .cfg files. *)
EXTENDS BrSem
===============================================================================
