------------------------------- MODULE MCPendSV -------------------------------
(* BrPendSV on small instances, see the .cfg files. *)
EXTENDS BrPendSV
===============================================================================
