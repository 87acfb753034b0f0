-------------------------------- MODULE MCPool --------------------------------
(* BrPool on a small instance, see the .cfg file. *)
EXTENDS BrPool

\* Three buffers of which two can become pools; the first ones are too small
\* for the larger blocks, and the second is not a multiple of the pointer size.
TheBuffers == {[start |-> 0, size |-> 2], [start |-> 2, size |-> 3],
               [start |-> 5, size |-> 6]}
===============================================================================
