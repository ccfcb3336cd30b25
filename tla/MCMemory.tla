------------------------------ MODULE MCMemory ------------------------------
(* Memory with few processes, pages and frames. *)
EXTENDS Memory

=============================================================================
