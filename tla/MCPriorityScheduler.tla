------------------------ MODULE MCPriorityScheduler ------------------------
(* PriorityScheduler with few processes, cores and priorities. *)
EXTENDS PriorityScheduler

=============================================================================
