-------------------------- MODULE MCDependencyGraph --------------------------
(* DependencyGraph for every graph of a few nodes. *)
EXTENDS DependencyGraph

=============================================================================
