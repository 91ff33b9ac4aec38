---------------------------- MODULE MCMcpRoutes ----------------------------
(* McpRoutes on a small instance. *)
EXTENDS McpRoutes, TLC

\* Clients, names and runs are interchangeable: the specification only
\* compares them.
Symmetry ==
  Permutations(Clients) \cup Permutations(Names) \cup Permutations(Runs)

=============================================================================
