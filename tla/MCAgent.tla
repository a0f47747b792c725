---- MODULE MCAgent ----
(***************************************************************************)
(* Small instances of Agent: one task for the graph, one for the vectors.  *)
(***************************************************************************)
EXTENDS Agent

====
