---- MODULE MCRedeploy ----
(* The small instance of MCExtraction, with containers that are recreated. *)
EXTENDS Redeploy, MCExtraction

====
