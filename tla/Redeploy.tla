---- MODULE Redeploy ----
(***************************************************************************)
(* Extraction under docker-compose.yml.  MinIO, Qdrant and Neo4j keep      *)
(* their data in named volumes; the SQLite file data/docintel.db lies in   *)
(* the file system of the api container, which mounts no volume for it.    *)
(* Restart (of Extraction) starts the same container again; Recreate       *)
(* starts a new one, as "docker compose up" does after the image or the    *)
(* configuration has changed.                                              *)
(***************************************************************************)
EXTENDS Extraction

Recreate ==
  /\ ~up
  /\ up' = TRUE
  /\ rows' = [i \in Ids |-> NoFile]
  /\ UNCHANGED <<pc, loop, requestVars, counted, crashes, bucket, objects,
                 collection, chunks, nodes, viewerVars>>

RedeploySpec == Init /\ [][Next \/ Recreate]_vars

\* Tearing the stack down wipes nothing unless its volumes are wiped too: a
\* contract that a client was given a 200 for and that a chunk or a node still
\* cites has its row, which GET /contracts/{id} reads.
CitedStaysReadable ==
  \A r \in Requests :
    pc[r] = "done" /\ id[r] \in Searchable => rows[id[r]] = file[r]

====
