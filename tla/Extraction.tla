---- MODULE Extraction ----
(***************************************************************************)
(* The two upload endpoints of the DocIntel service, POST /extract (images *)
(* of receipts) and POST /contracts/extract (contract PDFs), and the       *)
(* readers that use what they stored.                                      *)
(*                                                                         *)
(* Both handlers are "async def" functions whose only await is the read of *)
(* the upload.  FastAPI resolves their dependencies in worker threads      *)
(* first; from the await to the return the body keeps the single event     *)
(* loop of the one uvicorn process.  Each call to a store is an action of  *)
(* its own, so that a crash, a failing call, a call whose reply is lost,   *)
(* or a reader in a worker thread can come between any two of them.        *)
(***************************************************************************)
EXTENDS Naturals

CONSTANTS
  Requests,    \* the upload requests clients may send, each sent at most once
  Ids,         \* the values uuid.uuid4().hex can return
  Pdfs,        \* the contract PDFs clients may upload
  Images,      \* the receipt images clients may upload
  MaxBatches,  \* the largest number of chunk batches of one contract
  NumBatches,  \* the batches add_texts sends for each PDF, 0 when it has no text
  Viewers,     \* clients that follow citations and open stored images
  MaxCrashes,  \* bound on the crashes of the process (Crash)
  NoFile, NoId, NoRequest

Files == Pdfs \union Images

ASSUME ConstantsAssumption ==
  /\ MaxBatches \in Nat
  /\ NumBatches \in [Pdfs -> 0 .. MaxBatches]
  /\ MaxCrashes \in Nat
  /\ NoFile \notin Files
  /\ NoId \notin Ids
  /\ NoRequest \notin Requests
  /\ Pdfs \intersect Images = {}

VARIABLES
  \* The process: lost in a crash.
  pc,          \* where each request is
  file,        \* the file it uploads
  id,          \* the id its document was given, or NoId
  rag, graph,  \* whether its dependencies returned a vector and a graph store
  loop,        \* the request whose body holds the event loop, or NoRequest
  counted,     \* the ids counted in the metrics since the process started
  up,          \* the process is running
  crashes,     \* crashes so far
  \* The stores: they survive a crash of the process.
  bucket,      \* MinIO: the bucket exists
  objects,     \* MinIO: the file stored under the key made from each id
  rows,        \* SQLite: the file each document or contract row describes
  collection,  \* Qdrant: the collection exists
  chunks,      \* Qdrant: the batches of chunks stored for each contract id
  nodes,       \* Neo4j: the file each Contract node describes
  \* The readers.
  seen,        \* what each viewer is doing
  cite         \* the id it does it with

requestVars == <<file, id, rag, graph>>
processVars == <<counted, up, crashes>>
storeVars == <<bucket, objects, rows, collection, chunks, nodes>>
viewerVars == <<seen, cite>>
vars == <<pc, loop, requestVars, processVars, storeVars, viewerVars>>

Waiting == {"resolve", "reading"}
Persisting == {"ingest", "head", "makeBucket", "put", "save"}
Indexing == {"lookup", "makeCollection", "upsert"}
Body == Persisting \union Indexing \union {"build", "record"}
Active == Waiting \union Body
Ended == {"done", "failed", "lost"}

Init ==
  /\ pc = [r \in Requests |-> "idle"]
  /\ file = [r \in Requests |-> NoFile]
  /\ id = [r \in Requests |-> NoId]
  /\ rag = [r \in Requests |-> FALSE]
  /\ graph = [r \in Requests |-> FALSE]
  /\ loop = NoRequest
  /\ counted = {}
  /\ up = TRUE
  /\ crashes = 0
  /\ bucket = FALSE
  /\ objects = [i \in Ids |-> NoFile]
  /\ rows = [i \in Ids |-> NoFile]
  /\ collection = FALSE
  /\ chunks = [i \in Ids |-> 0]
  /\ nodes = [i \in Ids |-> NoFile]
  /\ seen = [v \in Viewers |-> "idle"]
  /\ cite = [v \in Viewers |-> NoId]

Goto(r, label) == pc' = [pc EXCEPT ![r] = label]

\* The handler is left, normally or by an exception: the loop is free again.
Leave(r, label) ==
  /\ Goto(r, label)
  /\ loop' = IF loop = r THEN NoRequest ELSE loop

----------------------------------------------------------------------------
(* Before the body runs.                                                   *)

Submit(r) ==
  /\ up
  /\ pc[r] = "idle"
  /\ \E f \in Files : file' = [file EXCEPT ![r] = f]
  /\ Goto(r, "resolve")
  /\ UNCHANGED <<id, rag, graph, loop, processVars, storeVars, viewerVars>>

\* The optional stores come back as None when they are disabled or fail to
\* build; /extract does not ask for them.
ResolveDependencies(r) ==
  /\ pc[r] = "resolve"
  /\ \E v, g \in BOOLEAN :
       /\ file[r] \in Images => ~v /\ ~g
       /\ rag' = [rag EXCEPT ![r] = v]
       /\ graph' = [graph EXCEPT ![r] = g]
  /\ Goto(r, "reading")
  /\ UNCHANGED <<file, id, loop, processVars, storeVars, viewerVars>>

\* 415, 413 and 400: wrong type, too large, bytes that are not an image.
RejectUpload(r) ==
  /\ pc[r] = "reading"
  /\ loop = NoRequest
  /\ Leave(r, "failed")
  /\ UNCHANGED <<requestVars, processVars, storeVars, viewerVars>>

\* Faulty variant: a plain "def" handler, whose body does not hold the loop.
ResumeBodyInThread(r) ==
  /\ pc[r] = "reading"
  /\ Goto(r, "ingest")
  /\ UNCHANGED <<loop, requestVars, processVars, storeVars, viewerVars>>

\* The await of file.read() returns: the rest of the body runs without
\* giving the event loop back.
ResumeBody(r) ==
  /\ pc[r] = "reading"
  /\ loop = NoRequest
  /\ loop' = r
  /\ Goto(r, "ingest")
  /\ UNCHANGED <<requestVars, processVars, storeVars, viewerVars>>

----------------------------------------------------------------------------
(* The body: analyse, store the upload, store the row.                     *)

Fresh(i) == \A r \in Requests : id[r] # i

\* Faulty variant: ids so short that two uploads may be given the same one.
AnalyseShortId(r) ==
  /\ pc[r] = "ingest"
  /\ \E i \in Ids : id' = [id EXCEPT ![r] = i]
  /\ Goto(r, "head")
  /\ UNCHANGED <<file, rag, graph, loop, processVars, storeVars, viewerVars>>

\* OCR, model and decoding succeed; the document gets a new uuid4.
Analyse(r) ==
  /\ pc[r] = "ingest"
  /\ \E i \in Ids : Fresh(i) /\ id' = [id EXCEPT ![r] = i]
  /\ Goto(r, "head")
  /\ UNCHANGED <<file, rag, graph, loop, processVars, storeVars, viewerVars>>

HeadBucket(r) ==
  /\ pc[r] = "head"
  /\ Goto(r, IF bucket THEN "put" ELSE "makeBucket")
  /\ UNCHANGED <<loop, requestVars, processVars, storeVars, viewerVars>>

CreateBucket(r) ==
  /\ pc[r] = "makeBucket"
  /\ bucket' = TRUE
  /\ Goto(r, "put")
  /\ UNCHANGED <<loop, requestVars, processVars, objects, rows, collection,
                 chunks, nodes, viewerVars>>

\* Faulty variant: storing the upload is best-effort.
PutObjectBestEffort(r) ==
  /\ pc[r] = "put"
  /\ objects' \in {objects, [objects EXCEPT ![id[r]] = file[r]]}
  /\ Goto(r, "save")
  /\ UNCHANGED <<loop, requestVars, processVars, bucket, rows, collection,
                 chunks, nodes, viewerVars>>

PutObject(r) ==
  /\ pc[r] = "put"
  /\ objects' = [objects EXCEPT ![id[r]] = file[r]]
  /\ Goto(r, "save")
  /\ UNCHANGED <<loop, requestVars, processVars, bucket, rows, collection,
                 chunks, nodes, viewerVars>>

AfterIndex(r) == IF graph[r] THEN "build" ELSE "record"
AfterSave(r) == IF rag[r] THEN "lookup" ELSE AfterIndex(r)

\* Faulty variant: the row is best-effort and the stores come all the same.
SaveRowBestEffort(r) ==
  /\ pc[r] = "save"
  /\ rows' \in {rows, [rows EXCEPT ![id[r]] = file[r]]}
  /\ Goto(r, AfterSave(r))
  /\ UNCHANGED <<loop, requestVars, processVars, bucket, objects, collection,
                 chunks, nodes, viewerVars>>

\* CREATE TABLE IF NOT EXISTS and the upsert: one committed row.
SaveRow(r) ==
  /\ pc[r] = "save"
  /\ rows' = [rows EXCEPT ![id[r]] = file[r]]
  /\ Goto(r, AfterSave(r))
  /\ UNCHANGED <<loop, requestVars, processVars, bucket, objects, collection,
                 chunks, nodes, viewerVars>>

\* A dependency or a step up to the row raises: the client gets a 500.
Raise(r) ==
  /\ pc[r] \in {"resolve"} \union Persisting
  /\ Leave(r, "failed")
  /\ UNCHANGED <<requestVars, processVars, storeVars, viewerVars>>

\* MinIO does what it was asked and the reply is lost: a 500 all the same.
RaiseAfterEffect(r) ==
  /\ \/ pc[r] = "makeBucket" /\ bucket' = TRUE /\ UNCHANGED objects
     \/ /\ pc[r] = "put"
        /\ objects' = [objects EXCEPT ![id[r]] = file[r]]
        /\ UNCHANGED bucket
  /\ Leave(r, "failed")
  /\ UNCHANGED <<requestVars, processVars, rows, collection, chunks, nodes,
                 viewerVars>>

----------------------------------------------------------------------------
(* The body, contracts only: index and graph, both best-effort.            *)

LookupCollection(r) ==
  /\ pc[r] = "lookup"
  /\ Goto(r, IF collection THEN "upsert" ELSE "makeCollection")
  /\ UNCHANGED <<loop, requestVars, processVars, storeVars, viewerVars>>

CreateCollection(r) ==
  /\ pc[r] = "makeCollection"
  /\ collection' = TRUE
  /\ Goto(r, "upsert")
  /\ UNCHANGED <<loop, requestVars, processVars, bucket, objects, rows, chunks,
                 nodes, viewerVars>>

UpsertBatch(r) ==
  /\ pc[r] = "upsert"
  /\ chunks[id[r]] < NumBatches[file[r]]
  /\ chunks' = [chunks EXCEPT ![id[r]] = @ + 1]
  /\ UNCHANGED <<pc, loop, requestVars, processVars, bucket, objects, rows,
                 collection, nodes, viewerVars>>

FinishIndex(r) ==
  /\ pc[r] = "upsert"
  /\ chunks[id[r]] = NumBatches[file[r]]
  /\ Goto(r, AfterIndex(r))
  /\ UNCHANGED <<loop, requestVars, processVars, storeVars, viewerVars>>

\* Faulty variant: a failure to index propagates as a 500.
IndexFailsLoudly(r) ==
  /\ pc[r] \in Indexing
  /\ Leave(r, "failed")
  /\ UNCHANGED <<requestVars, processVars, storeVars, viewerVars>>

\* Anything that raises while indexing is logged and swallowed, at any point
\* of it; the call that raised may have had its effect.
IndexFails(r) ==
  /\ pc[r] \in Indexing
  /\ \/ UNCHANGED <<collection, chunks>>
     \/ pc[r] = "makeCollection" /\ collection' = TRUE /\ UNCHANGED chunks
     \/ /\ pc[r] = "upsert"
        /\ chunks[id[r]] < NumBatches[file[r]]
        /\ chunks' = [chunks EXCEPT ![id[r]] = @ + 1]
        /\ UNCHANGED collection
  /\ Goto(r, AfterIndex(r))
  /\ UNCHANGED <<loop, requestVars, processVars, bucket, objects, rows, nodes,
                 viewerVars>>

\* One MERGE statement; a failure is logged and swallowed.
BuildGraph(r) ==
  /\ pc[r] = "build"
  /\ nodes' \in {nodes, [nodes EXCEPT ![id[r]] = file[r]]}
  /\ Goto(r, "record")
  /\ UNCHANGED <<loop, requestVars, processVars, bucket, objects, rows,
                 collection, chunks, viewerVars>>

\* Faulty variant: the response is sent and the loop is never given back.
RespondKeepsLoop(r) ==
  /\ pc[r] = "record"
  /\ counted' = counted \union {id[r]}
  /\ Goto(r, "done")
  /\ UNCHANGED <<loop, requestVars, up, crashes, storeVars, viewerVars>>

\* Metrics, then the 200 response.
Respond(r) ==
  /\ pc[r] = "record"
  /\ counted' = counted \union {id[r]}
  /\ Leave(r, "done")
  /\ UNCHANGED <<requestVars, up, crashes, storeVars, viewerVars>>

----------------------------------------------------------------------------
(* The process.  A crash takes every request in flight and the metrics.    *)

Crash ==
  /\ up
  /\ crashes < MaxCrashes
  /\ up' = FALSE
  /\ crashes' = crashes + 1
  /\ pc' = [r \in Requests |-> IF pc[r] \in Active THEN "lost" ELSE pc[r]]
  /\ loop' = NoRequest
  /\ counted' = {}
  /\ seen' = [v \in Viewers |-> IF seen[v] = "fetch" THEN "idle" ELSE seen[v]]
  /\ UNCHANGED <<requestVars, storeVars, cite>>

Restart ==
  /\ ~up
  /\ up' = TRUE
  /\ UNCHANGED <<pc, loop, requestVars, counted, crashes, storeVars, viewerVars>>

----------------------------------------------------------------------------
(* The readers.  They are plain "def" endpoints: their bodies run in       *)
(* worker threads beside the event loop.                                   *)

Holds(v, what, i) ==
  /\ seen' = [seen EXCEPT ![v] = what]
  /\ cite' = [cite EXCEPT ![v] = i]

\* A reader changes nothing but what its client sees.
ReaderOnly == UNCHANGED <<pc, loop, requestVars, processVars, storeVars>>

\* /ask answers from the chunks or the graph; the answer cites contract i.
Ask(v) ==
  /\ up
  /\ seen[v] = "idle"
  /\ \E i \in Ids :
       /\ (collection /\ chunks[i] > 0) \/ nodes[i] # NoFile
       /\ Holds(v, "cited", i)
  /\ ReaderOnly

\* GET /contracts/{id} with the cited id.
ReadContract(v) ==
  /\ up
  /\ seen[v] = "cited"
  /\ Holds(v, IF rows[cite[v]] \in Pdfs THEN "found" ELSE "missing", cite[v])
  /\ ReaderOnly

\* GET /documents/{id}/image: the row, then the object its image_key names.
LookupDocument(v) ==
  /\ up
  /\ seen[v] = "idle"
  /\ \E i \in Ids : rows[i] \in Images /\ Holds(v, "fetch", i)
  /\ ReaderOnly

FetchImage(v) ==
  /\ up
  /\ seen[v] = "fetch"
  /\ Holds(v, IF objects[cite[v]] # NoFile THEN "found" ELSE "missing", cite[v])
  /\ ReaderOnly

Close(v) ==
  /\ seen[v] = "found"
  /\ Holds(v, "idle", NoId)
  /\ ReaderOnly

----------------------------------------------------------------------------

Handler(r) ==
  \/ ResolveDependencies(r) \/ RejectUpload(r) \/ ResumeBody(r)
  \/ Analyse(r) \/ HeadBucket(r) \/ CreateBucket(r) \/ PutObject(r)
  \/ SaveRow(r) \/ Raise(r) \/ RaiseAfterEffect(r)
  \/ LookupCollection(r) \/ CreateCollection(r) \/ UpsertBatch(r)
  \/ FinishIndex(r) \/ IndexFails(r) \/ BuildGraph(r) \/ Respond(r)

Reader(v) ==
  Ask(v) \/ ReadContract(v) \/ LookupDocument(v) \/ FetchImage(v) \/ Close(v)

Next ==
  \/ \E r \in Requests : Submit(r) \/ Handler(r)
  \/ \E v \in Viewers : Reader(v)
  \/ Crash
  \/ Restart

Spec == Init /\ [][Next]_vars

\* The server keeps running the handlers it has started.  Nothing is assumed
\* of clients, of crashes, or of a restart.
FairSpec == Spec /\ \A r \in Requests : WF_vars(Handler(r))

----------------------------------------------------------------------------
(* Properties.                                                             *)

Labels == {"idle"} \union Active \union Ended

\* Every variable has its type; in particular no contract has more batches
\* of chunks in Qdrant than a contract can have.
TypeOK ==
  /\ pc \in [Requests -> Labels]
  /\ file \in [Requests -> Files \union {NoFile}]
  /\ id \in [Requests -> Ids \union {NoId}]
  /\ rag \in [Requests -> BOOLEAN]
  /\ graph \in [Requests -> BOOLEAN]
  /\ loop \in Requests \union {NoRequest}
  /\ counted \subseteq Ids
  /\ up \in BOOLEAN
  /\ crashes \in 0 .. MaxCrashes
  /\ bucket \in BOOLEAN
  /\ objects \in [Ids -> Files \union {NoFile}]
  /\ rows \in [Ids -> Files \union {NoFile}]
  /\ collection \in BOOLEAN
  /\ chunks \in [Ids -> 0 .. MaxBatches]
  /\ nodes \in [Ids -> Files \union {NoFile}]
  /\ seen \in [Viewers -> {"idle", "cited", "fetch", "found", "missing"}]
  /\ cite \in [Viewers -> Ids \union {NoId}]

\* A row never points at nothing: whatever the order of failures and crashes,
\* the object a row's key names is in MinIO and is the file that row
\* describes (put_image comes before save_document and save_contract).
RowHasObject == \A i \in Ids : rows[i] # NoFile => objects[i] = rows[i]

\* Whatever /ask can cite can be opened: a contract id with a chunk in Qdrant
\* or a node in Neo4j has its row in SQLite, and the node describes the same
\* contract as the row (index_contract and build_contract run only after
\* save_contract returned).
CitationsResolve ==
  \A i \in Ids :
    /\ chunks[i] > 0 => rows[i] \in Pdfs
    /\ nodes[i] # NoFile => rows[i] \in Pdfs /\ nodes[i] = rows[i]

\* An upload that was answered with an error left nothing a reader can find:
\* no row, no chunk, no node.  A failure of the two best-effort stores comes
\* after the row and so must not turn into an error.
FailureLeavesNoRecord ==
  \A r \in Requests :
    pc[r] = "failed" /\ id[r] # NoId =>
      rows[id[r]] = NoFile /\ chunks[id[r]] = 0 /\ nodes[id[r]] = NoFile

\* ensure_bucket and ensure_collection look and then create.  Nobody else
\* creates between the two, because the body holds the event loop: the check
\* is still true when it is acted upon.
ChecksStillHold ==
  \A r \in Requests :
    /\ pc[r] = "makeBucket" => ~bucket
    /\ pc[r] = "makeCollection" => ~collection

\* No reader gets a 404 for a contract an answer cited, or for the image of a
\* document whose row it has just read.
NoDanglingRead == \A v \in Viewers : seen[v] # "missing"

\* Every upload that reaches the server is answered or lost in a crash: no
\* request waits forever for the event loop or inside a handler.
EveryUploadEnds == \A r \in Requests : pc[r] \in Active ~> pc[r] \in Ended

\* A chunk or a node makes a contract searchable; a 200 confirms an upload.
Searchable == {i \in Ids : chunks[i] > 0 \/ nodes[i] # NoFile}
Confirmed == {i \in Ids : \E r \in Requests : pc[r] = "done" /\ id[r] = i}

Reg == INSTANCE Registry WITH
  Uploads <- Files,
  None <- NoFile,
  registered <- rows,
  searchable <- Searchable,
  confirmed <- Confirmed

\* The upload endpoints implement the append-only register: rows are written
\* once, under ids no row had, and never changed, and an id is searchable or
\* confirmed only when its row exists, and stays so, through every failure
\* and crash.
ImplementsRegistry == Reg!RegSpec

----------------------------------------------------------------------------
(* The inductive invariant behind the safety properties.                   *)

\* The event loop belongs to exactly the request whose body is running.
LoopInv == \A r \in Requests : pc[r] \in Body <=> loop = r

Identified == (Body \ {"ingest"}) \union {"done"}
Stored == {"save", "done", "build", "record"} \union Indexing
Saved == Stored \ {"save"}

\* What each request has been given by the time it is where it is: a file, an
\* id that no other request has, and stores only for a contract.
RequestInv ==
  /\ \A r \in Requests : pc[r] # "idle" => file[r] \in Files
  /\ \A r \in Requests :
       /\ pc[r] \in Identified => id[r] \in Ids
       /\ pc[r] \in {"idle", "ingest"} \union Waiting => id[r] = NoId
  /\ \A r, q \in Requests : r # q /\ id[r] = id[q] => id[r] = NoId
  /\ \A r \in Requests :
       /\ pc[r] \in {"idle", "resolve"} => ~rag[r] /\ ~graph[r]
       /\ rag[r] \/ graph[r] => file[r] \in Pdfs
       /\ pc[r] \in Indexing => rag[r]
       /\ pc[r] = "build" => graph[r]

NothingUnder(i) == rows[i] = NoFile /\ chunks[i] = 0 /\ nodes[i] = NoFile

\* What the stores hold for each id, by where the request with that id is.
StoreInv ==
  /\ \A i \in Ids : Fresh(i) => NothingUnder(i)
  /\ \A r \in Requests :
       /\ pc[r] \in {"head", "makeBucket", "put", "save"} => NothingUnder(id[r])
       /\ pc[r] \in Stored => objects[id[r]] = file[r]
       /\ pc[r] \in Saved => rows[id[r]] = file[r]

\* What a reader holds is still there.
ReaderInv ==
  \A v \in Viewers :
    /\ seen[v] = "cited" => cite[v] \in Ids /\ rows[cite[v]] \in Pdfs
    /\ seen[v] = "fetch" => cite[v] \in Ids /\ rows[cite[v]] \in Images

\* Together they are preserved by every step.
IInv ==
  /\ TypeOK
  /\ LoopInv
  /\ RequestInv
  /\ StoreInv
  /\ ReaderInv
  /\ RowHasObject
  /\ CitationsResolve
  /\ FailureLeavesNoRecord
  /\ ChecksStillHold
  /\ NoDanglingRead

====
