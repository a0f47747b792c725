# DocIntel: models and proofs

DocIntel turns receipt images and contract PDFs into structured records and
answers questions about the contracts. This directory holds TLA+ models of its
service, of its page, and of how its models are trained and delivered,
translated from `src/docintel/src/docintel/` (paths below are relative to it
unless they start with `src/` or `notebooks/`, which is
`src/docintel/notebooks/`).

## 1. The system

One uvicorn process serves a FastAPI application. `async def` handlers run on
its single event loop; `def` handlers and `def` dependencies run in worker
threads. Four stores outlive the process: MinIO (uploads), SQLite (records),
Qdrant (chunks of contracts) and Neo4j (expiration and renewal facts).

| Part | State it keeps | Operations | What makes it correct |
| --- | --- | --- | --- |
| Upload endpoints (`api/routes/extract.py`, `contracts.py`, `storage/`) | objects in MinIO, rows in SQLite | analyse, store the upload, store the row, index, build the graph | a row has its object; what can be cited can be opened; an error leaves no record; best-effort stores never fail an upload |
| Vector index (`rag/chunk.py`, `index.py`, `store.py`) | one collection of chunks in Qdrant | ensure the collection, upsert batches, search | no chunk of a contract without its row; stable ids; chunks cover the text |
| Knowledge graph (`graph/`) | Contract, Date and ClauseType nodes in Neo4j | MERGE one contract, run one of two templates | at most one expiration per contract; the same answers as the in-memory store |
| Question answering (`api/routes/ask.py`, `rag/answer.py`) | none of its own | route, retrieve, rerank, generate or degrade | a citation stays in the scope it was asked for; a store that is down is a 503 |
| Agent (`agent/`, `api/routes/agent.py`) | the LangGraph state of one run; the tracer shared by all runs | route, retrieve, generate, critique, one bounded retry edge | every run ends; the answer rests on the citations beside it; evidence is not missed |
| Application state (`api/main.py`, the `get_*` and `ensure_*` dependencies) | `app.state`: engines, clients, stores, tracer | build on first use, close at shutdown | what a handler uses is there; a failing first build never takes away what another request cached |
| KIE decoding and validation (`kie/backend.py`, `kie/decode.py`, `schema.py`, `validation/rules.py`) | none: one pass over the tokens, one over the words | one label per word, group words into items and spans, choose a span, parse money, reconcile | words keep their own label, item and span; a scalar field that was found has a value or a warning; what is ok adds up |
| Contract extraction (`contracts/`) | none: functions | pick the ingestion path, decode spans per window, rank | spans lie in the text, the best ones are kept |
| UI (`ui/`) | the session's last contract id | extract, ask, run the agent, with a timeout | the id is the one the server confirmed last; a scoped answer is about it; nothing is sent twice |
| Contract model (`contracts/train_qa.py`, `notebooks/cuad_finetune`, `cuad_onnx_export`) | checkpoints on Drive; runs, versions and directories on the runtime | train, resume, save, register, export | a training that is cut goes on; a version is a finished training; an export is of its version |
| KIE model (`kie/train.py`, `kie/import_run.py`, `optimize/`, `kie/backend.py`) | the bundle, the registry, the working directories, the service's model directory | train, import, export, score, register, download, load | a version is of one training; a registered model and its scores are of the source they name; what serves is what was configured |
| Evaluation (`*/eval.py`, `scripts/`) | none | score functions and reports | sequential scripts |

### How the parts interact

- **Through the stores.** An upload writes MinIO, then SQLite, then (contracts
  only) Qdrant and Neo4j. `/ask` and `/agent` read Qdrant and Neo4j and cite
  contract ids; `/contracts/{id}` and `/documents/{id}/image` turn an id into a
  row and a row into an object. No transaction spans two stores: the order of
  the calls is the only thing that keeps them consistent.
- **Through `app.state`.** Every endpoint takes its models and clients from one
  cache that the first requests fill, from several worker threads at once,
  without a lock.
- **Through the event loop.** After `await file.read()` an upload handler runs
  to its end without another await: OCR, inference and all store calls block
  the loop, and every other `async` body waits. The plain `def` endpoints
  (`/ask`, `/agent`, the readers) go on beside it.
- **Through the shared tracer.** All runs of `/agent` use one Langfuse handler,
  which remembers the last trace only.
- **Over HTTP.** The UI is a client of the API with a timeout of its own. The
  server does not notice that a client has given up.
- **Through MLflow.** Training registers a bundle, the benchmark and the export
  read one version and register another model, the service downloads one
  version into a directory when a first request needs it.

### What is hard here

Crashes and failing calls between two stores; calls whose effect happens and
whose reply is lost; readers that come between two writes; look-then-create
pairs (`ensure_bucket`, `ensure_collection`, every cached dependency); a retry
edge that has to be bounded and has to change something; state merged from one
pass of the agent into the next; a shared "last trace"; a container whose file
system does not outlive it; a page that is run anew, from the top, whenever its
user acts; runtimes that are cut at any moment and directories that keep what
was in them. `PROJECT.json` lists each hazard at its line with
the properties that are about it.

## 2. Modules

| Module | Models | Composes |
| --- | --- | --- |
| `Registry` | what the upload endpoints promise: an append-only register | |
| `Extraction` | both upload endpoints, the four stores, the reading endpoints, crashes | refines `Registry` |
| `Redeploy` | `docker-compose.yml`: the api container is recreated | extends `Extraction` |
| `Agent` | the LangGraph machine of `/agent` beside the stores and the tracer | |
| `AppState` | the cached dependencies of all five kinds of endpoints | |
| `GraphMemory` | what a graph store promises: the dictionary of `InMemoryGraphStore` | |
| `GraphStore` | Neo4j: date rules, the upsert statement clause by clause, the templates | refines `GraphMemory` |
| `Ask` | the `/ask` handler beside uploads, midnight and other calls | extends `GraphMemory` |
| `Receipt` | a receipt from the labels of its tokens to its validated document | |
| `Contract` | a contract from its pages to its clauses and chunks | |
| `UiSession` | the Streamlit page in any number of sessions, and the upload endpoint as its register | extends `Registry` |
| `Training` | fine-tuning and export of the contract model, on runtimes that are cut | |
| `Delivery` | the KIE model from its training to the service that loads it | |
| `Extraction_proofs`, `Agent_proofs`, `AppState_proofs`, `GraphStore_proofs`, `Ask_proofs`, `UiSession_proofs` | the theorems about the module each is named after | extend those |
| `Cuad_proofs` | the theorems about the contract model: `Contract` and `Training` | extends both |
| `Kie_proofs` | the theorems about the receipt model: `Receipt` and `Delivery` | extends both |
| `MC*` | instances for TLC | extend those |

A definition whose comment starts with "Faulty variant" is not part of any
specification: it is the definition after it with a plausible bug, and each
shows that some property would notice that bug.

### Extraction

| Variable | In the code |
| --- | --- |
| `pc`, `file`, `id`, `rag`, `graph` | the local state of one call of `extract` or `extract_contract`: where it is, the upload, `doc_id`, and whether `get_rag_store_optional` and `get_graph_store_optional` returned a store |
| `loop` | who runs on the event loop between its await and its return |
| `counted` | the Prometheus counters of `api/metrics.py`, by document |
| `up`, `crashes` | the process |
| `bucket`, `objects` | MinIO: the bucket, and the object under each key (a key is made from the id) |
| `rows` | SQLite: `documents` and `contracts`, by id |
| `collection`, `chunks` | Qdrant: the collection, and how many batches of each contract it holds |
| `nodes` | Neo4j: the `Contract` node of each id |
| `seen`, `cite` | a client that asks, follows a citation, or opens an image |

The actions of a handler follow its source from top to bottom: `Submit`,
`ResolveDependencies`, `RejectUpload` (415, 413, 400), `ResumeBody` (the await
returns), `Analyse` (OCR, model, decoding, a new uuid4), `HeadBucket`,
`CreateBucket`, `PutObject`, `SaveRow`, `LookupCollection`, `CreateCollection`,
`UpsertBatch` (one per call of `upsert`), `FinishIndex`, `BuildGraph`,
`Respond`. `Raise` ends the request with a 500 at any call up to the row;
`RaiseAfterEffect` does so when MinIO had already done what it was asked;
`IndexFails` is the `except Exception` around indexing, with or without the
effect of the call that failed; `BuildGraph` includes the one around the graph.
`Crash` loses everything in the process; `Restart` starts it again. A file
stands for all its content: what OCR and the models make of it is not modelled.

`Registry` is the abstract specification. Under the mapping in `Extraction`
(`registered <- rows`, an id is searchable if it has a chunk or a node, and
confirmed if a client got a 200 for it) only `SaveRow` registers, only
`UpsertBatch`, `IndexFails` and `BuildGraph` make an id searchable, only
`Respond` confirms; every other step is a stutter.

### Redeploy

Adds the one step `Recreate`. Three stores are named volumes; the SQLite file
is in the container, so a new container starts with an empty one. Chunks and
nodes of a contract stay, and go on to be cited.

### Agent

| Variable | In the code |
| --- | --- |
| `pc` | the node of the compiled graph that runs next |
| `task`, `scope`, `hasGraph`, `hasLlm`, `traced` | the arguments of `run_agent`: task, `contract_id`, and which of graph store, model and tracer exist |
| `target`, `citations`, `answer`, `retries`, `fallback`, `steps` | the keys of `AgentState` (`route`, `citations`, `answer`, `retries`, `graph_fallback`, `steps`) |
| `lastTrace`, `traceId` | the handler's `last_trace_id`; the `trace_id` of each response |
| `indexed`, `expiring` | Qdrant and Neo4j as the agent sees them |
| `known` | history only: what was indexed when a run started |

`Route`, `RetrieveGraph` and `RetrieveVector`, `Generate` and `Degrade`,
`Retry` and `Finish` are the four nodes, split where a node branches; the
conditional edge is in `Retry` and `Finish`. `Start` resolves the dependencies
and opens the trace, `Respond` maps the final state to the response. `Raise` is
a store or a dependency that raises: no handler is between it and the client.
An answer is the set of citations its prompt contained. `Index` and
`MoveWindow` are the uploads and the calendar: they change the stores at any
time.

### AppState

`Needs` lists the dependencies of each kind of endpoint in the order FastAPI
resolves them. `cache` is `app.state`, `assigned` and `loaded` are the
attribute and the flag of the reranker (the only part the lifespan does not
initialise), `registered` is what fastembed knows and `marked` the module-level
set `_registered_custom_models`. A request looks (`Hit`, `Miss`), builds
(`Build`, `BuildFails`; for the vector store with a local model `Check`,
`Register`, `Refuse`, `Mark` come first), caches (`Store`, `SetFlag`) and goes
on to its next dependency. An instance is named after the request that built it.

### GraphStore and GraphMemory

`contractNodes`, `expiresOn` and `hasClause` are the nodes and relationships of
the database as committed; `tx` is the working copy of the one upsert that can
be running, with the rows its `OPTIONAL MATCH` found and that the two `FOREACH`
clauses still have to run for; `answered` is the result of the last template.
`BeginUpsert` is `MERGE`, `OPTIONAL MATCH` and `DELETE`, `MergeFacts` runs the
two `FOREACH` clauses for one row, `Commit` publishes the copy, `Abort` is a
driver or database that fails. `BuildGraphContract` projects the clauses of a
document: a text is the list of dates it mentions, each with its form and day,
and `ParseIsoDate` tries the three forms in the order of `normalize.py`.

`GraphMemory` has one variable for the dictionary and one for the last answer.
In the refinement the dictionary is read off the committed relationships; the
facts that may be upserted are those of the documents, so an upsert that was
visible half done, with the old facts gone and the new ones not yet there,
would be no step of it.

### Ask

| Variable | In the code |
| --- | --- |
| `pc` | the call that the handler makes next |
| `question` | what router, window and search take from the question and the request |
| `tools` | which of the graph store and the reranker the dependencies returned |
| `found`, `citations` | the candidates of the search, the citations of the answer |
| `indexed`, `data`, `today` | Qdrant, the graph (as `GraphMemory`), the calendar |
| `known`, `sent` | history only: what was indexed, and the date, when the call was sent |

`Route`, `QueryGraph`, `Search`, `Rerank`, then `Generate` or `Degrade`;
`Unavailable` is the 503 of either path. A search returns the best of the
chunks in scope by one score, the reranker keeps the best by another.

### Receipt

| Variable | In the code |
| --- | --- |
| `receipt` | what OCR, tokenizer and model yield: the texts of the words, and for each token its word, label and confidence |
| `token`, `predictions` | `words_from_token_logits`: the position, and the list it builds (`Seen` is its set) |
| `items`, `itemOf` | `_collect_spans`: `len(items)`, and the row each word was appended to |
| `spans`, `spanOf` | `scalar_spans`: how many spans each field has, and the span each word was appended to |
| `document`, `report` | the results of `build_document` and `validate` |

`LabelToken` and `CollectWord` are one turn of the two loops; `BuildDocument`
chooses a span for each field, joins and parses; `Validate` runs the rules.
A text is a sequence of digits, separators and other symbols, so `ParseMoney`
is the function of the code, in hundredths. Names, quantities, unit prices and
the currency are dropped after their words are grouped: no rule reads them.

### Contract

| Variable | In the code |
| --- | --- |
| `pdf` | the upload: what the text layer and OCR give for each page |
| `source`, `page`, `text` | `ingest_pdf`: the path it chose, the pages read, the text they are joined to |
| `asked`, `window`, `spans`, `clauses` | `extract` and `_run_question`: the questions answered, the windows of the next one, the spans of those windows, the clauses so far |
| `chunking`, `chunks`, `taken`, `position`, `index` | the settings and the local variables of `build_chunks` and `_paragraph_chunks` |
| `logits` | history only: what the model answered in the windows of the last question |

`SelectSource`, `ReadPage` and `FinishPages` are `ingest_pdf`; `AskWindow` is
one turn of the loop over windows, with `best_spans_from_window` in it,
`AggregateClause` its end; `ChunkClause` and `ChunkParagraph` are the two loops
of `build_chunks`. A text is letters and blanks. The model may answer any of
`Logits` in each window, whatever it scores the question and the padding; of
equal scores any order may come out of `argsort`.

### UiSession

| Variable | In the code |
| --- | --- |
| `tab`, `pressed` | the one run of the script a session is in: the tab whose call came last, and the buttons that return True in this run |
| `acted`, `acts` | what the user acts on meanwhile, which Streamlit collects for the next run; how often (a bound, and history for `RowsWithinPresses`) |
| `net`, `payload` | the `httpx` call of the tab, and what `_scope_id()` put into it |
| `contractId` | `st.session_state["contract_id"]` |
| `shown` | the scopes of the answers on the page |
| `uploads`, `fate` | history: which uploads the session sent, and what it made of each |
| `handler`, `registered`, `searchable`, `confirmed` | the server: how far it is with an upload, and the register of `Registry` |

`Rerun` is Streamlit: it waits for the HTTP call to end, but no longer, and
starts the script from the top; the result of the call is dropped if the
script had not read it. `FetchHealth`, `PostExtract`, `PostQuestion` and
`PostGraphQuestion` are the calls of the tabs in the order of `main`;
`ReturnResponse` and `ReturnError` end a call, the error at any moment, because
it may be the timeout; `ShowContract`, `ShowAnswer` and `ShowError` are what
follows it. `Save`, `Answer` and `Fail` are the endpoint in as much detail as
the register has; its stores are `Extraction`'s matter.

### Training

| Variable | In the code |
| --- | --- |
| `gpu`, `stage` | the Colab runtime, and the last cell of the notebook that succeeded |
| `doing`, `step` | where `run_qa_training` is, and the `global_step` of the trainer |
| `drive` | the `checkpoint-*` directories in `CHECKPOINT_DIR`: none, partial, whole |
| `runs`, `versions` | the runs of `cuad-qa` in the file store with their `bundle`, and the runs registered as `cuad-extractor` |
| `bundle` | the directory `cuad-extractor-bundle`, which both notebooks use |
| `onnx`, `exports`, `served` | the fp32 and int8 directories, the runs of `cuad-onnx-export`, and those registered as `cuad-extractor-onnx-int8` |
| `reached`, `fresh`, `bad` | history: the last whole checkpoint; whether this runtime made one; failures so far (a bound) |

`StartTraining` looks for a checkpoint and starts a run, `TrainStep` and
`FinishCheckpoint` are the trainer, `SaveModel`, `SaveMetrics` and `LogBundle`
the rest of the cell; `Register`, `Download`, `ExportFp32`, `Quantize`,
`LogExport` and `RegisterExport` are one cell each. `Cut` takes the runtime and
its disk, `Raise` and `CellFails` end a cell half-way. Weights are named after
the run that saved them and the steps they were trained for.

### Delivery

| Variable | In the code |
| --- | --- |
| `trained`, `saving`, `bundle` | the trainings begun, how far `save_bundle` is, and the bundle directory: of each file, the training it comes from |
| `unzipped`, `versions` | the directory that `import_bundle` reads, and the versions it registers under each name |
| `bench`, `source`, `work`, `scores`, `onnx` | `run_benchmark.main`: its last step, the model it is run on, the directories under `--work-dir`, what it measured, and the versions it registers |
| `pin`, `local` | `kie_onnx_model_version` and `kie_onnx_local_path` |
| `dest`, `opener` | `data_dir/models/<name>`: of each file, the version it comes from, and the request that opened, and so truncated, it last |
| `loader`, `backend` | each first request in `get_kie_backend`, and `app.state.kie_backend` |

`RunTraining`, `SaveBundle` (a file per step), `DownloadZip`, `ImportBundle`
(under the registered name that the settings have at the time), then
`BeginBenchmark`, `DownloadRegistered`, `ExportOnnx`, `QuantizeInt8`, `Evaluate`,
`RegisterOnnx`. The benchmark is always run on version 1 of the model named by
the settings (`SourceVersion`), and `--work-dir` is the same for every name, so
the directories may hold what a benchmark of another name left.
`TrainingFails` and `BenchmarkFails` stop either anywhere, with any part of what
the step was writing. `OpenFile` and `CloseFile` are the two ends of writing a
downloaded file. Opening truncates it, also under another thread that is
writing it; this one goes on at its own offset. So a file is whole when the
thread that truncated it last has written all of it; when only others have, it
may be of full length with a gap of zeros (`Holed`). `ReadLabels`, `OpenSession`
(of a graph that is there: a gap may lie among the weights, where nothing
notices), `LoadRaises` and `KeepBackend` are the rest of `load` and of
`get_kie_backend`; `DownloadFails` is the registry that does not answer, or the
hub, from which the processor is loaded last. The contract extractor
(`contracts/extractor.py`) is loaded in the same way, with a tokenizer in the
place of the labels.

## 3. What is checked

| Run | Question | Bounds |
| --- | --- | --- |
| `extraction` | Are the four stores consistent at every moment, is the register implemented, and does every started upload end? | 2 uploads, 2 ids, 3 files (a contract of two batches, one without text, a receipt), 2 crashes, 1 reader |
| `redeploy` | Is a contract that is still cited readable after a redeployment? (no) | 1 upload, 1 crash |
| `agent` | Is the retry loop bounded, does the answer fit its citations, is evidence found? | 1 run, 2 contracts, 2 tasks, 2 retries |
| `agent_degrade` | Does the agent degrade when a store fails? (no) | 1 run |
| `app_state` | Is the cache safe to fill from several threads? | 2 requests of any kind, 3 of 4 optional parts on, the local model |
| `graph_store` | Is the Cypher store equivalent to the in-memory one? | 2 contracts, 3 documents, 3 days |
| `ask` | Does a question get enough citations, of its scope and of today? | 1 call, 2 contracts, 2 chunks, 2 days, 5 questions |
| `receipt` | Does what the labels say reach the document or its report, and does an ok document add up? | up to 4 words of 11 kinds, 17,480 receipts |
| `contract` | Are clauses the best spans of the contract, and do chunks leave nothing out? | 3 contracts of up to 5 characters, 2 questions, windows of 3 tokens, 6 answers, 3 chunk settings |
| `ui` | Do the id and the answers of a page belong together, and is nothing uploaded twice, whatever the user, the network and the server do? | 2 sessions, 2 uploads and 2 acts (1 for the second session), 2 ids |
| `training` | Does a training end although its runtimes are cut, and is what is registered what it says? | 7 steps, a checkpoint every 2, 2 kept, 3 runs, versions and exports, 2 failures |
| `delivery` | Is a KIE version of one training, its export scored as what it is, and the configured one loaded? | 2 trainings, 2 registered names, 2 versions of each model, 2 failures, 2 first requests |

**Extraction.** `RowHasObject`: a row never points at a missing object, in any
order of failures and crashes. `CitationsResolve`: what `/ask` can cite has its
row, and the node describes the same contract. `FailureLeavesNoRecord`: a
client that got an error has left nothing a reader can find. `ChecksStillHold`:
the two look-then-create pairs never act on a stale look; this is what the
event loop gives, and plain `def` handlers would not. `NoDanglingRead`: a
reader in a worker thread never gets a 404 for what it was just shown.
`ImplementsRegistry` is the refinement, `EveryUploadEnds` the liveness.

**Agent.** `RunIsBounded`: at most `4 + 3 * MaxRetries` nodes run.
`AnswerFitsCitations`: an answer in a response never belongs to a pass whose
citations a retry has replaced. `NoMissedEvidence`: with a retry allowed, an
empty response means that nothing in scope was indexed when the run started.
`ChunksInScope`: a scoped run cites no chunk of another contract. (It may cite
*graph* facts of other contracts: the two templates ignore the scope, as
`graph/query.py` does.) `EvidenceIsFound` is the liveness.

**AppState.** `AttributeBehindFlag`: who sees the flag of the reranker finds
the attribute. `RefusalsEnd`: once fastembed has the model, only a request that
looks at the set of names before the very next step of the one that registered
it is sent on to register it again. It does not say that no one is refused: of
two first requests that both looked before, the second is, however late it gets
to it, although the docstring calls the function idempotent. `CachedStays`: an
overlapping first build that fails never replaces a cached part by None; the
reranker and the tracer are excepted, because their builders return None on
failure and it is cached. `HandlersAreEquipped`: no handler runs without a part
it cannot do without, whichever request built it.

**GraphStore.** `OneFactEach`: a contract never has two expirations or two
renewals, although the statement runs its merges once per old relationship.
`ImplementsMemory` is the refinement: queries see the old facts or the new ones.

**Ask.** `EnoughCitations`: a question gets as many citations as it asked for,
or all that its scope had when it was sent, with a reranker as without.
`WindowIsCurrent`: the
graph's window starts on the day of the query, whatever midnights pass. (That
0 days mean the default is in `Within`, which model and property share.)

**Receipt.** `FirstTokenWins`: each word keeps its own text and the label of its
first token, wherever the tokenizer cut. (Words that were cut off are missing,
and nothing reports them.) `WordsAreGrouped` says of the labels
alone which words belong to one item and which to one number, without the
"current item" and "last span" that the walk keeps. `FieldsAreReported`: a
scalar field with a span that is a number has a value, one without is in the
report. (The price of a line item that is no number is dropped without a warning.)
`OkReconciles`: the two checks of an ok document bound the difference of items
and total.

**Contract.** `SpansOfContract`: a clause is cut out of the text, never
backwards, empty or too long. That its offsets are not those of a token of the
question, which may lie inside the text as well, is a matter of `BestSpansFound`: it says
what the decoding finds against the exhaustive definition: every admissible
answer above the threshold is a clause, unless `NBest` clauses are as good or
`NBest` tokens of the window crowd out one of its ends. The second exception is
real: `best_spans_from_window` pairs only the `n_best` starts with the `n_best`
ends, and an answer that is lost in this way is outside the property.
`PassagesAreWhole`: no letter is left out and no passage
of up to one character more than the overlap is cut, to the end of the text.

**UiSession.** `IdIsLatestTold`: the id a session keeps is a confirmed one, of
the latest of its own uploads that it was told of; a timed-out upload that the
server saves all the same, a failed one and one whose answer a rerun dropped
leave it alone. `AnswersMatchId`: a restricted answer on the page is about this
id, also when Extract and Ask were pressed for the same run. (A rerun clears `shown`
at once; what Streamlit still displays, greyed, until the new run replaces it
is not in it.) `RowsWithinPresses`:
no rerun and no timeout sends a file again. `EveryRunEnds` is the liveness: the
server may never answer.

**Training.** `VersionsAreTrained`: a registered version went through the whole
schedule and has its own metrics. `ProgressIsKept`: no step before the last
whole checkpoint is trained twice, and the limit never deletes that checkpoint.
`ExportsAreOfVersion`: what is registered for serving are the weights of the
version its run names, over any left-over directory. `TrainingEnds`: if each
runtime completes a checkpoint before it is cut, the training ends, for any
number of cuts. There is one exception, which the property names (`Blocked`): a
runtime that is cut, or a cell that raises, while it writes a checkpoint leaves
a directory that `find_last_checkpoint` prefers to the whole one beside it, and
no later run gets past it. `Blocked` is false while a checkpoint is being
written, so an ordinary save does not make the property true.

**Delivery.** `VersionIsWhole`: all files of a version come from one training,
although each training writes over the directory of the last and may raise in
between. (A broken-off unzip is not modelled.) `OnnxIsOfSource`: a registered
ONNX model is of the model that its run names, and so is each of the three
scores logged beside it, on samples encoded by that model's own bundle, whatever
benchmarks of other models left in the directories. `LoadedIsPinned`: what
serves has the labels and the graph of the configured version, although the
directory keeps files of earlier configurations and of downloads that broke
off, and other requests write into it. One case is excepted by name: if first
requests overlap and one breaks off, the graph of the other may have a gap and
is served with it, until the service is restarted. `OneOfThemLoads`: two first
requests may make each other fail, but not both: where registry and hub
answered, one has loaded the backend by the end.

### Bounds, and why they are enough

Requests interact pairwise, over the loop, the stores and the cache: two of
them show every order of two bodies, two looks and two builds. Two crashes
allow a crash while the consequences of an earlier one are still visible. Two
batches are the fewest that can stop half way; a contract without text gives
the case of none. One reader is enough because readers change nothing. For the
agent, runs share only the tracer, so its invariants need one run beside
stores that change at any time; two retries
distinguish the first retry, which sets the fallback, from a later one, which
finds it set. The three documents of the graph have an expiration and a
renewal, an expiration alone, and a renewal alone, so each upsert can follow
each other one; the dates include one that does not exist and two forms in one
text. Calls of `/ask` share nothing but the stores, so one call beside stores
that change at any time stands for all. Four words are the fewest for a
document that is ok with an item, its price, a subtotal and a total, and for
two spans of one field with a word of another between them. The kinds of words
include a number with a decimal separator, a total without digits, and a name
that goes on; the confidence rises or falls, so that the surest span may be the
first, the last, or no number. For contracts,
a text of five tokens has two windows that share one, which is enough for a
span in either, in both, or over the edge; two of three tokens kept, `NBest`,
leave one out that the answer may need; the chunk settings have an overlap that
is smaller than the chunk, none, and one that is larger.
Two browser sessions share nothing but the register, and two uploads of one of
them are an earlier and a later one. Seven steps with a checkpoint at every
second and at the last give a checkpoint to delete and a last step that is no
multiple; three runs are one that fails, one that succeeds and one more; a
runtime that completes a checkpoint may be cut without counting as a failure, so
cuts are not bounded. Two trainings, names, versions and first requests are the
fewest that can be mixed up; the service of `Delivery` is looked at when both versions
are there, since it only reads one that stays.
The theorems below hold for all values of these constants.

Symmetry is used in `app_state` (requests) and `delivery` (first requests and
names), which check no liveness, over sets that no definition tells apart. `CHECK_DEADLOCK FALSE` is set
because each client makes a bounded number of requests, and each notebook a
bounded number of runs: when all are done, the system rests. Of the type
invariants, no run lists one: each is part of the inductive invariant of its
module, which is a theorem.

### Fairness

`FairSpec` of `Extraction` is weak fairness of each started handler, `FairSpec`
of `Agent` of each started run: the server goes on with what it has started,
because every external call either returns or raises (the model has
`llm_timeout_s`, the clients of the four stores their libraries' timeouts) and
a thread or the loop that is ready is scheduled. Nothing is assumed of clients, of crashes, of a restart, of other
uploads or of the calendar. `EveryUploadEnds` needs no more: a handler that
waits for the loop is continuously enabled once the loop is free, and each body
gives it back after a bounded number of steps.

`Spec` of `UiSession` is weak fairness of each session's script and of its
rerun: Streamlit keeps running the script, and `httpx` ends every call, if only
by its timeout. Neither the server nor the user has to do anything. `TrainingSpec` is weak fairness of the cell that trains, and of the user who starts
the notebook again after a cut, on a runtime that has bf16: that this is worth
doing is what `TrainingEnds` says, so it is an assumption and not a fact of the
code. Failures that are not cuts are bounded by `MaxBad`. `Delivery` has no
liveness.

### Assumptions

- `uuid.uuid4()` does not repeat (`Fresh`).
- One commit of SQLite, one `upsert` of Qdrant, one MERGE statement of Neo4j and
  one `put_object` of MinIO happen entirely or not at all.
- One uvicorn process with one event loop, as the `Dockerfile` starts it.
- A search over chunks returns the best `k` in scope, or all if there are
  fewer (`Agent` needs less: at least one if there is one).
- Neo4j runs a statement as one transaction, and one upsert at a time, because
  the upload that calls it holds the event loop.
- The tokenizer numbers the words in reading order, gives every word that is
  not empty a token, and cuts off only the end.
- Each character of a contract is a token, the windows of one question share
  `Stride` tokens and the last reaches the end (transformers' `stride`); the
  stride is smaller than a window and the chunk size is positive, as configured.
- Streamlit runs one script per session at a time, stops it only at a call of
  its own, and a button is True for the one run that its press started.
- The cells of a notebook are run in its order, and those after a cell that
  raised are not.
- The trainer writes `checkpoint-<step>` at every `save_steps` and at the end,
  resumes at the step of the one it is given, raises if that one is not whole,
  and deletes the oldest when a new one is written (transformers).
- MLflow registers a whole run or raises, and its `download_artifacts` writes
  every file of the version over what is there, opening each for writing, which
  truncates it. A file that several threads write is whole when the one that
  truncated it last has written all of it, since all write the same bytes at
  the same offsets; if that one has not, the others may leave a gap.
- A truncated or missing file cannot be read as a graph or as labels, and labels
  with a gap are no JSON; a graph with a gap may be read or refused.
- fastembed refuses to add a model name it already has; Langfuse's handler
  reports the last trace it opened.

### What the violation runs show

1. `redeploy`: SQLite is not on a volume, so recreating the container loses
   the row of a contract that a client got a 200 for, while its chunks or its
   node are still there and an answer still cites it.
2. `agent_degrade`: no node of the agent catches a failing store, so the
   client gets a 500 where the documents say "degraded".

`PROJECT.json` quotes the lines of the repository each of them contradicts.

`AppState` also shows, without a property of its own, that two first questions
may load the reranker twice: the later write replaces the earlier, and a load
that fails late leaves None for good. The other models show, likewise, that
re-extraction adds a second subgraph (`Extraction`: ids are new at every
upload), that of two overlapping agent runs one may return the other's trace id
(`Agent`), that a later ISO date wins over an earlier date in words
(`GraphStore`), that a ticked "Only the last extracted contract" means all
contracts until one was extracted (`UiSession`), that a finished training which
is started again trains no step (`Training`), and that a model which is trained
again is never exported, unless it is registered under another name, because
the benchmark reads version 1 (`Delivery`).

## 4. What is proved

The proofs hold for any number of requests, runs, files, batches, crashes and
retries, and of words, tokens, windows and checkpoints. Each rests on one inductive invariant (`IInv`, `GraphInv`, `AskInv`,
`ReceiptInv` and `DocumentInv`, `ContractInv` and `AnswersInv`, `TrainingInv`,
`DeliveryInv`, `UiInv`), which contains the type invariant, and on
the named assumption on the constants. TLC was asked about each of them before
it was proved; the runs keep the properties that follow from them.

- **Extraction** (`Extraction_proofs`). `RowHasObject` and its neighbours say
  nothing of where a request is, so they are not inductive: `SaveRow` keeps
  them only because the object was stored before. `StoreInv` says what each
  store holds for an id by where its request is, `RequestInv` that two requests
  never share an id, `LoopInv` that the loop belongs to the one body that
  runs, and `ReaderInv` that what a reader holds is still there. One lemma per
  action shows that `IInv` is preserved; six safety theorems follow.
  `RefinesRegistry` then maps each step to a step of `Registry` or a stutter.
- **Agent** (`Agent_proofs`). `StepsInv` counts the nodes by `pc` and `retries`,
  which bounds the run; `FallbackInv` ties the flag to the counter; `EvidenceInv`
  says that an empty result of the vectors means an empty scope, which needs
  `KnownInv`, that the stores only fill; `AnswerInv` that generation always
  overwrites the answer.
- **AppState** (`AppState_proofs`). `FlagInv` and `RegistrationInv` state the
  order of the two writes in each pair, `MarkInv` that as long as the model is
  registered and not marked some request is about to mark it, `BuiltInv` that
  only a part whose builder returns None on failure, or one that is switched
  off, is about to be cached as None, and `Equipped` that what is resolved is there.
  `RefusalsEnd` and `CachedStays` are action properties: each step keeps them
  because of `MarkInv` and of `BuiltInv`.
- **GraphStore** (`GraphStore_proofs`). `TxInv` says how the working copy
  differs from the graph: only in the facts of its contract, which are gone or
  are the new ones, and are the new ones when no row is left. It makes
  `OneFactEach` inductive, and with it `RefinesMemory` shows that `Commit` is one
  upsert of the dictionary and that both templates return its rows.
- **Ask** (`Ask_proofs`). `PastInv` says that what was indexed when a call was
  sent still is, `EvidenceInv` that from the search on what is found is enough
  and in scope. The argument about the reranker is `TopIsEnough`: the `n` best
  of a finite set are `n` at least or all of it, hence the best `topK` of a pool
  of `topK` or more are enough.
- **Receipt** (`Kie_proofs`), for receipts of any length. `LabelInv` says
  that the words seen are those of the tokens read, which makes `FirstTokenWins`
  inductive; `WalkInv` ties the last item and the last span of each field, which
  the walk knows, to the labels since, which the two properties are about. On
  top of this, `DocumentInv` follows the document: each span has a word
  (`SpansHaveWords`, or a field that was found would have no text), what was
  built is an amount or missing and then noted (`BuiltInv`), and the report
  repeats it (`ReportInv`). `ChosenSpan` is the argument about `build_document`:
  of finitely many spans there is a first among the surest, since means compared
  without a division are ordered (`MeansAreOrdered`), and if any span is a number
  the chosen one is. `OkReconciles` is then arithmetic: two differences within
  the tolerance add up to one within twice of it.
- **Contract** (`Cuad_proofs`), for contracts, windows, settings and answers
  of any size. `SpanInv` follows a span from the offsets of its window: tokens
  that are not masked belong to the text, and their order is that of the text.
  `ChunkInv` says that passages that begin before the next chunk are whole; a
  step keeps this because it advances by no more than the overlap leaves, and
  at the end it is `PassagesAreWhole`. `BestSpansFound` speaks of the moment
  when a question has been answered; `CandidateInv` says the same of the
  candidates of the windows asked so far, with `NBest` candidates that are as
  good in the place of `NBest` clauses. The argument is one about cardinalities:
  who is left out of the `NBest` best of a finite set has `NBest` others above it
  (`BestKeeps`), once among the endpoints (`EndpointKept`), once among the pairs
  of a window, which are as many as their spans because different positions
  have different offsets (`SpansOfPairs`), and once among all candidates
  (`AggregateAnswers`).
- **Training** (`Cuad_proofs`), for any schedule, limit, and number of runs and
  failures. `ProgressIsKept` needs `DriveInv`: a training is never behind a
  checkpoint, so that the rotation deletes older ones than it has just written.
  `VersionsAreTrained` needs `BundleInv`, which follows the bundle while it is
  written, and `VersionInv`, that the run which the next cell registers is that
  of the finished training. In `ExportInv` each cell of the export hands on the
  weights it found, which gives `ExportsAreOfVersion`. The invariant does not
  mention how checkpoints may be cut: none of these properties depends on it.
- **Delivery** (`Kie_proofs`), for any number of trainings, names, versions,
  failures and first requests. `BundleInv` says how much of the bundle is of this
  training and `BenchInv` that each step of the benchmark hands on a model of
  the source of this run, which has a first version that no import replaces.
  `Held` is what makes `LoadedIsPinned` inductive: a file that a request has opened
  is there, or the one that truncated it last is still writing it, or some
  download broke off, and it is never of another version; `LoadInv` adds that
  what was read is configured, but for the gap. `OneOfThemLoads` is about the
  end; `FailInv` says on the way there that whenever a loader has failed, another
  one goes on, has loaded the backend, or had registry or hub fail.

- **UiSession** (`UiSession_proofs`), for any number of sessions, uploads and
  acts. `CallInv` ties an awaited upload to the tab that sent it and an
  answered call to the handler that answered, `ServerInv` says that an upload has
  one row at most and a confirmed one when it is answered, `PageInv` that a
  restricted question or answer has the session's id until the run ends, which
  is where the order of the tabs is needed, and `PressInv` counts: a press is
  collected, then down, then spent on one upload. `RowsWithinPresses` follows by
  an injection of the rows of a session into its uploads.

Also theorems, though no run lists them, because they are steps towards others:
`GraphAskedFirst` (the fallback to the vectors is for good), `SkipIsSafe`,
`ChunksOfScope`, `ChunksAreNumbered`, `WordsShareItems` and `WordsShareSpans`.

Some facts about recursive data are proved, although the library's induction
theorems take an operator that the provers cannot instantiate. `LeastNat`, that a
set of naturals has a least element, is an instance of a theorem about
well-founded relations that takes none; `AllNaturals` and `AllSubsets` are
induction in terms of sets: what holds for the empty set, and for a set if it
does without one element, holds for all subsets. Sums, numbers read from texts
and joined texts are folds of the community modules; `FoldExists` shows that
there is a function with the equations of a fold, which `SumType` and
`NumberType` need; `FlattenSeqType` argues likewise about prefixes. Only what
the properties need is proved of them: a sum of naturals is a natural, what is
read from a text is an amount or nothing, a text that has a word is not empty.
Which amount a text is read as is left to TLC.

Only model-checked: the liveness properties (`EveryUploadEnds`,
`EvidenceIsFound`, `EveryRunEnds`, `TrainingEnds`), which
are beyond this prover, and the two violations. Every other property of the runs
is a theorem.

## 5. What could follow

1. Shutdown in `AppState`: it closes the graph driver that is cached, and one
   that two first requests built and one of them overwrote stays open.
2. Proofs: that `Ask` leaves the graph's dictionary to `GraphMemory`; which
   amount `ParseMoney` reads, and not only that it is one.
3. The hold-out of `scripts/build_embed_pairs.py` against the contracts that
   `scripts/eval_rag.py` scores.

## 6. What is not modelled, and why

OCR, image preprocessing and the inference of the models are numeric code in
libraries: a file stands for its result. The same holds of what a training step
does and of how the data sets are encoded. The evaluation scripts and score
functions keep no state. Of the page, the metrics tab only reads result files,
and how tables and graphs are laid out is left out. Metrics beyond which
documents are counted, logging, settings and health have no state anything
depends on. The wording of prompts and answers is left out: an answer is what
it rests on.
