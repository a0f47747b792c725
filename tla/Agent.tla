---- MODULE Agent ----
(***************************************************************************)
(* POST /agent: the LangGraph state machine                                *)
(*                                                                         *)
(*     route -> retrieve -> generate -> critique -> end                    *)
(*                 ^                       |                               *)
(*                 +------- retry ---------+                               *)
(*                                                                         *)
(* Every run has a state of its own and its own worker thread.  The runs   *)
(* share the two stores, which uploads fill while they run, the language   *)
(* model, which may fail at any call, and the one tracer of the process.   *)
(***************************************************************************)
EXTENDS Naturals, Sequences

CONSTANTS
  Runs,          \* the calls of /agent, each made at most once
  Contracts,     \* the contracts that uploads can index
  Tasks,         \* the tasks a client may send
  GraphTasks,    \* those the rule-based router sends to the graph
  MaxRetries,    \* settings.agent_max_retries
  NoScope, NoAnswer, NoRun

ASSUME ConstantsAssumption ==
  /\ GraphTasks \subseteq Tasks
  /\ MaxRetries \in Nat
  /\ NoScope \notin Contracts
  /\ NoRun \notin Runs

\* What a citation says: a chunk, or a fact of the graph, of some contract.
Citations == [kind : {"chunk", "graph"}, contract : Contracts]
Cite(kind, S) == {[kind |-> kind, contract |-> c] : c \in S}

\* An answer is abstracted to the citations its prompt contained; it is
\* NoAnswer when generation was skipped.
Answers == {NoAnswer} \union SUBSET Citations

VARIABLES
  \* The stores.
  indexed,    \* the contracts with chunks in Qdrant
  expiring,   \* the contracts whose expiration is in the window asked for
  \* Each run: where it is, what it was given, and its AgentState.
  pc,
  task, scope, hasGraph, hasLlm, traced,
  target, citations, answer, retries, fallback, steps,
  \* The tracer of the process, and the trace id each response carries.
  lastTrace, traceId,
  counted,    \* the runs counted in the metrics
  known       \* history: the contracts indexed when each run started

storeVars == <<indexed, expiring>>
inputVars == <<task, scope, hasGraph, hasLlm, traced, known>>
stateVars == <<target, citations, answer, retries, fallback, steps>>
traceVars == <<lastTrace, traceId>>
vars == <<pc, storeVars, inputVars, stateVars, traceVars, counted>>

Nodes == {"route", "retrieve", "generate", "critique"}
Ended == {"done", "failed"}

Init ==
  /\ indexed = {}
  /\ expiring = {}
  /\ pc = [r \in Runs |-> "idle"]
  /\ task \in [Runs -> Tasks]
  /\ scope \in [Runs -> Contracts \union {NoScope}]
  /\ hasGraph = [r \in Runs |-> FALSE]
  /\ hasLlm = [r \in Runs |-> FALSE]
  /\ traced = [r \in Runs |-> FALSE]
  /\ target = [r \in Runs |-> "none"]
  /\ citations = [r \in Runs |-> {}]
  /\ answer = [r \in Runs |-> NoAnswer]
  /\ retries = [r \in Runs |-> 0]
  /\ fallback = [r \in Runs |-> FALSE]
  /\ steps = [r \in Runs |-> <<>>]
  /\ lastTrace = NoRun
  /\ traceId = [r \in Runs |-> NoRun]
  /\ counted = {}
  /\ known = [r \in Runs |-> {}]

Goto(r, node) == pc' = [pc EXCEPT ![r] = node]
Log(r, step) == steps' = [steps EXCEPT ![r] = Append(@, step)]

----------------------------------------------------------------------------
(* The stores, as the uploads (Extraction) and the calendar change them.   *)

Index(c) ==
  /\ indexed' = indexed \union {c}
  /\ UNCHANGED <<expiring, pc, inputVars, stateVars, traceVars, counted>>

\* A contract enters the window when it is built, or by the passing of days;
\* it leaves the window when its expiration date has passed.
MoveWindow(c) ==
  /\ expiring' \in {expiring \union {c}, expiring \ {c}}
  /\ UNCHANGED <<indexed, pc, inputVars, stateVars, traceVars, counted>>

----------------------------------------------------------------------------
(* The run.                                                                *)

\* The dependencies are resolved, and run_agent invokes the compiled graph:
\* the tracer opens a trace for the new root run.
Start(r) ==
  /\ pc[r] = "idle"
  /\ \E g, l, t \in BOOLEAN :
       /\ hasGraph' = [hasGraph EXCEPT ![r] = g]
       /\ hasLlm' = [hasLlm EXCEPT ![r] = l]
       /\ traced' = [traced EXCEPT ![r] = t]
       /\ lastTrace' = IF t THEN r ELSE lastTrace
  /\ known' = [known EXCEPT ![r] = indexed]
  /\ Goto(r, "route")
  /\ UNCHANGED <<storeVars, task, scope, stateVars, traceId, counted>>

Routed(t) == IF t \in GraphTasks THEN "graph" ELSE "vector"

Route(r) ==
  /\ pc[r] = "route"
  /\ target' = [target EXCEPT ![r] = Routed(task[r])]
  /\ Log(r, "route")
  /\ Goto(r, "retrieve")
  /\ UNCHANGED <<storeVars, inputVars, citations, answer, retries, fallback,
                 traceVars, counted>>

UseGraph(r) == target[r] = "graph" /\ ~fallback[r]

\* graph_query_tool: no graph store, no citations; otherwise every contract
\* in the window, whatever the scope.
RetrieveGraph(r) ==
  /\ pc[r] = "retrieve"
  /\ UseGraph(r)
  /\ citations' = [citations EXCEPT ![r] =
                     IF hasGraph[r] /\ Routed(task[r]) = "graph"
                     THEN Cite("graph", expiring) ELSE {}]
  /\ Log(r, "graph")
  /\ Goto(r, "generate")
  /\ UNCHANGED <<storeVars, inputVars, target, answer, retries, fallback,
                 traceVars, counted>>

InScope(r, S) == IF scope[r] = NoScope THEN S ELSE S \intersect {scope[r]}

\* The nearest chunks of some of the contracts in S: at least one, if there
\* are any.
Search(S, found) == found \subseteq S /\ (found = {} => S = {})

\* Faulty variant: the filter on the contract is not passed on.
RetrieveVectorUnscoped(r) ==
  /\ pc[r] = "retrieve"
  /\ ~UseGraph(r)
  /\ \E found \in SUBSET indexed :
       /\ Search(indexed, found)
       /\ citations' = [citations EXCEPT ![r] = Cite("chunk", found)]
  /\ Log(r, "vector")
  /\ Goto(r, "generate")
  /\ UNCHANGED <<storeVars, inputVars, target, answer, retries, fallback,
                 traceVars, counted>>

RetrieveVector(r) ==
  /\ pc[r] = "retrieve"
  /\ ~UseGraph(r)
  /\ \E found \in SUBSET indexed :
       /\ Search(InScope(r, indexed), found)
       /\ citations' = [citations EXCEPT ![r] = Cite("chunk", found)]
  /\ Log(r, "vector")
  /\ Goto(r, "generate")
  /\ UNCHANGED <<storeVars, inputVars, target, answer, retries, fallback,
                 traceVars, counted>>

\* A dependency or a store raises: nothing catches it, the client gets a 500.
Raise(r) ==
  /\ \/ pc[r] = "idle"
     \/ pc[r] = "retrieve" /\ (UseGraph(r) => hasGraph[r])
  /\ Goto(r, "failed")
  /\ UNCHANGED <<storeVars, inputVars, stateVars, traceVars, counted>>

Generate(r) ==
  /\ pc[r] = "generate"
  /\ hasLlm[r]
  /\ answer' = [answer EXCEPT ![r] = citations[r]]
  /\ Log(r, "generate")
  /\ Goto(r, "critique")
  /\ UNCHANGED <<storeVars, inputVars, target, citations, retries, fallback,
                 traceVars, counted>>

\* Faulty variant: a degraded pass leaves an earlier answer in the state.
DegradeKeepsAnswer(r) ==
  /\ pc[r] = "generate"
  /\ Log(r, "generate")
  /\ Goto(r, "critique")
  /\ UNCHANGED <<storeVars, inputVars, target, citations, answer, retries,
                 fallback, traceVars, counted>>

\* No model is configured, or the call to it fails: citations only.
Degrade(r) ==
  /\ pc[r] = "generate"
  /\ answer' = [answer EXCEPT ![r] = NoAnswer]
  /\ Log(r, "generate")
  /\ Goto(r, "critique")
  /\ UNCHANGED <<storeVars, inputVars, target, citations, retries, fallback,
                 traceVars, counted>>

CanRetry(r) == citations[r] = {} /\ retries[r] < MaxRetries

\* Faulty variant: the retry does not set the flag that leads to the vectors.
RetrySameWay(r) ==
  /\ pc[r] = "critique"
  /\ CanRetry(r)
  /\ retries' = [retries EXCEPT ![r] = @ + 1]
  /\ Log(r, "retry")
  /\ Goto(r, "retrieve")
  /\ UNCHANGED <<storeVars, inputVars, target, citations, answer, fallback,
                 traceVars, counted>>

\* Faulty variant: the retry edge leads to the entry point.
RetryFromRoute(r) ==
  /\ pc[r] = "critique"
  /\ CanRetry(r)
  /\ retries' = [retries EXCEPT ![r] = @ + 1]
  /\ fallback' = [fallback EXCEPT ![r] = TRUE]
  /\ Log(r, "retry")
  /\ Goto(r, "route")
  /\ UNCHANGED <<storeVars, inputVars, target, citations, answer, traceVars,
                 counted>>

Retry(r) ==
  /\ pc[r] = "critique"
  /\ CanRetry(r)
  /\ retries' = [retries EXCEPT ![r] = @ + 1]
  /\ fallback' = [fallback EXCEPT ![r] = TRUE]
  /\ Log(r, "retry")
  /\ Goto(r, "retrieve")
  /\ UNCHANGED <<storeVars, inputVars, target, citations, answer, traceVars,
                 counted>>

Finish(r) ==
  /\ pc[r] = "critique"
  /\ ~CanRetry(r)
  /\ Log(r, "finish")
  /\ Goto(r, "respond")
  /\ UNCHANGED <<storeVars, inputVars, target, citations, answer, retries,
                 fallback, traceVars, counted>>

\* run_agent maps the final state to the response, the trace id is the last
\* one of the tracer; the metrics are recorded.
Respond(r) ==
  /\ pc[r] = "respond"
  /\ traceId' = [traceId EXCEPT ![r] = IF traced[r] THEN lastTrace ELSE NoRun]
  /\ counted' = counted \union {r}
  /\ Goto(r, "done")
  /\ UNCHANGED <<storeVars, inputVars, stateVars, lastTrace>>

----------------------------------------------------------------------------

\* One call of the handler, once it is started.
Run(r) ==
  \/ Route(r) \/ RetrieveGraph(r) \/ RetrieveVector(r)
  \/ Generate(r) \/ Degrade(r) \/ Retry(r) \/ Finish(r) \/ Respond(r)

Next ==
  \/ \E r \in Runs : Start(r) \/ Run(r) \/ Raise(r)
  \/ \E c \in Contracts : Index(c) \/ MoveWindow(c)

Spec == Init /\ [][Next]_vars

\* The worker thread of a run that has started keeps running it.
FairSpec == Spec /\ \A r \in Runs : WF_vars(Run(r))

----------------------------------------------------------------------------
(* Properties.                                                             *)

Labels == {"idle", "respond"} \union Nodes \union Ended
StepNames == {"route", "graph", "vector", "generate", "retry", "finish"}

\* Every variable has its type; in particular no run retries more often than
\* agent_max_retries.
TypeOK ==
  /\ indexed \subseteq Contracts
  /\ expiring \subseteq Contracts
  /\ pc \in [Runs -> Labels]
  /\ task \in [Runs -> Tasks]
  /\ scope \in [Runs -> Contracts \union {NoScope}]
  /\ hasGraph \in [Runs -> BOOLEAN]
  /\ hasLlm \in [Runs -> BOOLEAN]
  /\ traced \in [Runs -> BOOLEAN]
  /\ target \in [Runs -> {"none", "graph", "vector"}]
  /\ citations \in [Runs -> SUBSET Citations]
  /\ answer \in [Runs -> Answers]
  /\ retries \in [Runs -> 0 .. MaxRetries]
  /\ fallback \in [Runs -> BOOLEAN]
  /\ steps \in [Runs -> Seq(StepNames)]
  /\ lastTrace \in Runs \union {NoRun}
  /\ traceId \in [Runs -> Runs \union {NoRun}]
  /\ counted \subseteq Runs
  /\ known \in [Runs -> SUBSET Contracts]

\* The graph cannot loop unbounded: a run executes at most four nodes and
\* three more for each retry, far from LangGraph's limit of 25 with the
\* default of one retry.
RunIsBounded == \A r \in Runs : Len(steps[r]) <= 4 + 3 * MaxRetries

\* The answer in a response rests on the citations beside it, and not on
\* those of an earlier pass that the retry has replaced.
AnswerFitsCitations ==
  \A r \in Runs : pc[r] = "done" /\ answer[r] # NoAnswer => answer[r] = citations[r]

\* A response without citations means that nothing in its scope was indexed
\* when the run started: a graph question the graph cannot answer falls back
\* to the vectors (if the settings allow one retry).
NoMissedEvidence ==
  \A r \in Runs :
    pc[r] = "done" /\ citations[r] = {} /\ MaxRetries > 0 =>
      InScope(r, known[r]) = {}

\* The graph is asked in the first pass or never: the fallback is for good.
GraphAskedFirst ==
  \A r \in Runs : \A n \in 1 .. Len(steps[r]) : steps[r][n] = "graph" => n = 2

\* A chunk of another contract is never cited in a scoped run.  (Graph facts
\* may be: the two templates are corpus-wide.)
ChunksInScope ==
  \A r \in Runs : \A c \in citations[r] :
    c.kind = "chunk" /\ scope[r] # NoScope => c.contract = scope[r]

\* A started run about a contract that is indexed ends with evidence, or with
\* an error: it neither hangs, nor stops at an empty graph.
EvidenceIsFound ==
  \A r \in Runs :
    (pc[r] = "route" /\ InScope(r, indexed) # {} /\ MaxRetries > 0) ~>
      (pc[r] = "failed" \/ (pc[r] = "done" /\ citations[r] # {}))

\* The agent never fails because a store does: it degrades.
StoreFailureDegrades == \A r \in Runs : steps[r] # <<>> => pc[r] # "failed"

----------------------------------------------------------------------------
(* The inductive invariant behind the safety properties.                   *)

\* How many nodes a run has executed, by where it is.
StepsOf(r) ==
  /\ pc[r] \in {"idle", "route"} => retries[r] = 0 /\ steps[r] = <<>>
  /\ pc[r] = "retrieve" => Len(steps[r]) = 1 + 3 * retries[r]
  /\ pc[r] = "generate" => Len(steps[r]) = 2 + 3 * retries[r]
  /\ pc[r] = "critique" => Len(steps[r]) = 3 + 3 * retries[r]
  /\ pc[r] \in {"respond", "done"} => Len(steps[r]) = 4 + 3 * retries[r]
  /\ pc[r] = "failed" => Len(steps[r]) <= 1 + 3 * retries[r]

StepsInv == \A r \in Runs : StepsOf(r)

\* The fallback flag is set exactly by the first retry.
FallbackInv == \A r \in Runs : fallback[r] <=> retries[r] > 0

\* The stores only fill: what was indexed at the start still is.
KnownInv == \A r \in Runs : known[r] \subseteq indexed

\* An empty result of a vector search means there was nothing to find, and a
\* run only ends with an empty result when its retries are used up.
EvidenceOf(r) ==
  /\ pc[r] \in {"generate", "critique", "respond", "done"}
       /\ ~UseGraph(r) /\ citations[r] = {} => InScope(r, known[r]) = {}
  /\ pc[r] \in {"respond", "done"} /\ citations[r] = {} =>
       retries[r] = MaxRetries

EvidenceInv == \A r \in Runs : EvidenceOf(r)

\* Generation sets the answer, whatever was there before.
AnswerInv ==
  \A r \in Runs :
    pc[r] \in {"critique", "respond", "done"} =>
      answer[r] \in {NoAnswer, citations[r]}

\* Together they are preserved by every step.
IInv ==
  /\ TypeOK
  /\ StepsInv
  /\ FallbackInv
  /\ KnownInv
  /\ EvidenceInv
  /\ AnswerInv
  /\ GraphAskedFirst
  /\ ChunksInScope

====
