---- MODULE AppState ----
(***************************************************************************)
(* The parts of the application that are built on first use and cached on  *)
(* app.state: engines, models, clients, stores and the tracer.             *)
(*                                                                         *)
(* The dependencies that build them are plain functions, so each request   *)
(* resolves them in worker threads, one after the other, and the requests  *)
(* overlap: nothing locks the look at the cache and the write to it.  Once *)
(* its dependencies are resolved, a request goes on in its handler, which  *)
(* Extraction and Agent model.                                             *)
(***************************************************************************)
EXTENDS Naturals, Sequences

CONSTANTS
  Requests,     \* the requests, each made at most once
  Kinds,        \* the endpoints they are made to
  Configured,   \* the optional parts that the settings switch on
  LocalModel,   \* rag_embedding_local_path is set
  Nothing       \* None

\* What each endpoint depends on, in the order it is resolved in.
Endpoints == {"ask", "agent", "contract", "image", "page"}
Needs ==
  [ask      |-> <<"rag_store", "graph_store", "rag_llm", "rag_reranker">>,
   agent    |-> <<"rag_store", "graph_store", "rag_llm", "agent_tracer">>,
   contract |-> <<"ocr_engine", "contract_extractor", "s3_client",
                  "rag_store", "graph_store">>,
   image    |-> <<"ocr_engine", "kie_backend", "s3_client">>,
   page     |-> <<"s3_client">>]

OptionalParts == {"graph_store", "rag_llm", "rag_reranker", "agent_tracer"}
Parts == OptionalParts \union
  {"rag_store", "ocr_engine", "contract_extractor", "kie_backend", "s3_client"}

ASSUME ConstantsAssumption ==
  /\ Kinds \subseteq Endpoints
  /\ Configured \subseteq OptionalParts
  /\ LocalModel \in BOOLEAN
  /\ Nothing \notin Requests

VARIABLES
  kind,         \* the endpoint of each request
  pc, at,       \* where it is, and which of its dependencies it resolves
  built,        \* what its builder returned, before it is cached
  uses,         \* the parts it has been given
  cache,        \* app.state; an instance is named after its builder
  assigned,     \* app.state has an attribute rag_reranker
  loaded,       \* app.state.rag_reranker_loaded
  registered,   \* fastembed knows the custom model
  marked        \* its name is in _registered_custom_models

requestVars == <<kind, pc, at, built, uses>>
rerankerVars == <<assigned, loaded>>
modelVars == <<registered, marked>>
vars == <<requestVars, cache, rerankerVars, modelVars>>

Init ==
  /\ kind \in [Requests -> Kinds]
  /\ pc = [r \in Requests |-> "look"]
  /\ at = [r \in Requests |-> 1]
  /\ built = [r \in Requests |-> Nothing]
  /\ uses = [r \in Requests |-> [p \in Parts |-> Nothing]]
  /\ cache = [p \in Parts |-> Nothing]
  /\ assigned = FALSE
  /\ loaded = FALSE
  /\ registered = FALSE
  /\ marked = FALSE

Part(r) == Needs[kind[r]][at[r]]
At(r, label, p) == pc[r] = label /\ Part(r) = p
Goto(r, label) == pc' = [pc EXCEPT ![r] = label]

\* The dependency returns x: the next one is looked at, or the handler runs.
Give(r, x) ==
  /\ uses' = [uses EXCEPT ![r][Part(r)] = x]
  /\ at' = [at EXCEPT ![r] = @ + 1]
  /\ Goto(r, IF at[r] = Len(Needs[kind[r]]) THEN "ready" ELSE "look")
  /\ UNCHANGED <<kind, built>>

----------------------------------------------------------------------------
(* The cache.                                                              *)

\* A part counts as cached if it is not None; only the reranker has a flag,
\* so that None is remembered.
Cached(p) == IF p = "rag_reranker" THEN loaded ELSE cache[p] # Nothing

Hit(r) ==
  /\ pc[r] = "look"
  /\ Cached(Part(r))
  /\ Give(r, cache[Part(r)])
  /\ UNCHANGED <<cache, rerankerVars, modelVars>>

Miss(r) ==
  /\ pc[r] = "look"
  /\ ~Cached(Part(r))
  /\ Goto(r, IF Part(r) = "rag_store" /\ LocalModel THEN "check" ELSE "build")
  /\ UNCHANGED <<kind, at, built, uses, cache, rerankerVars, modelVars>>

\* Faulty variant: the flag is set where the attribute should be.
StoreFlagFirst(r) ==
  /\ pc[r] = "store"
  /\ IF Part(r) = "rag_reranker"
     THEN /\ loaded' = TRUE
          /\ Goto(r, "flag")
          /\ UNCHANGED <<kind, at, built, uses, cache, assigned>>
     ELSE /\ cache' = [cache EXCEPT ![Part(r)] = built[r]]
          /\ Give(r, built[r])
          /\ UNCHANGED rerankerVars
  /\ UNCHANGED modelVars

Store(r) ==
  /\ pc[r] = "store"
  /\ cache' = [cache EXCEPT ![Part(r)] = built[r]]
  /\ IF Part(r) = "rag_reranker"
     THEN /\ assigned' = TRUE
          /\ Goto(r, "flag")
          /\ UNCHANGED <<kind, at, built, uses, loaded>>
     ELSE /\ Give(r, built[r])
          /\ UNCHANGED rerankerVars
  /\ UNCHANGED modelVars

SetFlag(r) ==
  /\ pc[r] = "flag"
  /\ loaded' = TRUE
  /\ Give(r, built[r])
  /\ UNCHANGED <<cache, assigned, modelVars>>

----------------------------------------------------------------------------
(* The builders.                                                           *)

\* An upload does without the stores that only its indexing needs.
BestEffort(k) == IF k = "contract" THEN {"rag_store", "graph_store"} ELSE {}
NoneOnFailure == {"rag_reranker", "agent_tracer"}

\* Faulty variant: every builder that raises leaves a None behind.
FailSoftly(r) ==
  /\ built' = [built EXCEPT ![r] = Nothing]
  /\ Goto(r, "store")
  /\ UNCHANGED <<kind, at, uses, cache, rerankerVars, modelVars>>

\* A builder raises: the request ends with an error, unless the part is only
\* for the sake of indexing, or does without.
Fail(r) ==
  /\ IF Part(r) \in BestEffort(kind[r]) THEN Give(r, Nothing)
     ELSE IF Part(r) \in NoneOnFailure
     THEN /\ built' = [built EXCEPT ![r] = Nothing]
          /\ Goto(r, "store")
          /\ UNCHANGED <<kind, at, uses>>
     ELSE /\ Goto(r, "failed")
          /\ UNCHANGED <<kind, at, built, uses>>
  /\ UNCHANGED <<cache, rerankerVars, modelVars>>

SwitchedOn(p) == p \in OptionalParts => p \in Configured

BuildFails(r) ==
  /\ pc[r] = "build"
  /\ SwitchedOn(Part(r))
  /\ Fail(r)

Build(r) ==
  /\ pc[r] = "build"
  /\ built' = [built EXCEPT ![r] = IF SwitchedOn(Part(r)) THEN r ELSE Nothing]
  /\ Goto(r, "store")
  /\ UNCHANGED <<kind, at, uses, cache, rerankerVars, modelVars>>

\* _register_custom_model: look at the names, tell fastembed, add the name.
Check(r) ==
  /\ pc[r] = "check"
  /\ Goto(r, IF marked THEN "build" ELSE "register")
  /\ UNCHANGED <<kind, at, built, uses, cache, rerankerVars, modelVars>>

Register(r) ==
  /\ pc[r] = "register"
  /\ ~registered
  /\ registered' = TRUE
  /\ Goto(r, "mark")
  /\ UNCHANGED <<kind, at, built, uses, cache, rerankerVars, marked>>

\* fastembed refuses a name it already has.
Refuse(r) ==
  /\ pc[r] = "register"
  /\ registered
  /\ Fail(r)

\* Faulty variant: the name is not added.
MarkForgotten(r) ==
  /\ pc[r] = "mark"
  /\ Goto(r, "build")
  /\ UNCHANGED <<kind, at, built, uses, cache, rerankerVars, modelVars>>

Mark(r) ==
  /\ pc[r] = "mark"
  /\ marked' = TRUE
  /\ Goto(r, "build")
  /\ UNCHANGED <<kind, at, built, uses, cache, rerankerVars, registered>>

----------------------------------------------------------------------------

Resolve(r) ==
  \/ Hit(r) \/ Miss(r) \/ Check(r) \/ Register(r) \/ Refuse(r) \/ Mark(r)
  \/ Build(r) \/ BuildFails(r) \/ Store(r) \/ SetFlag(r)

Next == \E r \in Requests : Resolve(r)

Spec == Init /\ [][Next]_vars

----------------------------------------------------------------------------
(* Properties.                                                             *)

Labels == {"look", "check", "register", "mark", "build", "store", "flag",
           "ready", "failed"}
Instances == Requests \union {Nothing}

\* Every variable has its type, and a request is at one of its dependencies
\* until it is ready.
TypeOK ==
  /\ kind \in [Requests -> Kinds]
  /\ pc \in [Requests -> Labels]
  /\ at \in [Requests -> Nat]
  /\ \A r \in Requests :
       /\ at[r] \in 1 .. Len(Needs[kind[r]]) + 1
       /\ pc[r] = "ready" <=> at[r] = Len(Needs[kind[r]]) + 1
  /\ built \in [Requests -> Instances]
  /\ uses \in [Requests -> [Parts -> Instances]]
  /\ cache \in [Parts -> Instances]
  /\ assigned \in BOOLEAN
  /\ loaded \in BOOLEAN
  /\ registered \in BOOLEAN
  /\ marked \in BOOLEAN

\* Whoever sees the flag of the reranker finds the attribute: the lifespan
\* gives every other attribute a value at startup, but not this one.
AttributeBehindFlag == loaded => assigned

\* Whoever skips the registration of the custom model finds it registered.
SkipIsSafe ==
  /\ marked => registered
  /\ \A r \in Requests : At(r, "build", "rag_store") /\ LocalModel => registered

\* Only those are refused that look at the names before the model is registered, or
\* before the very next step of the request that registered it: whoever looks
\* later skips the registration.  (Those that did look before are refused, however
\* late they get to it: to them the function is not idempotent.)
RefusalsEnd ==
  [][\A r \in Requests :
       registered /\ pc[r] = "check" /\ pc'[r] = "register" =>
         ~marked /\ \E q \in Requests : pc[q] = "mark"]_vars

\* A part that is cached is never replaced by None, though two first requests
\* build it at once and one of them fails: the others can count on it.  (The
\* two parts whose builder returns None on failure are lost in this case.)
CachedStays ==
  [][\A p \in Parts \ NoneOnFailure :
       cache[p] # Nothing => cache'[p] # Nothing]_vars

\* A handler never runs without a part it cannot do without, whichever
\* request built it, and whatever failed on the way.
Mandatory(k) == Parts \ (OptionalParts \union BestEffort(k))

HandlersAreEquipped ==
  \A r \in Requests : \A n \in 1 .. Len(Needs[kind[r]]) :
    LET p == Needs[kind[r]][n]
    IN  pc[r] = "ready" /\ p \in Mandatory(kind[r]) => uses[r][p] # Nothing

----------------------------------------------------------------------------
(* The inductive invariant behind the safety properties.                   *)

\* The flag follows the attribute, and only the reranker has one.
FlagInv ==
  /\ AttributeBehindFlag
  /\ \A r \in Requests : pc[r] = "flag" => assigned /\ Part(r) = "rag_reranker"

\* The name follows the registration, and the model is built after both.
RegistrationInv ==
  /\ marked => registered
  /\ \A r \in Requests :
       /\ pc[r] = "mark" => registered
       /\ At(r, "build", "rag_store") /\ LocalModel => marked

\* As long as the model is registered and not marked, someone is about to mark it.
MarkInv == registered => marked \/ \E r \in Requests : pc[r] = "mark"

\* What is about to be cached is an instance, unless it is switched off or was
\* not built; and so is what is cached.
BuiltInv ==
  /\ \A p \in Parts : cache[p] # Nothing => SwitchedOn(p)
  /\ \A r \in Requests : pc[r] = "store" =>
       /\ built[r] # Nothing => SwitchedOn(Part(r))
       /\ SwitchedOn(Part(r)) /\ Part(r) \notin NoneOnFailure => built[r] # Nothing

\* What has been resolved is there.
Equipped(r) ==
  \A n \in 1 .. at[r] - 1 :
    LET p == Needs[kind[r]][n]
    IN  p \in Mandatory(kind[r]) => uses[r][p] # Nothing

\* Together they are preserved by every step.
IInv ==
  /\ TypeOK
  /\ FlagInv
  /\ RegistrationInv
  /\ MarkInv
  /\ BuiltInv
  /\ \A r \in Requests : Equipped(r)

====
