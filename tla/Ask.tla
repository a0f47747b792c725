---- MODULE Ask ----
(***************************************************************************)
(* POST /ask beside the uploads that fill its two stores: the rule-based   *)
(* router, the graph or the hybrid search with its reranker, and the       *)
(* language model.  The handler is a plain "def": each call runs in a      *)
(* worker thread of its own, so uploads, midnight and other calls come     *)
(* between any two of its steps.  The graph is the dictionary that         *)
(* GraphStore implements.                                                  *)
(***************************************************************************)
EXTENDS GraphMemory, FiniteSets

CONSTANTS
  Asks,          \* the calls of /ask, each made at most once
  Questions,     \* what they may ask, see QuestionType
  Chunks,        \* the chunks that uploads can index
  ContractOf,    \* the contract of each chunk
  Fused, Cross,  \* the score of each chunk in the hybrid search, and the one
                 \* the reranker gives it
  DefaultDays,   \* settings.graph_default_within_days
  Candidates,    \* settings.rag_rerank_candidates
  MaxDays,       \* bound on the windows asked for, Overflow excepted
  LastToday,     \* bound on midnights
  NoDays, Overflow, NoScope, NoQuestion

\* What the router and the two paths make use of in a question: the words
\* about expiry and renewal, the number of days, and the request's fields.
QuestionType ==
  [expiry : BOOLEAN, renewal : BOOLEAN, days : 0 .. MaxDays \union {NoDays, Overflow},
   scope : Contracts \union {NoScope}, topK : Nat \ {0}]

ASSUME AskAssumption ==
  /\ Questions \subseteq QuestionType
  /\ ContractOf \in [Chunks -> Contracts]
  /\ Fused \in [Chunks -> Nat] /\ Cross \in [Chunks -> Nat]
  /\ DefaultDays \in 0 .. MaxDays
  /\ Candidates \in Nat \ {0}
  /\ MaxDays \in Nat
  /\ LastToday \in Nat
  /\ 0 .. LastToday + MaxDays \subseteq Day /\ Day \subseteq Int
  /\ Upserted \subseteq GraphContracts
  /\ NoQuestion \notin Questions

VARIABLES
  today,       \* the date
  indexed,     \* the chunks in Qdrant
  pc,          \* where each call is
  question,    \* what it asks
  tools,       \* which of the graph store and the reranker it has
  found,       \* the candidates its search returned
  citations,   \* the citations of its answer
  known, sent  \* history: the chunks indexed, and the date, when it was sent

askVars == <<pc, question, tools, found, citations, known, sent>>
vars == <<memVars, today, indexed, askVars>>

Steps == {"route", "graph", "vector", "rerank", "generate"}
Ended == {"answered", "citationsOnly", "unavailable"}
Tools == {"graph", "reranker"}

AskInit ==
  /\ MemInit
  /\ today = 0
  /\ indexed = {}
  /\ pc = [r \in Asks |-> "idle"]
  /\ question = [r \in Asks |-> NoQuestion]
  /\ tools = [r \in Asks |-> {}]
  /\ found = [r \in Asks |-> {}]
  /\ citations = [r \in Asks |-> {}]
  /\ known = [r \in Asks |-> {}]
  /\ sent = [r \in Asks |-> 0]

Goto(r, label) == pc' = [pc EXCEPT ![r] = label]

----------------------------------------------------------------------------
(* The environment.                                                        *)

BuildContract(c, gc) ==
  /\ UpsertContract(c, gc)
  /\ UNCHANGED <<today, indexed, askVars>>

Midnight ==
  /\ today < LastToday
  /\ today' = today + 1
  /\ UNCHANGED <<memVars, indexed, askVars>>

IndexChunk(c) ==
  /\ indexed' = indexed \union {c}
  /\ UNCHANGED <<memVars, today, askVars>>

\* The dependencies are resolved: some of the optional parts are there.
Send(r) ==
  /\ pc[r] = "idle"
  /\ \E q \in Questions : question' = [question EXCEPT ![r] = q]
  /\ \E T \in SUBSET Tools : tools' = [tools EXCEPT ![r] = T]
  /\ known' = [known EXCEPT ![r] = indexed]
  /\ sent' = [sent EXCEPT ![r] = today]
  /\ Goto(r, "route")
  /\ UNCHANGED <<memVars, today, indexed, found, citations>>

----------------------------------------------------------------------------
(* The handler.                                                            *)

Route(r) ==
  /\ pc[r] = "route"
  /\ Goto(r, IF question[r].expiry /\ "graph" \in tools[r]
             THEN "graph" ELSE "vector")
  /\ UNCHANGED <<memVars, today, indexed, question, tools, found, citations,
                 known, sent>>

Template(q) ==
  IF q.renewal THEN "auto_renewing_expiring_within" ELSE "expiring_within"

\* Zero days count as no days.
Within(q) == IF q.days \in {NoDays, 0} THEN DefaultDays ELSE q.days

\* A citation of the expiration, and one of the renewal if the row has it.
Cited(rows) ==
  {[contract |-> x.contract, clause |-> "Expiration Date",
    text |-> x.expiration.text, iso |-> x.expiration.iso] : x \in rows}
  \union
  {[contract |-> x.contract, clause |-> "Renewal Term",
    text |-> x.renewal, iso |-> x.expiration.iso] :
     x \in {y \in rows : y.renewal # NoFact}}

\* Faulty variant: the reference date is a default of the function, which
\* Python evaluates once, when the module is imported.
QueryGraphFromStart(r) ==
  /\ pc[r] = "graph"
  /\ question[r].days # Overflow
  /\ RunTemplate(Template(question[r]), 0, Within(question[r]))
  /\ citations' = [citations EXCEPT ![r] = Cited(answered')]
  /\ Goto(r, "generate")
  /\ UNCHANGED <<today, indexed, question, tools, found, known, sent>>

QueryGraph(r) ==
  /\ pc[r] = "graph"
  /\ question[r].days # Overflow
  /\ RunTemplate(Template(question[r]), today, today + Within(question[r]))
  /\ citations' = [citations EXCEPT ![r] = Cited(answered')]
  /\ Goto(r, "generate")
  /\ UNCHANGED <<today, indexed, question, tools, found, known, sent>>

InScope(r, S) ==
  {c \in S : question[r].scope \in {NoScope, ContractOf[c]}}

\* The n chunks of S with the best scores.
Top(n, S, score) ==
  {c \in S : Cardinality({d \in S : score[d] > score[c]}) < n}

\* Faulty variant: with a reranker the pool has a fixed size.
PoolFixed(r) ==
  IF "reranker" \in tools[r] THEN Candidates ELSE question[r].topK

\* How many chunks the search is asked for.
Pool(r) ==
  IF "reranker" \notin tools[r] \/ Candidates < question[r].topK
  THEN question[r].topK ELSE Candidates

Search(r) ==
  /\ pc[r] = "vector"
  /\ found' = [found EXCEPT ![r] = Top(Pool(r), InScope(r, indexed), Fused)]
  /\ Goto(r, "rerank")
  /\ UNCHANGED <<memVars, today, indexed, question, tools, citations, known, sent>>

\* The citations are the candidates, or the best of them in a new order.
Rerank(r) ==
  /\ pc[r] = "rerank"
  /\ citations' = [citations EXCEPT ![r] =
       IF "reranker" \in tools[r] THEN Top(question[r].topK, found[r], Cross)
       ELSE found[r]]
  /\ found' = [found EXCEPT ![r] = {}]
  /\ Goto(r, "generate")
  /\ UNCHANGED <<memVars, today, indexed, question, tools, known, sent>>

\* A store or the reranker raises, or the window leaves the calendar: a 503.
Unavailable(r) ==
  /\ \/ pc[r] \in {"graph", "vector"}
     \/ pc[r] = "rerank" /\ "reranker" \in tools[r] /\ found[r] # {}
  /\ Goto(r, "unavailable")
  /\ UNCHANGED <<memVars, today, indexed, question, tools, found, citations,
                 known, sent>>

Generate(r) ==
  /\ pc[r] = "generate"
  /\ Goto(r, "answered")
  /\ UNCHANGED <<memVars, today, indexed, question, tools, found, citations,
                 known, sent>>

\* No model is configured, or the call to it fails.
Degrade(r) ==
  /\ pc[r] = "generate"
  /\ Goto(r, "citationsOnly")
  /\ UNCHANGED <<memVars, today, indexed, question, tools, found, citations,
                 known, sent>>

----------------------------------------------------------------------------

Handler(r) ==
  \/ Route(r) \/ QueryGraph(r) \/ Search(r) \/ Rerank(r)
  \/ Unavailable(r) \/ Generate(r) \/ Degrade(r)

AskNext ==
  \/ \E r \in Asks : Send(r) \/ Handler(r)
  \/ \E c \in Contracts, gc \in Upserted : BuildContract(c, gc)
  \/ \E c \in Chunks : IndexChunk(c)
  \/ Midnight

AskSpec == AskInit /\ [][AskNext]_vars

----------------------------------------------------------------------------
(* Properties.                                                             *)

GraphCitation ==
  [contract : Contracts, clause : {"Expiration Date", "Renewal Term"},
   text : Texts, iso : Day]

\* Every variable has its type.
AskTypeOK ==
  /\ today \in 0 .. LastToday
  /\ indexed \subseteq Chunks
  /\ pc \in [Asks -> {"idle"} \union Steps \union Ended]
  /\ question \in [Asks -> Questions \union {NoQuestion}]
  /\ tools \in [Asks -> SUBSET Tools]
  /\ found \in [Asks -> SUBSET Chunks]
  /\ citations \in [Asks -> SUBSET (GraphCitation \union Chunks)]
  /\ known \in [Asks -> SUBSET Chunks]
  /\ sent \in [Asks -> 0 .. LastToday]

Succeeded(r) == pc[r] \in {"answered", "citationsOnly"}
FromGraph(r) == question[r].expiry /\ "graph" \in tools[r]

Enough(r, S) ==
  Cardinality(S) >= question[r].topK \/ InScope(r, known[r]) \subseteq S

InWindow(r, c) == sent[r] <= c.iso /\ c.iso <= today + Within(question[r])

\* With or without a reranker, a question gets as many citations as it asked
\* for, or all that its scope had when it was sent.  In particular an answer
\* without citations is never a store that was down.
EnoughCitations ==
  \A r \in Asks : Succeeded(r) /\ ~FromGraph(r) => Enough(r, citations[r])

\* A scoped question is answered from chunks of its contract.
ChunksOfScope ==
  \A r \in Asks : Succeeded(r) /\ ~FromGraph(r) =>
    citations[r] \subseteq InScope(r, indexed)

\* A contract that an expiry question cites expires no earlier than the day
\* the question was sent, and within its window from now: the reference date
\* is the day of the query.
WindowIsCurrent ==
  \A r \in Asks : Succeeded(r) /\ FromGraph(r) =>
    \A c \in citations[r] : InWindow(r, c)

----------------------------------------------------------------------------
(* The inductive invariant.                                                *)

\* The stores only fill and the calendar goes on.
PastInv(r) ==
  /\ pc[r] # "idle" => question[r] \in Questions
  /\ known[r] \subseteq indexed
  /\ sent[r] <= today

PathInv(r) ==
  /\ pc[r] = "graph" => FromGraph(r)
  /\ pc[r] \in {"vector", "rerank"} => ~FromGraph(r)

\* What is found, or cited, is in scope and enough from the search on.
EvidenceInv(r) ==
  /\ pc[r] = "rerank" =>
       found[r] \subseteq InScope(r, indexed) /\ Enough(r, found[r])
  /\ pc[r] = "generate" \/ Succeeded(r) =>
       IF FromGraph(r)
       THEN /\ question[r].days # Overflow
            /\ citations[r] \subseteq GraphCitation
            /\ \A c \in citations[r] : InWindow(r, c)
       ELSE citations[r] \subseteq InScope(r, indexed) /\ Enough(r, citations[r])

CallInv(r) == PastInv(r) /\ PathInv(r) /\ EvidenceInv(r)

AskInv ==
  /\ AskTypeOK
  /\ data \in [Contracts -> Upserted \union {Absent}]
  /\ IsFiniteSet(indexed)
  /\ \A r \in Asks : CallInv(r)

====
