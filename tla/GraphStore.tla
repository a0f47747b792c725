---- MODULE GraphStore ----
(***************************************************************************)
(* The knowledge graph in Neo4j: how the clauses of a contract become      *)
(* facts, the upsert statement clause by clause, and the two templates.    *)
(* A statement is a transaction: its steps work on a copy that the commit  *)
(* publishes; queries, which run beside it, read what is committed.  There *)
(* is one statement at a time, because build_contract is called in the     *)
(* body of an upload, which holds the event loop (Extraction).             *)
(***************************************************************************)
EXTENDS Integers, Sequences

CONSTANTS
  Contracts,
  LastDay,       \* bound on the dates
  Texts,         \* what the model can find as the answer text of a clause
  Dates,         \* the dates each text mentions, in the order of the text
  Documents,     \* the clause lists that extraction can produce
  Invalid,       \* a date that matches its format and does not exist
  Absent, NoFact, NoTx

Day == 0 .. LastDay
Mentions == [form : {"iso", "words", "slash"}, day : Day \union {Invalid}]
Clauses == [type : {"Expiration Date", "Renewal Term", "other"}, text : Texts]

ASSUME ConstantsAssumption ==
  /\ LastDay \in Nat
  /\ Dates \in [Texts -> Seq(Mentions)]
  /\ Documents \subseteq Seq(Clauses)
  /\ Invalid \notin Day
  /\ NoFact \notin Texts \union [iso : Day, text : Texts]
  /\ Absent \notin [expiration : [iso : Day, text : Texts] \union {NoFact},
                    renewal : Texts \union {NoFact}]

VARIABLES
  contractNodes,  \* the contracts that have a node
  expiresOn,      \* the EXPIRES_ON relationships, each with its answer text
  hasClause,      \* the HAS_CLAUSE relationships to the renewal clause type
  tx,             \* the upsert that is running, or NoTx
  answered        \* the rows of the last template that ran

graphVars == <<contractNodes, expiresOn, hasClause>>
vars == <<graphVars, tx, answered>>

GraphInit ==
  /\ contractNodes = {}
  /\ expiresOn = {}
  /\ hasClause = {}
  /\ tx = NoTx
  /\ answered = {}

----------------------------------------------------------------------------
(* From clauses to facts.  What may be missing is a set of at most one.    *)

FactOf(S) == IF S = {} THEN NoFact ELSE CHOOSE x \in S : TRUE

\* The day of the first date of that form, if it exists.
FirstOf(text, form) ==
  LET d == Dates[text]
      first == {n \in 1 .. Len(d) : d[n].form = form
                                    /\ \A m \in 1 .. n - 1 : d[m].form # form}
  IN  {d[n].day : n \in first} \ {Invalid}

\* The formats are tried in turn, each with its first match only.
ParseIsoDate(text) ==
  IF FirstOf(text, "iso") # {} THEN FirstOf(text, "iso")
  ELSE IF FirstOf(text, "words") # {} THEN FirstOf(text, "words")
  ELSE FirstOf(text, "slash")

\* The text of the first clause of that type.
First(doc, type) ==
  {doc[n].text : n \in {k \in 1 .. Len(doc) :
     doc[k].type = type /\ \A m \in 1 .. k - 1 : doc[m].type # type}}

BuildGraphContract(doc) ==
  [expiration |->
     FactOf(UNION {{[iso |-> d, text |-> t] : d \in ParseIsoDate(t)} :
                     t \in First(doc, "Expiration Date")}),
   renewal |-> FactOf(First(doc, "Renewal Term"))]

Projected == {BuildGraphContract(doc) : doc \in Documents}

----------------------------------------------------------------------------
(* The upsert.                                                             *)

OfContract(c, S) == {x \in S : x.contract = c}

\* OPTIONAL MATCH: a row for each old relationship, or one row of null.
MatchedRows(c) ==
  LET old == OfContract(c, expiresOn) \union OfContract(c, hasClause)
  IN  IF old = {} THEN {NoFact} ELSE old

\* Faulty variant: the old relationships are left where they are.
BeginUpsertKeepOld(c, doc) ==
  /\ tx = NoTx
  /\ tx' = [contract |-> c, facts |-> BuildGraphContract(doc),
            expiresOn |-> expiresOn, hasClause |-> hasClause,
            rows |-> MatchedRows(c)]
  /\ UNCHANGED <<graphVars, answered>>

\* MERGE the contract, match its old relationships and DELETE them.
BeginUpsert(c, doc) ==
  /\ tx = NoTx
  /\ tx' = [contract |-> c, facts |-> BuildGraphContract(doc),
            expiresOn |-> expiresOn \ OfContract(c, expiresOn),
            hasClause |-> hasClause \ OfContract(c, hasClause),
            rows |-> MatchedRows(c)]
  /\ UNCHANGED <<graphVars, answered>>

\* MERGE finds the relationship to the same date or makes one; SET its text.
MergeExpiration(S, c, fact) ==
  IF fact = NoFact THEN S
  ELSE {e \in S : e.contract # c \/ e.iso # fact.iso}
       \union {[contract |-> c, iso |-> fact.iso, text |-> fact.text]}

MergeRenewal(S, c, fact) ==
  IF fact = NoFact THEN S
  ELSE (S \ OfContract(c, S)) \union {[contract |-> c, text |-> fact]}

\* The two FOREACH clauses run once for each matched row.
MergeFacts ==
  /\ tx # NoTx
  /\ \E row \in tx.rows :
       tx' = [contract |-> tx.contract, facts |-> tx.facts,
              expiresOn |-> MergeExpiration(tx.expiresOn, tx.contract,
                                            tx.facts.expiration),
              hasClause |-> MergeRenewal(tx.hasClause, tx.contract,
                                         tx.facts.renewal),
              rows |-> tx.rows \ {row}]
  /\ UNCHANGED <<graphVars, answered>>

\* Faulty variant: each clause is a statement of its own.
CommitEarly ==
  /\ tx # NoTx
  /\ contractNodes' = contractNodes \union {tx.contract}
  /\ expiresOn' = tx.expiresOn
  /\ hasClause' = tx.hasClause
  /\ tx' = IF tx.rows = {} THEN NoTx ELSE tx
  /\ UNCHANGED answered

Commit ==
  /\ tx # NoTx
  /\ tx.rows = {}
  /\ contractNodes' = contractNodes \union {tx.contract}
  /\ expiresOn' = tx.expiresOn
  /\ hasClause' = tx.hasClause
  /\ tx' = NoTx
  /\ UNCHANGED answered

\* Neo4j or the connection to it fails: the upload goes on without.
Abort ==
  /\ tx # NoTx
  /\ tx' = NoTx
  /\ UNCHANGED <<graphVars, answered>>

----------------------------------------------------------------------------
(* The templates.                                                          *)

Expiration(e) == [iso |-> e.iso, text |-> e.text]
Row(c, expiration, renewal) ==
  [contract |-> c, expiration |-> expiration, renewal |-> renewal]

Matching(lower, upper) == {e \in expiresOn : lower <= e.iso /\ e.iso <= upper}

\* The rows RETURNed by the MATCH of each template.
TemplateRows(name, lower, upper) ==
  IF name = "expiring_within"
  THEN {Row(e.contract, Expiration(e), NoFact) : e \in Matching(lower, upper)}
  ELSE UNION {{Row(e.contract, Expiration(e), h.text) :
                 h \in OfContract(e.contract, hasClause)} :
                e \in Matching(lower, upper)}

Templates == {"expiring_within", "auto_renewing_expiring_within"}

RunTemplate(name, lower, upper) ==
  /\ answered' = TemplateRows(name, lower, upper)
  /\ UNCHANGED <<graphVars, tx>>

----------------------------------------------------------------------------

Upsert ==
  \/ \E c \in Contracts, doc \in Documents : BeginUpsert(c, doc)
  \/ MergeFacts
  \/ Commit
  \/ Abort

GraphNext ==
  \/ Upsert
  \/ \E name \in Templates, lower, upper \in Day : RunTemplate(name, lower, upper)

GraphSpec == GraphInit /\ [][GraphNext]_vars

----------------------------------------------------------------------------
(* Properties.                                                             *)

Expirations == [iso : Day, text : Texts]
Facts == [expiration : Expirations \union {NoFact},
          renewal : Texts \union {NoFact}]
ExpiresOn == [contract : Contracts, iso : Day, text : Texts]
HasClause == [contract : Contracts, text : Texts]

\* Every variable has its type.
GraphTypeOK ==
  /\ contractNodes \subseteq Contracts
  /\ expiresOn \subseteq ExpiresOn
  /\ hasClause \subseteq HasClause
  /\ tx # NoTx =>
       tx \in [contract : Contracts, facts : Facts,
               expiresOn : SUBSET ExpiresOn, hasClause : SUBSET HasClause,
               rows : SUBSET (ExpiresOn \union HasClause \union {NoFact})]
  /\ answered \subseteq [contract : Contracts, expiration : Expirations,
                         renewal : Texts \union {NoFact}]

\* Between two relationships of one contract nothing tells which is current:
\* there is at most one expiration and one renewal, of a contract with a node.
AtMostOne(E, H) ==
  /\ \A d, e \in E : d.contract = e.contract => d = e
  /\ \A g, h \in H : g.contract = h.contract => g = h

OneFactEach ==
  /\ AtMostOne(expiresOn, hasClause)
  /\ \A x \in expiresOn \union hasClause : x.contract \in contractNodes

\* The dictionary of the in-memory store that the graph stands for.
FactsOf(c) ==
  [expiration |-> FactOf({Expiration(e) : e \in OfContract(c, expiresOn)}),
   renewal |-> FactOf({h.text : h \in OfContract(c, hasClause)})]

Dictionary ==
  [c \in Contracts |-> IF c \in contractNodes THEN FactsOf(c) ELSE Absent]

Memory == INSTANCE GraphMemory WITH data <- Dictionary, Upserted <- Projected

\* The Neo4j store is equivalent to InMemoryGraphStore: an upsert replaces the
\* facts of its contract by those of its document at once or not at all, also
\* while queries run, and a template returns the rows that the dictionary gives.
ImplementsMemory == Memory!MemSpec

----------------------------------------------------------------------------
(* The inductive invariant behind the refinement.                          *)

\* The working copy differs from the graph only in the facts of its contract,
\* which are gone or are the new ones, and are the new ones at the end.
TxInv ==
  tx # NoTx =>
    /\ tx.facts \in Projected
    /\ AtMostOne(tx.expiresOn, tx.hasClause)
    /\ \A x \in ExpiresOn :
         x.contract # tx.contract => (x \in tx.expiresOn <=> x \in expiresOn)
    /\ \A x \in HasClause :
         x.contract # tx.contract => (x \in tx.hasClause <=> x \in hasClause)
    /\ \A x \in OfContract(tx.contract, tx.expiresOn) :
         Expiration(x) = tx.facts.expiration
    /\ \A x \in OfContract(tx.contract, tx.hasClause) : x.text = tx.facts.renewal
    /\ tx.rows = {} =>
         /\ tx.facts.expiration # NoFact => OfContract(tx.contract, tx.expiresOn) # {}
         /\ tx.facts.renewal # NoFact => OfContract(tx.contract, tx.hasClause) # {}

GraphInv == GraphTypeOK /\ OneFactEach /\ TxInv

====
