---- MODULE GraphStore_proofs ----
(***************************************************************************)
(* Proofs about GraphStore, for any contracts, texts and dates.            *)
(***************************************************************************)
EXTENDS GraphStore, TLAPS

LEMMA OnlyFact == \A x : FactOf({x}) = x
BY DEF FactOf

LEMMA FactOfType ==
  ASSUME NEW T, NEW S \in SUBSET T
  PROVE  FactOf(S) \in T \union {NoFact}
BY DEF FactOf

\* parse_iso_date returns a date or nothing, whatever the text mentions.
LEMMA ParseType ==
  ASSUME NEW text \in Texts
  PROVE  ParseIsoDate(text) \in SUBSET Day
<1>1. ASSUME NEW form PROVE FirstOf(text, form) \in SUBSET Day
  <2>1. \A n \in 1 .. Len(Dates[text]) : Dates[text][n] \in Mentions
    BY ConstantsAssumption
  <2>2. \A n \in 1 .. Len(Dates[text]) : Dates[text][n].day \in Day \union {Invalid}
    BY <2>1 DEF Mentions
  <2>. QED BY <2>2 DEF FirstOf
<1>. QED BY <1>1 DEF ParseIsoDate

LEMMA FirstType ==
  ASSUME NEW doc \in Documents, NEW type
  PROVE  First(doc, type) \in SUBSET Texts
<1>1. \A n \in 1 .. Len(doc) : doc[n] \in Clauses BY ConstantsAssumption
<1>2. \A n \in 1 .. Len(doc) : doc[n].text \in Texts BY <1>1 DEF Clauses
<1>. QED BY <1>2 DEF First

LEMMA BuildType ==
  ASSUME NEW doc \in Documents
  PROVE  BuildGraphContract(doc) \in Facts
<1> DEFINE S == UNION {{[iso |-> d, text |-> t] : d \in ParseIsoDate(t)} :
                         t \in First(doc, "Expiration Date")}
<1>1. S \in SUBSET Expirations
  <2>1. ASSUME NEW t \in First(doc, "Expiration Date")
        PROVE  {[iso |-> d, text |-> t] : d \in ParseIsoDate(t)} \subseteq Expirations
    <3>1. t \in Texts BY FirstType
    <3>2. ParseIsoDate(t) \in SUBSET Day BY <3>1, ParseType
    <3>3. \A d \in ParseIsoDate(t) : [iso |-> d, text |-> t] \in Expirations
      BY <3>1, <3>2 DEF Expirations
    <3>. QED BY <3>3
  <2>. QED BY <2>1
<1>2. FactOf(S) \in Expirations \union {NoFact} BY <1>1, FactOfType
<1>3. FactOf(First(doc, "Renewal Term")) \in Texts \union {NoFact}
  BY FirstType, FactOfType
<1>. QED BY <1>2, <1>3 DEF BuildGraphContract, Facts

----------------------------------------------------------------------------
(* The invariant.                                                          *)

LEMMA InitInv == GraphInit => GraphInv
BY DEF GraphInit, GraphInv, GraphTypeOK, OneFactEach, AtMostOne, TxInv

LEMMA BeginUpsertStep ==
  ASSUME GraphInv, NEW c \in Contracts, NEW doc \in Documents, BeginUpsert(c, doc)
  PROVE  GraphInv'
<1> USE DEF GraphInv, BeginUpsert, graphVars
<1>1. OneFactEach' BY DEF OneFactEach
<1>2. MatchedRows(c) \in SUBSET (ExpiresOn \union HasClause \union {NoFact})
  BY DEF MatchedRows, OfContract, GraphTypeOK
<1>3. GraphTypeOK' BY <1>2, BuildType DEF GraphTypeOK
<1>4. TxInv'
  <2>1. tx'.rows # {} BY DEF MatchedRows
  <2>2. AtMostOne(tx'.expiresOn, tx'.hasClause)
    BY DEF OneFactEach, AtMostOne
  <2>3. OfContract(c, tx'.expiresOn) = {} /\ OfContract(c, tx'.hasClause) = {}
    BY DEF OfContract
  <2>4. /\ \A x \in ExpiresOn :
             x.contract # c => (x \in tx'.expiresOn <=> x \in expiresOn)
        /\ \A x \in HasClause :
             x.contract # c => (x \in tx'.hasClause <=> x \in hasClause)
    BY DEF OfContract
  <2>5. tx'.facts \in Projected BY DEF Projected
  <2>. QED BY <2>1, <2>2, <2>3, <2>4, <2>5 DEF TxInv
<1>. QED BY <1>1, <1>3, <1>4

\* What MERGE and SET leave of the expirations S, if those of c are all old
\* ones with the same fact: the others, and that fact once.
LEMMA MergeExpirationFacts ==
  ASSUME NEW c \in Contracts, NEW S \in SUBSET ExpiresOn,
         NEW fact \in Expirations \union {NoFact},
         \A d, e \in S : d.contract = e.contract => d = e,
         \A e \in OfContract(c, S) : Expiration(e) = fact,
         NEW M, M = MergeExpiration(S, c, fact)
  PROVE  /\ M \in SUBSET ExpiresOn
         /\ \A x : x.contract # c => (x \in M <=> x \in S)
         /\ \A d, e \in M : d.contract = e.contract => d = e
         /\ \A e \in OfContract(c, M) : Expiration(e) = fact
         /\ fact # NoFact => OfContract(c, M) # {}
<1>1. CASE fact = NoFact
  BY <1>1 DEF MergeExpiration
<1>2. CASE fact # NoFact
  <2>1. PICK new : new = [contract |-> c, iso |-> fact.iso, text |-> fact.text]
    OBVIOUS
  <2>2. new \in ExpiresOn /\ new.contract = c /\ Expiration(new) = fact
    BY <1>2, <2>1 DEF ExpiresOn, Expiration, Expirations
  <2>3. M = {e \in S : e.contract # c \/ e.iso # fact.iso} \union {new}
    BY <1>2, <2>1 DEF MergeExpiration
  <2>4. ASSUME NEW e \in S, e.contract = c PROVE e.iso = fact.iso
    BY <2>4 DEF OfContract, Expiration
  <2>5. M = {e \in S : e.contract # c} \union {new} BY <2>3, <2>4
  <2>. QED BY <1>2, <2>2, <2>5 DEF OfContract
<1>. QED BY <1>1, <1>2

LEMMA MergeRenewalFacts ==
  ASSUME NEW c \in Contracts, NEW S \in SUBSET HasClause,
         NEW fact \in Texts \union {NoFact},
         \A g, h \in S : g.contract = h.contract => g = h,
         \A h \in OfContract(c, S) : h.text = fact,
         NEW M, M = MergeRenewal(S, c, fact)
  PROVE  /\ M \in SUBSET HasClause
         /\ \A x : x.contract # c => (x \in M <=> x \in S)
         /\ \A g, h \in M : g.contract = h.contract => g = h
         /\ \A h \in OfContract(c, M) : h.text = fact
         /\ fact # NoFact => OfContract(c, M) # {}
<1>1. CASE fact = NoFact
  BY <1>1 DEF MergeRenewal
<1>2. CASE fact # NoFact
  <2>1. PICK new : new = [contract |-> c, text |-> fact] OBVIOUS
  <2>2. new \in HasClause /\ new.contract = c /\ new.text = fact
    BY <1>2, <2>1 DEF HasClause
  <2>3. M = {h \in S : h.contract # c} \union {new}
    BY <1>2, <2>1 DEF MergeRenewal, OfContract
  <2>. QED BY <1>2, <2>2, <2>3 DEF OfContract
<1>. QED BY <1>1, <1>2

LEMMA MergeFactsStep == ASSUME GraphInv, MergeFacts PROVE GraphInv'
<1> DEFINE c == tx.contract
           E == MergeExpiration(tx.expiresOn, c, tx.facts.expiration)
           H == MergeRenewal(tx.hasClause, c, tx.facts.renewal)
<1>1. PICK row \in tx.rows :
        tx' = [contract |-> c, facts |-> tx.facts, expiresOn |-> E,
               hasClause |-> H, rows |-> tx.rows \ {row}]
  BY DEF MergeFacts
<1>2. tx \in [contract : Contracts, facts : Facts,
              expiresOn : SUBSET ExpiresOn, hasClause : SUBSET HasClause,
              rows : SUBSET (ExpiresOn \union HasClause \union {NoFact})]
  BY DEF GraphInv, MergeFacts, GraphTypeOK
<1>3. /\ c \in Contracts
      /\ tx.expiresOn \in SUBSET ExpiresOn
      /\ tx.hasClause \in SUBSET HasClause
      /\ tx.facts \in Facts
      /\ tx.facts.expiration \in Expirations \union {NoFact}
      /\ tx.facts.renewal \in Texts \union {NoFact}
  BY <1>2 DEF Facts
<1>4. /\ tx'.contract = c /\ tx'.facts = tx.facts
      /\ tx'.expiresOn = E /\ tx'.hasClause = H /\ tx'.rows = tx.rows \ {row}
  BY <1>1
<1>5. UNCHANGED <<graphVars, answered>> BY DEF MergeFacts
<1>6. TxInv /\ tx # NoTx BY DEF GraphInv, MergeFacts
<1>7. /\ E \in SUBSET ExpiresOn
      /\ \A x : x.contract # c => (x \in E <=> x \in tx.expiresOn)
      /\ \A d, e \in E : d.contract = e.contract => d = e
      /\ \A e \in OfContract(c, E) : Expiration(e) = tx.facts.expiration
      /\ tx.facts.expiration # NoFact => OfContract(c, E) # {}
  <2>1. /\ \A d, e \in tx.expiresOn : d.contract = e.contract => d = e
        /\ \A e \in OfContract(c, tx.expiresOn) :
             Expiration(e) = tx.facts.expiration
    BY <1>6 DEF TxInv, AtMostOne
  <2>. QED BY <1>3, <2>1, MergeExpirationFacts
<1>8. /\ H \in SUBSET HasClause
      /\ \A x : x.contract # c => (x \in H <=> x \in tx.hasClause)
      /\ \A g, h \in H : g.contract = h.contract => g = h
      /\ \A h \in OfContract(c, H) : h.text = tx.facts.renewal
      /\ tx.facts.renewal # NoFact => OfContract(c, H) # {}
  <2>1. /\ \A g, h \in tx.hasClause : g.contract = h.contract => g = h
        /\ \A h \in OfContract(c, tx.hasClause) : h.text = tx.facts.renewal
    BY <1>6 DEF TxInv, AtMostOne
  <2>. QED BY <1>3, <2>1, MergeRenewalFacts
<1> HIDE DEF c, E, H
<1>9. GraphTypeOK'
  BY <1>1, <1>2, <1>3, <1>5, <1>7, <1>8 DEF GraphInv, GraphTypeOK, graphVars
<1>10. OneFactEach' BY <1>5 DEF GraphInv, OneFactEach, graphVars
<1>11. TxInv'
  <2>1. /\ \A x \in ExpiresOn : x.contract # c => (x \in E <=> x \in expiresOn)
        /\ \A x \in HasClause : x.contract # c => (x \in H <=> x \in hasClause)
    BY <1>6, <1>7, <1>8 DEF TxInv, c
  <2>2. tx'.facts \in Projected BY <1>4, <1>6 DEF TxInv
  <2>. QED BY <1>4, <1>5, <1>7, <1>8, <2>1, <2>2 DEF TxInv, AtMostOne, graphVars
<1>. QED BY <1>9, <1>10, <1>11 DEF GraphInv

LEMMA CommitStep == ASSUME GraphInv, Commit PROVE GraphInv'
<1> USE DEF GraphInv, Commit
<1>1. GraphTypeOK' BY DEF GraphTypeOK
<1>2. TxInv' BY DEF TxInv
<1>3. OneFactEach'
  <2>1. AtMostOne(tx.expiresOn, tx.hasClause) BY DEF TxInv
  <2>2. \A x \in tx.expiresOn \union tx.hasClause :
          x.contract = tx.contract \/ x.contract \in contractNodes
    BY DEF TxInv, OneFactEach, GraphTypeOK
  <2>. QED BY <2>1, <2>2 DEF OneFactEach
<1>. QED BY <1>1, <1>2, <1>3

LEMMA AbortStep == ASSUME GraphInv, Abort PROVE GraphInv'
BY DEF GraphInv, Abort, GraphTypeOK, OneFactEach, TxInv, graphVars

LEMMA RowsType ==
  ASSUME GraphInv, NEW name, NEW lower, NEW upper
  PROVE  TemplateRows(name, lower, upper) \subseteq
           [contract : Contracts, expiration : Expirations,
            renewal : Texts \union {NoFact}]
BY DEF GraphInv, GraphTypeOK, TemplateRows, Row, Expiration, Expirations,
       Matching, OfContract, ExpiresOn, HasClause

LEMMA RunTemplateStep ==
  ASSUME GraphInv, NEW name, NEW lower, NEW upper, RunTemplate(name, lower, upper)
  PROVE  GraphInv'
<1> USE DEF GraphInv, RunTemplate, graphVars
<1>1. GraphTypeOK' BY RowsType DEF GraphTypeOK
<1>2. OneFactEach' /\ TxInv' BY DEF OneFactEach, TxInv
<1>. QED BY <1>1, <1>2

LEMMA NextInv == GraphInv /\ [GraphNext]_vars => GraphInv'
<1> SUFFICES ASSUME GraphInv, [GraphNext]_vars PROVE GraphInv' OBVIOUS
<1>1. CASE Upsert
  BY <1>1, BeginUpsertStep, MergeFactsStep, CommitStep, AbortStep DEF Upsert
<1>2. ASSUME NEW name \in Templates, NEW lower \in Day, NEW upper \in Day,
             RunTemplate(name, lower, upper)
      PROVE  GraphInv'
  BY <1>2, RunTemplateStep
<1>3. CASE UNCHANGED vars
  BY <1>3 DEF vars, graphVars, GraphInv, GraphTypeOK, OneFactEach, TxInv
<1>. QED BY <1>1, <1>2, <1>3 DEF GraphNext

\* The invariant of the graph holds for any contracts, texts and dates.
THEOREM Invariance == GraphSpec => []GraphInv
BY InitInv, NextInv, PTL DEF GraphSpec

\* Types are kept.
THEOREM TypeCorrect == GraphSpec => []GraphTypeOK
<1>1. GraphInv => GraphTypeOK BY DEF GraphInv
<1>. QED BY <1>1, Invariance, PTL

\* A contract never has two expirations or two renewals, however often it is
\* upserted, and though the statement merges once for each old relationship.
THEOREM OneFact == GraphSpec => []OneFactEach
<1>1. GraphInv => OneFactEach BY DEF GraphInv
<1>. QED BY <1>1, Invariance, PTL

----------------------------------------------------------------------------
(* The refinement.                                                         *)

\* With at most one element, FactOf is that element.
LEMMA FactsOfOne ==
  ASSUME NEW c \in Contracts, NEW E \in SUBSET ExpiresOn, NEW e \in E,
         e.contract = c, \A d \in E : d.contract = c => d = e
  PROVE  FactOf({Expiration(x) : x \in OfContract(c, E)}) = Expiration(e)
<1>1. {Expiration(x) : x \in OfContract(c, E)} = {Expiration(e)}
  BY DEF OfContract
<1>. QED BY <1>1, OnlyFact

LEMMA RenewalOfOne ==
  ASSUME NEW c \in Contracts, NEW H \in SUBSET HasClause, NEW h \in H,
         h.contract = c, \A g \in H : g.contract = c => g = h
  PROVE  FactOf({x.text : x \in OfContract(c, H)}) = h.text
<1>1. {x.text : x \in OfContract(c, H)} = {h.text} BY DEF OfContract
<1>. QED BY <1>1, OnlyFact

LEMMA FactsOfType == GraphInv => \A c \in Contracts : FactsOf(c) \in Facts
<1> SUFFICES ASSUME GraphInv, NEW c \in Contracts PROVE FactsOf(c) \in Facts
  OBVIOUS
<1>1. {Expiration(e) : e \in OfContract(c, expiresOn)} \in SUBSET Expirations
  BY DEF GraphInv, GraphTypeOK, OfContract, Expiration, Expirations, ExpiresOn
<1>2. {h.text : h \in OfContract(c, hasClause)} \in SUBSET Texts
  BY DEF GraphInv, GraphTypeOK, OfContract, HasClause
<1>. QED BY <1>1, <1>2, FactOfType DEF FactsOf, Facts

LEMMA InitRefines == GraphInit => Memory!MemInit
BY DEF GraphInit, Memory!MemInit, Dictionary

\* A commit replaces the facts of its contract and no others.
LEMMA CommitRefines ==
  ASSUME GraphInv, Commit
  PROVE  [Memory!MemNext]_(Memory!memVars)
<1>1. PICK c \in Contracts : c = tx.contract /\ tx.facts \in Facts
  BY DEF GraphInv, GraphTypeOK, Commit
<1>2. FactsOf(c)' = tx.facts
  <2>1. FactOf({Expiration(e) : e \in OfContract(c, tx.expiresOn)}) = tx.facts.expiration
    <3>1. CASE OfContract(c, tx.expiresOn) = {}
      BY <1>1, <3>1 DEF GraphInv, TxInv, Commit, FactOf
    <3>2. CASE OfContract(c, tx.expiresOn) # {}
      <4>1. {Expiration(e) : e \in OfContract(c, tx.expiresOn)} = {tx.facts.expiration}
        BY <1>1, <3>2 DEF GraphInv, TxInv, Commit
      <4>. QED BY <4>1, OnlyFact
    <3>. QED BY <3>1, <3>2
  <2>2. FactOf({h.text : h \in OfContract(c, tx.hasClause)}) = tx.facts.renewal
    <3>1. CASE OfContract(c, tx.hasClause) = {}
      BY <1>1, <3>1 DEF GraphInv, TxInv, Commit, FactOf
    <3>2. CASE OfContract(c, tx.hasClause) # {}
      <4>1. {h.text : h \in OfContract(c, tx.hasClause)} = {tx.facts.renewal}
        BY <1>1, <3>2 DEF GraphInv, TxInv, Commit
      <4>. QED BY <4>1, OnlyFact
    <3>. QED BY <3>1, <3>2
  <2>3. tx.facts = [expiration |-> tx.facts.expiration, renewal |-> tx.facts.renewal]
    BY <1>1 DEF Facts
  <2>4. expiresOn' = tx.expiresOn /\ hasClause' = tx.hasClause BY DEF Commit
  <2>5. FactsOf(c)' =
          [expiration |-> FactOf({Expiration(e) : e \in OfContract(c, tx.expiresOn)}),
           renewal |-> FactOf({h.text : h \in OfContract(c, tx.hasClause)})]
    BY <2>4 DEF FactsOf, OfContract
  <2>. QED BY <2>1, <2>2, <2>3, <2>5
<1>3. ASSUME NEW k \in Contracts, k # c PROVE FactsOf(k)' = FactsOf(k)
  <2>1. OfContract(k, tx.expiresOn) = OfContract(k, expiresOn)
    BY <1>1, <1>3 DEF GraphInv, GraphTypeOK, TxInv, Commit, OfContract
  <2>2. OfContract(k, tx.hasClause) = OfContract(k, hasClause)
    BY <1>1, <1>3 DEF GraphInv, GraphTypeOK, TxInv, Commit, OfContract
  <2>. QED BY <2>1, <2>2 DEF FactsOf, Commit
<1>4. Dictionary' = [Dictionary EXCEPT ![c] = tx.facts]
  <2>1. contractNodes' = contractNodes \union {c} BY <1>1 DEF Commit
  <2>2. Dictionary' =
          [k \in Contracts |-> IF k \in contractNodes \union {c}
                               THEN FactsOf(k)' ELSE Absent]
    BY <2>1 DEF Dictionary
  <2>. QED BY <1>1, <1>2, <1>3, <2>2 DEF Dictionary
<1>5. Memory!UpsertContract(c, tx.facts)
  BY <1>4 DEF Memory!UpsertContract, Commit
<1>6. tx.facts \in Projected BY DEF GraphInv, TxInv, Commit
<1>. QED BY <1>1, <1>5, <1>6 DEF Memory!MemNext

\* The MATCH of a template finds the rows that the dictionary gives.
LEMMA RowsRefine ==
  ASSUME GraphInv, NEW name \in Templates, NEW lower \in Day, NEW upper \in Day
  PROVE  TemplateRows(name, lower, upper) = Memory!RowsOf(name, lower, upper)
<1>1. ASSUME NEW e \in expiresOn
      PROVE  /\ e.contract \in Contracts
             /\ Dictionary[e.contract] = FactsOf(e.contract)
             /\ Dictionary[e.contract] # Absent
             /\ Dictionary[e.contract].expiration = Expiration(e)
             /\ Expiration(e) # NoFact
  <2>1. e.contract \in Contracts /\ e.contract \in contractNodes
    BY DEF GraphInv, GraphTypeOK, OneFactEach, ExpiresOn
  <2>2. Dictionary[e.contract] = FactsOf(e.contract)
    BY <2>1 DEF Dictionary
  <2>3. Dictionary[e.contract] # Absent
    BY <2>1, <2>2, FactsOfType, ConstantsAssumption DEF Facts, Expirations
  <2>4. FactOf({Expiration(x) : x \in OfContract(e.contract, expiresOn)}) = Expiration(e)
    BY <2>1, FactsOfOne DEF GraphInv, GraphTypeOK, OneFactEach, AtMostOne
  <2>5. Expiration(e) \in Expirations
    BY DEF GraphInv, GraphTypeOK, Expiration, Expirations, ExpiresOn
  <2>6. Expiration(e) # NoFact
    BY <2>5, ConstantsAssumption DEF Expirations
  <2>. QED BY <2>1, <2>2, <2>3, <2>4, <2>6 DEF FactsOf
<1>2. ASSUME NEW c \in Contracts, Memory!Expires(c, lower, upper)
      PROVE  \E e \in Matching(lower, upper) : e.contract = c
  <2>1. Dictionary[c] = FactsOf(c) BY <1>2 DEF Memory!Expires, Dictionary
  <2>2. OfContract(c, expiresOn) # {}
    BY <1>2, <2>1 DEF Memory!Expires, FactsOf, FactOf
  <2>3. PICK e \in expiresOn : e.contract = c BY <2>2 DEF OfContract
  <2>4. Dictionary[c].expiration = Expiration(e) BY <1>1, <2>3
  <2>. QED BY <1>2, <2>3, <2>4 DEF Memory!Expires, Matching, Expiration
<1>3. ASSUME NEW e \in Matching(lower, upper)
      PROVE  Memory!Expires(e.contract, lower, upper)
  <2>1. e \in expiresOn /\ lower <= e.iso /\ e.iso <= upper BY DEF Matching
  <2>2. Expiration(e).iso = e.iso BY DEF Expiration
  <2>. QED BY <1>1, <2>1, <2>2 DEF Memory!Expires
<1>4. ASSUME NEW h \in hasClause
      PROVE  FactsOf(h.contract).renewal = h.text /\ h.text # NoFact
  <2>1. h.contract \in Contracts /\ h.text \in Texts
    BY DEF GraphInv, GraphTypeOK, HasClause
  <2>2. FactOf({x.text : x \in OfContract(h.contract, hasClause)}) = h.text
    BY <2>1, RenewalOfOne DEF GraphInv, GraphTypeOK, OneFactEach, AtMostOne
  <2>. QED BY <2>1, <2>2, ConstantsAssumption DEF FactsOf
<1>5. CASE name = "expiring_within"
  <2> DEFINE K == {k \in Contracts : Memory!Expires(k, lower, upper)}
  <2>1. Memory!RowsOf(name, lower, upper) =
          {Row(c, Dictionary[c].expiration, NoFact) : c \in K}
    BY <1>5 DEF Memory!RowsOf, Memory!Row, Row
  <2>2. TemplateRows(name, lower, upper) =
          {Row(e.contract, Expiration(e), NoFact) : e \in Matching(lower, upper)}
    BY <1>5 DEF TemplateRows
  <2>3. \A e \in Matching(lower, upper) :
          e.contract \in K /\ Dictionary[e.contract].expiration = Expiration(e)
    BY <1>1, <1>3 DEF Matching
  <2>4. \A c \in K : \E e \in Matching(lower, upper) : e.contract = c
    BY <1>2
  <2> HIDE DEF K
  <2>. QED BY <2>1, <2>2, <2>3, <2>4
<1>6. CASE name # "expiring_within"
  <2> DEFINE K == {k \in Contracts : /\ Memory!Expires(k, lower, upper)
                                     /\ Dictionary[k].renewal # NoFact}
             R(c) == Row(c, Dictionary[c].expiration, Dictionary[c].renewal)
             T(e, h) == Row(e.contract, Expiration(e), h.text)
  <2>1. Memory!RowsOf(name, lower, upper) = {R(c) : c \in K}
    BY <1>6 DEF Memory!RowsOf, Memory!Row, Row
  <2>2. TemplateRows(name, lower, upper) =
          UNION {{T(e, h) : h \in OfContract(e.contract, hasClause)} :
                   e \in Matching(lower, upper)}
    BY <1>6 DEF TemplateRows
  <2>3. ASSUME NEW e \in Matching(lower, upper),
               NEW h \in OfContract(e.contract, hasClause)
        PROVE  e.contract \in K /\ T(e, h) = R(e.contract)
    <3>1. e \in expiresOn /\ h \in hasClause /\ h.contract = e.contract
      BY DEF Matching, OfContract
    <3>. QED BY <3>1, <1>1, <1>3, <1>4
  <2>4. ASSUME NEW c \in K
        PROVE  \E e \in Matching(lower, upper) :
                 \E h \in OfContract(e.contract, hasClause) : T(e, h) = R(c)
    <3>1. PICK e \in Matching(lower, upper) : e.contract = c BY <1>2
    <3>2. Dictionary[c] = FactsOf(c) BY <1>1, <3>1 DEF Matching
    <3>3. OfContract(c, hasClause) # {}
      BY <3>2 DEF FactsOf, FactOf
    <3>4. PICK h \in OfContract(e.contract, hasClause) : TRUE BY <3>1, <3>3
    <3>. QED BY <2>3, <3>1, <3>4
  <2> HIDE DEF K, R, T
  <2>. QED BY <2>1, <2>2, <2>3, <2>4
<1>. QED BY <1>5, <1>6

LEMMA RunTemplateRefines ==
  ASSUME GraphInv, NEW name \in Templates, NEW lower \in Day, NEW upper \in Day,
         RunTemplate(name, lower, upper)
  PROVE  [Memory!MemNext]_(Memory!memVars)
<1>1. Dictionary' = Dictionary
  BY DEF RunTemplate, graphVars, Dictionary, FactsOf
<1>2. Memory!RunTemplate(name, lower, upper)
  BY <1>1, RowsRefine DEF RunTemplate, Memory!RunTemplate
<1>. QED BY <1>2 DEF Memory!MemNext, Templates, Memory!Templates

LEMMA NextRefines ==
  GraphInv /\ [GraphNext]_vars => [Memory!MemNext]_(Memory!memVars)
<1> SUFFICES ASSUME GraphInv, [GraphNext]_vars
             PROVE  [Memory!MemNext]_(Memory!memVars)
  OBVIOUS
<1>1. ASSUME UNCHANGED <<graphVars, answered>>
      PROVE  UNCHANGED Memory!memVars
  BY <1>1 DEF graphVars, Memory!memVars, Dictionary, FactsOf
<1>2. CASE Upsert
  BY <1>1, <1>2, CommitRefines DEF Upsert, BeginUpsert, MergeFacts, Abort
<1>3. CASE UNCHANGED vars BY <1>1, <1>3 DEF vars
<1>. QED BY <1>2, <1>3, RunTemplateRefines DEF GraphNext

\* The Neo4j store is equivalent to the in-memory one: each initial state maps
\* to an initial state of the dictionary, each step to a step or a stutter.
THEOREM RefinesMemory == GraphSpec => ImplementsMemory
<1>1. GraphSpec => Memory!MemInit /\ [][Memory!MemNext]_(Memory!memVars)
  BY InitRefines, NextRefines, Invariance, PTL DEF GraphSpec
<1>. QED BY <1>1 DEF ImplementsMemory, Memory!MemSpec

====
