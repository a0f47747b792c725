---- MODULE Ask_proofs ----
(***************************************************************************)
(* Proofs about Ask, for any number of calls, chunks, contracts and days:  *)
(* what an answer cites is enough, in scope, and of today.                 *)
(***************************************************************************)
EXTENDS Ask, FiniteSetTheorems, WellFoundedInduction, TLAPS

----------------------------------------------------------------------------
(* The best of a finite set.                                               *)

\* A set of naturals has a least element.
LEMMA LeastNat ==
  ASSUME NEW N \in SUBSET Nat, N # {}
  PROVE  \E n \in N : \A m \in N : n <= m
<1>. DEFINE R == {p \in Nat \X Nat : p[1] < p[2]}
<1>1. IsWellFoundedOn(R, Nat)
  <2>1. OpToRel(<, Nat) = R
    BY DEF OpToRel
  <2>. QED BY <2>1, NatLessThanWellFounded
<1>2. PICK n \in N : \A m \in N : <<m, n>> \notin R
  <2>. HIDE DEF R
  <2>. QED BY <1>1, WFMin
<1>3. ASSUME NEW m \in N PROVE n <= m
  <2>1. m \in Nat /\ n \in Nat /\ <<m, n>> \in Nat \X Nat /\ <<m, n>> \notin R
    BY <1>2
  <2>2. ~ (m < n)
    BY <2>1
  <2>. QED BY <2>1, <2>2
<1>. QED BY <1>3

\* The n best chunks of a finite set are n at least, or all of them.
LEMMA TopIsEnough ==
  ASSUME NEW n \in Nat, NEW S, IsFiniteSet(S),
         NEW score, \A c \in S : score[c] \in Nat
  PROVE  /\ Top(n, S, score) \subseteq S
         /\ Cardinality(Top(n, S, score)) >= n \/ Top(n, S, score) = S
<1>. DEFINE Higher(c) == {d \in S : score[d] > score[c]}
            T == Top(n, S, score)
            Ranks == {Cardinality(Higher(c)) : c \in S \ T}
<1>1. T = {c \in S : Cardinality(Higher(c)) < n} /\ T \subseteq S
  BY DEF Top
<1>2. \A c \in S : IsFiniteSet(Higher(c)) /\ Cardinality(Higher(c)) \in Nat
  BY FS_Subset, FS_CardinalityType
<1>3. CASE S \ T = {}
  BY <1>1, <1>3
<1>4. CASE S \ T # {}
  <2>1. Ranks \in SUBSET Nat /\ Ranks # {}
    BY <1>2, <1>4
  <2>2. PICK c \in S \ T : \A d \in S \ T : Cardinality(Higher(c)) <= Cardinality(Higher(d))
    <3>1. PICK k \in Ranks : \A m \in Ranks : k <= m
      <4>. HIDE DEF Ranks
      <4>. QED BY <2>1, LeastNat
    <3>2. PICK c \in S \ T : k = Cardinality(Higher(c))
      BY <3>1
    <3>3. ASSUME NEW d \in S \ T PROVE Cardinality(Higher(c)) <= Cardinality(Higher(d))
      <4>1. Cardinality(Higher(d)) \in Ranks
        OBVIOUS
      <4>. QED BY <3>1, <3>2, <4>1
    <3>. QED BY <3>3
  <2>3. ASSUME NEW d \in Higher(c) PROVE d \in T
    <3>1. SUFFICES ASSUME d \notin T PROVE FALSE
      OBVIOUS
    <3>2. d \in S \ T /\ score[d] > score[c] /\ score[d] \in Nat /\ score[c] \in Nat
      BY <3>1
    <3>3. Higher(d) \subseteq Higher(c) /\ d \notin Higher(d)
      BY <3>2
    <3>4. Cardinality(Higher(d)) <= Cardinality(Higher(c)) /\ Higher(d) # Higher(c)
      BY <1>2, <3>3, FS_Subset
    <3>5. Cardinality(Higher(d)) # Cardinality(Higher(c))
      BY <1>2, <3>3, <3>4, FS_Subset
    <3>6. Cardinality(Higher(c)) \in Nat /\ Cardinality(Higher(d)) \in Nat
      BY <1>2, <3>2
    <3>7. Cardinality(Higher(c)) <= Cardinality(Higher(d))
      BY <2>2, <3>2
    <3>. HIDE DEF Higher
    <3>. QED BY <3>4, <3>5, <3>6, <3>7
  <2>4. Cardinality(Higher(c)) >= n
    BY <1>1, <1>2
  <2>5. IsFiniteSet(T) /\ Cardinality(T) \in Nat
    BY <1>1, FS_Subset, FS_CardinalityType
  <2>6. Cardinality(Higher(c)) <= Cardinality(T)
    BY <2>3, <2>5, FS_Subset
  <2>7. Cardinality(Higher(c)) \in Nat
    BY <1>2
  <2>8. Cardinality(T) >= n
    <3>. HIDE DEF T, Higher
    <3>. QED BY <2>4, <2>5, <2>6, <2>7
  <2>. QED BY <1>1, <2>8
<1>. QED BY <1>3, <1>4

----------------------------------------------------------------------------
(* What a step leaves alone.                                               *)

LEMMA DaysAreIntegers == Day \subseteq Int
BY AskAssumption

\* A window that is asked for, or the default, is a number of days.
LEMMA WithinType ==
  ASSUME NEW q \in Questions, q.days # Overflow
  PROVE  Within(q) \in 0 .. MaxDays
<1>1. q.days \in 0 .. MaxDays \union {NoDays, Overflow}
  BY AskAssumption DEF QuestionType
<1>. QED BY <1>1, AskAssumption DEF Within

LEMMA InitInv == AskInit => AskInv
<1>. SUFFICES ASSUME AskInit PROVE AskInv
  OBVIOUS
<1>1. AskTypeOK
  BY AskAssumption DEF AskInit, AskTypeOK
<1>2. \A r \in Asks : CallInv(r)
  BY DEF AskInit, CallInv, PastInv, PathInv, EvidenceInv, Succeeded
<1>3. data \in [Contracts -> Upserted \union {Absent}] /\ IsFiniteSet(indexed)
  BY FS_EmptySet DEF AskInit, MemInit
<1>. QED BY <1>1, <1>2, <1>3 DEF AskInv

\* The invariant of a call that does not move holds while chunks are added and
\* days go by.
LEMMA StandingCall ==
  ASSUME NEW r \in Asks, AskTypeOK, AskTypeOK', CallInv(r),
         indexed \subseteq indexed', today <= today',
         pc'[r] = pc[r], question'[r] = question[r], tools'[r] = tools[r],
         found'[r] = found[r], citations'[r] = citations[r],
         known'[r] = known[r], sent'[r] = sent[r]
  PROVE  CallInv(r)'
<1>1. FromGraph(r)' = FromGraph(r) /\ Succeeded(r)' = Succeeded(r)
      /\ Within(question'[r]) = Within(question[r])
  BY DEF FromGraph, Succeeded
<1>2. PastInv(r)'
  BY DEF CallInv, PastInv, AskTypeOK
<1>3. PathInv(r)'
  BY <1>1 DEF CallInv, PathInv
<1>4. InScope(r, indexed) \subseteq InScope(r, indexed)'
      /\ \A S : Enough(r, S)' = Enough(r, S)
  BY DEF InScope, Enough
<1>5. ASSUME pc[r] = "generate" \/ Succeeded(r), FromGraph(r), NEW c \in citations[r]
      PROVE  InWindow(r, c)'
  <2>1. c \in GraphCitation /\ InWindow(r, c)
        /\ question[r] \in Questions /\ question[r].days # Overflow
    BY <1>5 DEF CallInv, PastInv, EvidenceInv, Succeeded
  <2>2. c.iso \in Int /\ Within(question[r]) \in Int
    <3>1. c.iso \in Day
      BY <2>1 DEF GraphCitation
    <3>2. Within(question[r]) \in Int
      BY <2>1, WithinType
    <3>. QED BY <3>1, <3>2, DaysAreIntegers
  <2>. QED BY <1>1, <2>1, <2>2 DEF InWindow, AskTypeOK
<1>6. EvidenceInv(r)'
  BY <1>1, <1>4, <1>5 DEF CallInv, EvidenceInv
<1>. QED BY <1>2, <1>3, <1>6 DEF CallInv

\* Handlers change neither the stores nor the calendar, and no other call.
OneCall(r) ==
  /\ UNCHANGED <<data, today, indexed>>
  /\ \A s \in Asks \ {r} :
       /\ pc'[s] = pc[s] /\ question'[s] = question[s] /\ tools'[s] = tools[s]
       /\ found'[s] = found[s] /\ citations'[s] = citations[s]
       /\ known'[s] = known[s] /\ sent'[s] = sent[s]

LEMMA OtherCalls ==
  ASSUME AskInv, AskTypeOK', NEW r \in Asks, OneCall(r), CallInv(r)'
  PROVE  AskInv'
<1>1. indexed' = indexed /\ today' = today /\ today \in Int /\ data' = data
  BY DEF OneCall, AskInv, AskTypeOK
<1>2. ASSUME NEW s \in Asks \ {r} PROVE CallInv(s)'
  <2>1. /\ pc'[s] = pc[s] /\ question'[s] = question[s] /\ tools'[s] = tools[s]
        /\ found'[s] = found[s] /\ citations'[s] = citations[s]
        /\ known'[s] = known[s] /\ sent'[s] = sent[s]
    BY DEF OneCall
  <2>. QED BY <1>1, <2>1, StandingCall DEF AskInv
<1>. QED BY <1>1, <1>2 DEF AskInv

----------------------------------------------------------------------------
(* The environment.                                                        *)

LEMMA SendStep ==
  ASSUME AskInv, NEW r \in Asks, Send(r)
  PROVE  AskInv'
<1>1. AskTypeOK /\ CallInv(r)
  BY DEF AskInv
<1>2. AskTypeOK'
  BY <1>1 DEF AskTypeOK, Send, Goto, Steps
<1>3. OneCall(r)
  BY <1>1 DEF OneCall, Send, Goto, memVars, AskTypeOK
<1>4. pc'[r] = "route" /\ question'[r] \in Questions
      /\ known'[r] = indexed' /\ sent'[r] = today' /\ today' \in Int
  BY <1>1 DEF Send, Goto, AskTypeOK
<1>5. CallInv(r)'
  BY <1>4 DEF CallInv, PastInv, PathInv, EvidenceInv, Succeeded
<1>. QED BY <1>2, <1>3, <1>5, OtherCalls

LEMMA EnvironmentStep ==
  ASSUME AskInv,
         \/ \E c \in Contracts, gc \in Upserted : BuildContract(c, gc)
         \/ \E c \in Chunks : IndexChunk(c)
         \/ Midnight
         \/ UNCHANGED vars
  PROVE  AskInv'
<1>1. AskTypeOK /\ IsFiniteSet(indexed) /\ data \in [Contracts -> Upserted \union {Absent}]
  BY DEF AskInv
<1>2. UNCHANGED askVars
  BY DEF BuildContract, IndexChunk, Midnight, vars
<1>3. today' \in 0 .. LastToday /\ today <= today'
  BY <1>1, AskAssumption DEF BuildContract, IndexChunk, Midnight, vars, AskTypeOK
<1>4. indexed \subseteq indexed' /\ indexed' \subseteq Chunks /\ IsFiniteSet(indexed')
  BY <1>1, FS_AddElement DEF BuildContract, IndexChunk, Midnight, vars, AskTypeOK
<1>5. data' \in [Contracts -> Upserted \union {Absent}]
  BY <1>1 DEF BuildContract, UpsertContract, IndexChunk, Midnight, vars, memVars
<1>6. AskTypeOK'
  BY <1>1, <1>2, <1>3, <1>4 DEF AskTypeOK, askVars
<1>7. ASSUME NEW r \in Asks PROVE CallInv(r)'
  BY <1>1, <1>2, <1>3, <1>4, <1>6, StandingCall DEF AskInv, askVars
<1>. QED BY <1>4, <1>5, <1>6, <1>7 DEF AskInv

----------------------------------------------------------------------------
(* The handler.                                                            *)

LEMMA RouteStep ==
  ASSUME AskInv, NEW r \in Asks, Route(r)
  PROVE  AskInv'
<1>1. AskTypeOK /\ CallInv(r)
  BY DEF AskInv
<1>2. AskTypeOK'
  BY <1>1 DEF AskTypeOK, Route, Goto, Steps, memVars
<1>3. OneCall(r)
  BY <1>1 DEF OneCall, Route, Goto, memVars, AskTypeOK
<1>4. /\ pc'[r] = IF FromGraph(r) THEN "graph" ELSE "vector"
      /\ UNCHANGED <<question, tools, indexed, known, sent, today>> /\ pc[r] = "route"
  BY <1>1 DEF Route, Goto, AskTypeOK, FromGraph
<1>5. FromGraph(r)' = FromGraph(r)
  BY <1>4 DEF FromGraph
<1>6. PastInv(r)'
  BY <1>1, <1>4 DEF CallInv, PastInv
<1>7. PathInv(r)' /\ EvidenceInv(r)'
  BY <1>4, <1>5 DEF PathInv, EvidenceInv, Succeeded
<1>. QED BY <1>2, <1>3, <1>6, <1>7, OtherCalls DEF CallInv

\* What the templates return expires in their window, and is what was upserted.
LEMMA RowsInWindow ==
  ASSUME data \in [Contracts -> Upserted \union {Absent}],
         NEW name, NEW lower, NEW upper, NEW x \in RowsOf(name, lower, upper)
  PROVE  /\ x.contract \in Contracts /\ x.expiration \in Expirations
         /\ x.renewal \in Texts \union {NoFact}
         /\ lower <= x.expiration.iso /\ x.expiration.iso <= upper
<1>1. PICK k \in Contracts :
        /\ Expires(k, lower, upper)
        /\ x = Row(k, data[k].expiration, NoFact) \/ x = Row(k, data[k].expiration, data[k].renewal)
  BY DEF RowsOf
<1>2. data[k] \in GraphContracts /\ data[k].expiration # NoFact
  BY <1>1, AskAssumption DEF Expires
<1>3. data[k].expiration \in Expirations /\ data[k].renewal \in Texts \union {NoFact}
  BY <1>2 DEF GraphContracts
<1>4. x.contract = k /\ x.expiration = data[k].expiration
      /\ x.renewal \in {NoFact, data[k].renewal}
  BY <1>1 DEF Row
<1>. QED BY <1>1, <1>3, <1>4 DEF Expires

LEMMA CitedInWindow ==
  ASSUME data \in [Contracts -> Upserted \union {Absent}],
         NEW name, NEW lower, NEW upper, NEW c \in Cited(RowsOf(name, lower, upper))
  PROVE  c \in GraphCitation /\ lower <= c.iso /\ c.iso <= upper
<1>. DEFINE rows == RowsOf(name, lower, upper)
<1>1. PICK x \in rows :
        \/ c = [contract |-> x.contract, clause |-> "Expiration Date",
                text |-> x.expiration.text, iso |-> x.expiration.iso]
        \/ /\ x.renewal # NoFact
           /\ c = [contract |-> x.contract, clause |-> "Renewal Term",
                   text |-> x.renewal, iso |-> x.expiration.iso]
  <2>. HIDE DEF rows
  <2>1. c \in Cited(rows)
    BY DEF rows
  <2>. QED BY <2>1 DEF Cited
<1>2. /\ x.contract \in Contracts /\ x.expiration \in Expirations
      /\ x.renewal \in Texts \union {NoFact}
      /\ lower <= x.expiration.iso /\ x.expiration.iso <= upper
  BY RowsInWindow
<1>3. c.iso = x.expiration.iso /\ c \in GraphCitation
  <2>1. x.expiration.iso \in Day /\ x.expiration.text \in Texts
    BY <1>2 DEF Expirations
  <2>2. CASE c = [contract |-> x.contract, clause |-> "Expiration Date",
                  text |-> x.expiration.text, iso |-> x.expiration.iso]
    BY <1>2, <2>1, <2>2 DEF GraphCitation
  <2>3. CASE /\ x.renewal # NoFact
             /\ c = [contract |-> x.contract, clause |-> "Renewal Term",
                     text |-> x.renewal, iso |-> x.expiration.iso]
    BY <1>2, <2>1, <2>3 DEF GraphCitation
  <2>. QED BY <1>1, <2>2, <2>3
<1>. QED BY <1>2, <1>3

LEMMA QueryGraphStep ==
  ASSUME AskInv, NEW r \in Asks, QueryGraph(r)
  PROVE  AskInv'
<1>1. AskTypeOK /\ CallInv(r) /\ data \in [Contracts -> Upserted \union {Absent}]
  BY DEF AskInv
<1>. DEFINE rows == RowsOf(Template(question[r]), today, today + Within(question[r]))
<1>2. /\ UNCHANGED <<data, question, tools, indexed, known, sent, today, found>>
      /\ pc[r] = "graph" /\ question[r].days # Overflow
      /\ pc' = [pc EXCEPT ![r] = "generate"]
      /\ citations' = [citations EXCEPT ![r] = Cited(rows)]
  BY DEF QueryGraph, RunTemplate, Goto
<1>3. ASSUME NEW c \in Cited(rows)
      PROVE  c \in GraphCitation /\ today <= c.iso /\ c.iso <= today + Within(question[r])
  BY <1>1, <1>3, CitedInWindow
<1>. HIDE DEF rows
<1>4. AskTypeOK'
  BY <1>1, <1>2, <1>3 DEF AskTypeOK, Steps
<1>5. OneCall(r)
  BY <1>1, <1>2 DEF OneCall, AskTypeOK
<1>6. pc'[r] = "generate" /\ citations'[r] = Cited(rows) /\ FromGraph(r)' /\ PastInv(r)'
  BY <1>1, <1>2 DEF AskTypeOK, CallInv, PathInv, PastInv, FromGraph
<1>7. ASSUME NEW c \in Cited(rows) PROVE InWindow(r, c)'
  <2>1. c.iso \in Int /\ today \in Int /\ sent[r] \in Int /\ sent[r] <= today
    <3>1. c.iso \in Day
      BY <1>3 DEF GraphCitation
    <3>2. today \in Int /\ sent[r] \in Int /\ sent[r] <= today
      BY <1>1 DEF AskTypeOK, CallInv, PastInv
    <3>. QED BY <3>1, <3>2, DaysAreIntegers
  <2>. QED BY <1>2, <1>3, <2>1 DEF InWindow, Within
<1>8. PathInv(r)' /\ EvidenceInv(r)'
  BY <1>2, <1>3, <1>6, <1>7 DEF PathInv, EvidenceInv, Succeeded
<1>. QED BY <1>4, <1>5, <1>6, <1>8, OtherCalls DEF CallInv

\* The chunks in scope are finitely many, each with both scores.
LEMMA ScopeFacts ==
  ASSUME AskInv, NEW r \in Asks, pc[r] # "idle", NEW S \in SUBSET indexed
  PROVE  /\ IsFiniteSet(S) /\ InScope(r, S) \subseteq S /\ IsFiniteSet(InScope(r, S))
         /\ question[r].topK \in Nat \ {0}
         /\ \A c \in S : Fused[c] \in Nat /\ Cross[c] \in Nat
<1>1. IsFiniteSet(indexed) /\ indexed \subseteq Chunks /\ question[r] \in Questions
  BY DEF AskInv, AskTypeOK, CallInv, PastInv
<1>2. IsFiniteSet(S) /\ InScope(r, S) \subseteq S
  BY <1>1, FS_Subset DEF InScope
<1>3. IsFiniteSet(InScope(r, S))
  BY <1>2, FS_Subset
<1>4. question[r].topK \in Nat \ {0}
  BY <1>1, AskAssumption DEF QuestionType
<1>. QED BY <1>1, <1>2, <1>3, <1>4, AskAssumption

LEMMA SearchStep ==
  ASSUME AskInv, NEW r \in Asks, Search(r)
  PROVE  AskInv'
<1>. DEFINE scope == InScope(r, indexed)
            best == Top(Pool(r), scope, Fused)
<1>1. AskTypeOK /\ CallInv(r) /\ pc[r] = "vector" /\ ~FromGraph(r)
  BY DEF AskInv, Search, CallInv, PathInv
<1>2. /\ UNCHANGED <<data, question, tools, indexed, known, sent, today, citations>>
      /\ pc' = [pc EXCEPT ![r] = "rerank"]
      /\ found' = [found EXCEPT ![r] = best]
  BY DEF Search, Goto, memVars
<1>3. /\ IsFiniteSet(scope) /\ scope \subseteq indexed
      /\ question[r].topK \in Nat /\ \A c \in scope : Fused[c] \in Nat
  BY <1>1, ScopeFacts
<1>4. Pool(r) \in Nat /\ Pool(r) >= question[r].topK
  BY <1>3, AskAssumption DEF Pool
<1>5. best \subseteq scope /\ (Cardinality(best) >= Pool(r) \/ best = scope)
  BY <1>3, <1>4, TopIsEnough
<1>6. Cardinality(best) \in Nat
  <2>1. IsFiniteSet(best)
    BY <1>3, <1>5, FS_Subset
  <2>. QED BY <2>1, FS_CardinalityType
<1>7. Enough(r, best)
  <2>1. CASE best = scope
    BY <1>1, <2>1 DEF Enough, InScope, CallInv, PastInv
  <2>2. CASE Cardinality(best) >= Pool(r)
    <3>. HIDE DEF best
    <3>. QED BY <1>3, <1>4, <1>6, <2>2 DEF Enough
  <2>. QED BY <1>5, <2>1, <2>2
<1>. HIDE DEF best
<1>8. AskTypeOK'
  BY <1>1, <1>2, <1>3, <1>5 DEF AskTypeOK, Steps
<1>9. OneCall(r)
  BY <1>1, <1>2 DEF OneCall, AskTypeOK
<1>10. pc'[r] = "rerank" /\ found'[r] = best
  BY <1>1, <1>2 DEF AskTypeOK
<1>11. PastInv(r)' /\ PathInv(r)'
  BY <1>1, <1>2, <1>10 DEF CallInv, PastInv, PathInv, FromGraph
<1>12. Enough(r, found[r])' /\ InScope(r, indexed)' = scope
  BY <1>2, <1>7, <1>10 DEF Enough, InScope
<1>13. EvidenceInv(r)'
  BY <1>5, <1>10, <1>12 DEF EvidenceInv, Succeeded
<1>. QED BY <1>8, <1>9, <1>11, <1>13, OtherCalls DEF CallInv

LEMMA RerankStep ==
  ASSUME AskInv, NEW r \in Asks, Rerank(r)
  PROVE  AskInv'
<1>. DEFINE kept == IF "reranker" \in tools[r] THEN Top(question[r].topK, found[r], Cross)
                    ELSE found[r]
<1>1. AskTypeOK /\ CallInv(r) /\ pc[r] = "rerank" /\ ~FromGraph(r)
  BY DEF AskInv, Rerank, CallInv, PathInv
<1>2. /\ UNCHANGED <<data, question, tools, indexed, known, sent, today>>
      /\ pc' = [pc EXCEPT ![r] = "generate"]
      /\ found' = [found EXCEPT ![r] = {}]
      /\ citations' = [citations EXCEPT ![r] = kept]
  BY DEF Rerank, Goto, memVars
<1>3. found[r] \subseteq InScope(r, indexed) /\ found[r] \subseteq indexed
      /\ Enough(r, found[r])
  BY <1>1 DEF CallInv, EvidenceInv, InScope
<1>4. /\ IsFiniteSet(found[r]) /\ question[r].topK \in Nat
      /\ \A c \in found[r] : Cross[c] \in Nat
  BY <1>1, <1>3, ScopeFacts
<1>5. kept \subseteq found[r] /\ (Cardinality(kept) >= question[r].topK \/ kept = found[r])
  BY <1>4, TopIsEnough
<1>. HIDE DEF kept
<1>6. Enough(r, kept)
  BY <1>3, <1>5 DEF Enough
<1>7. AskTypeOK'
  BY <1>1, <1>2, <1>3, <1>5 DEF AskTypeOK, Steps
<1>8. OneCall(r)
  BY <1>1, <1>2 DEF OneCall, AskTypeOK
<1>9. pc'[r] = "generate" /\ citations'[r] = kept
  BY <1>1, <1>2 DEF AskTypeOK
<1>10. PastInv(r)' /\ PathInv(r)' /\ ~FromGraph(r)'
  BY <1>1, <1>2, <1>9 DEF CallInv, PastInv, PathInv, FromGraph
<1>11. Enough(r, citations[r])' /\ InScope(r, indexed)' = InScope(r, indexed)
  BY <1>2, <1>6, <1>9 DEF Enough, InScope
<1>12. EvidenceInv(r)'
  BY <1>3, <1>5, <1>9, <1>10, <1>11 DEF EvidenceInv
<1>. QED BY <1>7, <1>8, <1>10, <1>12, OtherCalls DEF CallInv

LEMMA EndStep ==
  ASSUME AskInv, NEW r \in Asks, Unavailable(r) \/ Generate(r) \/ Degrade(r)
  PROVE  AskInv'
<1>1. AskTypeOK /\ CallInv(r)
  BY DEF AskInv
<1>2. /\ UNCHANGED <<data, question, tools, indexed, known, sent, today, found, citations>>
      /\ \/ pc' = [pc EXCEPT ![r] = "unavailable"] /\ pc[r] \in {"graph", "vector", "rerank"}
         \/ pc[r] = "generate" /\ \/ pc' = [pc EXCEPT ![r] = "answered"]
                                  \/ pc' = [pc EXCEPT ![r] = "citationsOnly"]
  BY DEF Unavailable, Generate, Degrade, Goto, memVars
<1>3. AskTypeOK'
  BY <1>1, <1>2 DEF AskTypeOK, Ended
<1>4. OneCall(r)
  BY <1>1, <1>2 DEF OneCall, AskTypeOK
<1>5. \/ pc'[r] = "unavailable" /\ pc[r] # "idle"
      \/ pc[r] = "generate" /\ pc'[r] \in {"answered", "citationsOnly"}
  BY <1>1, <1>2 DEF AskTypeOK
<1>6. PastInv(r)' /\ PathInv(r)'
  BY <1>1, <1>2, <1>5 DEF CallInv, PastInv, PathInv
<1>7. EvidenceInv(r)'
  BY <1>1, <1>2, <1>5 DEF CallInv, EvidenceInv, Succeeded, FromGraph, InWindow, Within,
     InScope, Enough
<1>. QED BY <1>3, <1>4, <1>6, <1>7, OtherCalls DEF CallInv

----------------------------------------------------------------------------
(* The theorems.                                                           *)

LEMMA NextInv == AskInv /\ [AskNext]_vars => AskInv'
<1>. SUFFICES ASSUME AskInv, [AskNext]_vars PROVE AskInv'
  OBVIOUS
<1>1. ASSUME NEW r \in Asks, Send(r) \/ Handler(r) PROVE AskInv'
  BY <1>1, SendStep, RouteStep, QueryGraphStep, SearchStep, RerankStep, EndStep DEF Handler
<1>. QED BY <1>1, EnvironmentStep DEF AskNext

\* The inductive invariant of the calls of /ask, the index and the graph.
THEOREM Invariance == AskSpec => []AskInv
BY InitInv, NextInv, PTL DEF AskSpec

\* Every variable keeps its type: what is cited of the graph exists.
THEOREM TypeCorrect == AskSpec => []AskTypeOK
<1>1. AskInv => AskTypeOK BY DEF AskInv
<1>. QED BY <1>1, Invariance, PTL

\* answer_question cites as many chunks as were asked for, or all in scope.
THEOREM CitationsAreEnough == AskSpec => []EnoughCitations
<1>1. AskInv => EnoughCitations
  BY DEF AskInv, CallInv, EvidenceInv, EnoughCitations
<1>. QED BY <1>1, Invariance, PTL

\* retrieve_citations never leaves the contract it was asked about.
THEOREM SearchStaysInScope == AskSpec => []ChunksOfScope
<1>1. AskInv => ChunksOfScope
  BY DEF AskInv, CallInv, EvidenceInv, ChunksOfScope
<1>. QED BY <1>1, Invariance, PTL

\* answer_graph_question counts its window from the day of the query.
THEOREM WindowStartsToday == AskSpec => []WindowIsCurrent
<1>1. AskInv => WindowIsCurrent
  BY DEF AskInv, CallInv, EvidenceInv, WindowIsCurrent
<1>. QED BY <1>1, Invariance, PTL

====
