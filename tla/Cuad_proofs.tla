---- MODULE Cuad_proofs ----
(***************************************************************************)
(* Proofs about the contract model: of Contract, for contracts of any      *)
(* length, any settings and any answers of the model, where clauses lie,   *)
(* that the best are found, and what chunks hold; of Training, for any     *)
(* number of steps, versions and failures, that what is registered was     *)
(* trained to the end.                                                     *)
(***************************************************************************)
EXTENDS Contract, Training, FiniteSetTheorems, WellFoundedInduction, TLAPS

\* The types of the constants that the steps compute with.
LEMMA Constants ==
  /\ WindowSize \in Nat /\ Stride \in Nat /\ WindowSize - Stride \in Nat \ {0}
  /\ QuestionLength \in Nat /\ BeforeText \in Nat
  /\ NBest \in Nat /\ MaxAnswerLength \in Nat /\ NoAnswerThreshold \in Int
BY ContractAssumption DEF BeforeText

LEMMA InitInv == Init => ContractInv
<1>. SUFFICES ASSUME Init PROVE ContractInv
  OBVIOUS
<1>1. ContractTypeOK
  <2>1. pdf \in Pdfs /\ pdf \in PdfType
    BY ContractAssumption DEF Init
  <2>. QED BY <2>1, ContractAssumption DEF Init, ContractTypeOK, Texts, PdfType
<1>2. SpanInv /\ ChunkInv /\ SpansOfContract /\ ChunksAreNumbered
  BY DEF Init, SpanInv, ChunkInv, WholeBefore, SpansOfContract, ChunksAreNumbered
<1>. QED BY <1>1, <1>2 DEF ContractInv

----------------------------------------------------------------------------
(* The text.                                                               *)

LEMMA Concatenation ==
  ASSUME NEW S, NEW x \in Seq(S), NEW y \in Seq(S)
  PROVE  x \o y \in Seq(S)
OBVIOUS

LEMMA SelectSourceStep ==
  ASSUME ContractInv, SelectSource
  PROVE  ContractInv'
<1>1. source' \in {"digital", "ocr"} /\ pc = "ingest" /\ pc' = "read"
  BY DEF SelectSource
<1>2. UNCHANGED <<pdf, page, text, askVars, chunkVars>>
  BY DEF SelectSource
<1>3. ContractTypeOK' /\ SpanInv' /\ ChunkInv' /\ SpansOfContract' /\ ChunksAreNumbered'
  BY <1>1, <1>2 DEF ContractInv, ContractTypeOK, SpanInv, ChunkInv, SpansOfContract,
     ChunksAreNumbered, OfText, WholeBefore, Short, IsBlank, Letters, Slice, InOneChunk,
     askVars, chunkVars
<1>. QED BY <1>3 DEF ContractInv

\* While pages are read there are no spans, no clauses and no chunks.
LEMMA ReadPageStep ==
  ASSUME ContractInv, ReadPage
  PROVE  ContractInv'
<1>1. ContractTypeOK /\ pc = "read" /\ pc' = pc
  BY DEF ContractInv, ReadPage
<1>2. UNCHANGED <<pdf, source, askVars, chunkVars>>
  BY DEF ReadPage
<1> DEFINE Page == [digital : Texts, ocr : Texts]
<1>3. pdf \in Seq(Page) /\ page \in 0 .. Len(pdf)
  BY <1>1, ContractAssumption DEF ContractTypeOK, PdfType
<1>4. page' \in 1 .. Len(pdf) /\ page' \in 0 .. Len(pdf)
  <2>. HIDE DEF Page
  <2>. QED BY <1>3 DEF ReadPage
<1>5. pdf[page'] \in Page
  <2>. HIDE DEF Page
  <2>. QED BY <1>3, <1>4
<1>6. pdf[page'][source] \in Texts
  BY <1>1, <1>5 DEF ContractTypeOK
<1>7. text \o <<"blank">> \in Texts
  BY <1>1, Concatenation DEF ContractTypeOK, Texts
<1>8. text' \in Texts
  <2>1. text' = pdf[page'][source] \/ text' = (text \o <<"blank">>) \o pdf[page'][source]
    BY DEF ReadPage
  <2>2. (text \o <<"blank">>) \o pdf[page'][source] \in Texts
    BY <1>6, <1>7, Concatenation DEF Texts
  <2>. QED BY <1>6, <2>1, <2>2
<1>9. ContractTypeOK'
  BY <1>1, <1>2, <1>4, <1>8 DEF ContractTypeOK, askVars, chunkVars
<1>10. spans = {} /\ clauses = <<>> /\ position = 0
  BY <1>1 DEF ContractInv, SpanInv, ChunkInv
<1>11. SpanInv' /\ SpansOfContract' /\ ChunksAreNumbered'
  BY <1>1, <1>2, <1>10 DEF ContractInv, SpanInv, SpansOfContract, ChunksAreNumbered,
     askVars, chunkVars
<1>12. ChunkInv'
  BY <1>1, <1>2, <1>8, <1>10 DEF ChunkInv, WholeBefore, chunkVars, Texts
<1>. QED BY <1>9, <1>11, <1>12 DEF ContractInv

----------------------------------------------------------------------------
(* The clauses.                                                            *)

\* A position that is not masked has a token of the text, and its offsets.
LEMMA Unmasked ==
  ASSUME ContractTypeOK, NEW w \in Nat \ {0}, NEW j \in Positions,
         Offsets(w)[j] # <<0, 0>>
  PROVE  /\ Offsets(w)[j] = <<TokenAt(w, j) - 1, TokenAt(w, j)>>
         /\ TokenAt(w, j) \in 1 .. Len(text)
BY DEF Offsets, HasText

LEMMA SpanOfText ==
  ASSUME ContractTypeOK, NEW w \in Nat \ {0}, NEW s \in Positions, NEW e \in Positions,
         Offsets(w)[s] # <<0, 0>>, Offsets(w)[e] # <<0, 0>>, Admissible(s, e),
         NEW score \in Int
  PROVE  Span(w, <<s, e>>, score) \in Spans /\ OfText(Span(w, <<s, e>>, score))
<1> DEFINE a == TokenAt(w, s)
           b == TokenAt(w, e)
           shift == (w - 1) * (WindowSize - Stride) - BeforeText
<1>1. Offsets(w)[s] = <<a - 1, a>> /\ Offsets(w)[e] = <<b - 1, b>>
  BY Unmasked
<1>2. a \in 1 .. Len(text) /\ b \in 1 .. Len(text)
  BY Unmasked
<1>3. Span(w, <<s, e>>, score) = [window |-> w, from |-> a - 1, to |-> b, score |-> score]
  BY <1>1 DEF Span
<1>4. Len(text) \in Nat
  BY DEF ContractTypeOK, Texts
<1>5. a <= b /\ b - a + 1 <= MaxAnswerLength
  <2>1. s \in Int /\ e \in Int
    BY Constants DEF Positions
  <2>2. (w - 1) * (WindowSize - Stride) \in Int
    BY Constants
  <2>3. shift \in Int
    BY <2>2, Constants
  <2>4. a = s + shift /\ b = e + shift
    BY <2>1, <2>2, Constants DEF TokenAt
  <2>. HIDE DEF a, b, shift
  <2>. QED BY <2>1, <2>3, <2>4, Constants DEF Admissible
<1>. HIDE DEF a, b
<1>. QED BY <1>2, <1>3, <1>4, <1>5, Constants DEF Spans, OfText

LEMMA BestSpansOfText ==
  ASSUME ContractTypeOK, NEW w \in Nat \ {0}, NEW l \in Logits,
         NEW best \in BestSpans(w, l), NEW x \in best
  PROVE  x \in Spans /\ OfText(x)
<1>1. PICK starts \in Endpoints(w, l.start), ends \in Endpoints(w, l.end) :
        best \in BestOf(w, l, Pairs(starts, ends))
  BY DEF BestSpans
<1>2. PICK kept \in SUBSET Pairs(starts, ends) :
        best = {Span(w, p, PairScore(l, p)) : p \in kept}
  BY <1>1 DEF BestOf, Best
<1>3. PICK p \in Pairs(starts, ends) : x = Span(w, p, PairScore(l, p))
  BY <1>2
<1>4. PICK s \in starts, e \in ends : p = <<s, e>> /\ Admissible(s, e)
  BY DEF Pairs
<1>5. /\ s \in Positions /\ Offsets(w)[s] # <<0, 0>>
      /\ e \in Positions /\ Offsets(w)[e] # <<0, 0>>
  BY DEF Endpoints, Best
<1>6. PairScore(l, p) \in Int
  BY <1>4, <1>5, ContractAssumption DEF LogitsType, PairScore
<1>. QED BY <1>3, <1>4, <1>5, <1>6, SpanOfText

LEMMA AskWindowStep ==
  ASSUME ContractInv, AskWindow
  PROVE  ContractInv'
<1>1. /\ ContractTypeOK /\ SpanInv /\ ChunkInv /\ SpansOfContract /\ ChunksAreNumbered
      /\ window \in Nat /\ pc = "ask"
  BY DEF ContractInv, AskWindow, ContractTypeOK
<1>2. window' \in Nat \ {0} /\ UNCHANGED <<pc, textVars, asked, clauses, chunkVars>>
  BY <1>1 DEF AskWindow
<1>3. PICK l \in Logits :
        /\ \E best \in BestSpans(window', l) : spans' = spans \union best
        /\ logits' = IF window = 0 THEN <<l>> ELSE Append(logits, l)
  BY DEF AskWindow
<1>4. \A x \in spans' : x \in Spans /\ OfText(x)
  BY <1>1, <1>2, <1>3, BestSpansOfText DEF SpanInv, ContractTypeOK
<1>5. logits' \in Seq(Logits)
  BY <1>1, <1>3 DEF ContractTypeOK
<1>6. ContractTypeOK'
  BY <1>1, <1>2, <1>4, <1>5 DEF ContractTypeOK, textVars, chunkVars
<1>7. SpanInv' /\ ChunkInv' /\ SpansOfContract' /\ ChunksAreNumbered'
  BY <1>1, <1>2, <1>4 DEF SpanInv, ChunkInv, SpansOfContract, ChunksAreNumbered, OfText,
     WholeBefore, Short, IsBlank, Letters, Slice, InOneChunk, textVars, chunkVars
<1>. QED BY <1>6, <1>7 DEF ContractInv

LEMMA ClauseParts ==
  ASSUME NEW x
  PROVE  /\ Clause(x).question = asked + 1 /\ Clause(x).from = x.from
         /\ Clause(x).to = x.to /\ Clause(x).score = x.score
BY DEF Clause

\* The first n of a ranking of m candidates, those above the threshold, are
\* appended to the clauses.
Aggregates(m, ranked, n) ==
  /\ m \in 0 .. NBest /\ ranked \in [1 .. m -> spans] /\ n \in 0 .. m
  /\ \A i, j \in 1 .. m :
       i < j => ranked[i] # ranked[j] /\ ranked[i].score >= ranked[j].score
  /\ \A x \in spans : \/ \E i \in 1 .. m : ranked[i] = x
                      \/ m = NBest /\ \A i \in 1 .. m : ranked[i].score >= x.score
  /\ \A i \in 1 .. m : i <= n <=> ranked[i].score >= NoAnswerThreshold
  /\ clauses' \in Seq(Clauses) /\ Len(clauses') = Len(clauses) + n
  /\ \A i \in 1 .. Len(clauses) : clauses'[i] = clauses[i]
  /\ \A k \in 1 .. n : clauses'[Len(clauses) + k] = Clause(ranked[k])

LEMMA Aggregated ==
  ASSUME ContractInv, AggregateClause
  PROVE  \E m, ranked, n : Aggregates(m, ranked, n)
<1>1. PICK ranked \in Rankings : \E n \in 0 .. Len(ranked) :
        /\ \A i \in DOMAIN ranked : i <= n <=> ranked[i].score >= NoAnswerThreshold
        /\ clauses' = clauses \o [i \in 1 .. n |-> Clause(ranked[i])]
  BY DEF AggregateClause
<1>2. PICK m \in 0 .. NBest : ranked \in [1 .. m -> spans]
  BY DEF Rankings
<1>3. m \in Nat /\ Len(ranked) = m /\ DOMAIN ranked = 1 .. m
  BY <1>2, Constants
<1>4. PICK n \in 0 .. m :
        /\ \A i \in 1 .. m : i <= n <=> ranked[i].score >= NoAnswerThreshold
        /\ clauses' = clauses \o [i \in 1 .. n |-> Clause(ranked[i])]
  BY <1>1, <1>3
<1>5. clauses \in Seq(Clauses) /\ asked \in Nat /\ spans \subseteq Spans
  BY DEF ContractInv, ContractTypeOK
<1> DEFINE new == [i \in 1 .. n |-> Clause(ranked[i])]
<1>6. n \in Nat /\ Len(new) = n /\ \A k \in 1 .. n : new[k] = Clause(ranked[k])
  BY <1>3
<1>7. new \in Seq(Clauses)
  <2>1. ASSUME NEW k \in 1 .. n PROVE Clause(ranked[k]) \in Clauses
    <3>1. ranked[k] \in Spans
      BY <1>2, <1>3, <1>5
    <3>. QED BY <1>5, <3>1 DEF Clause, Clauses, Spans
  <2>. QED BY <1>6, <2>1
<1>8. /\ clauses' \in Seq(Clauses) /\ Len(clauses') = Len(clauses) + n
      /\ \A i \in 1 .. Len(clauses) : clauses'[i] = clauses[i]
      /\ \A k \in 1 .. n : clauses'[Len(clauses) + k] = new[k]
  <2>. HIDE DEF new
  <2>. QED BY <1>4, <1>5, <1>6, <1>7 DEF new
<1>9. \A i, j \in 1 .. m :
        i < j => ranked[i] # ranked[j] /\ ranked[i].score >= ranked[j].score
  BY <1>3 DEF Rankings
<1>10. ASSUME NEW x \in spans
       PROVE  \/ \E i \in 1 .. m : ranked[i] = x
              \/ m = NBest /\ \A i \in 1 .. m : ranked[i].score >= x.score
  <2>1. CASE x \in Range(ranked)
    BY <1>3, <2>1 DEF Range
  <2>2. CASE x \notin Range(ranked)
    BY <1>3, <2>2 DEF Rankings
  <2>. QED BY <2>1, <2>2
<1>. HIDE DEF new
<1>11. \A k \in 1 .. n : clauses'[Len(clauses) + k] = Clause(ranked[k])
  BY <1>6, <1>8
<1>12. n \in 0 .. m /\ m \in 0 .. NBest /\ ranked \in [1 .. m -> spans]
  BY <1>2, <1>4
<1>13. \A i \in 1 .. m : i <= n <=> ranked[i].score >= NoAnswerThreshold
  BY <1>4
<1>14. Aggregates(m, ranked, n)
  BY <1>8, <1>9, <1>10, <1>11, <1>12, <1>13 DEF Aggregates
<1>. QED BY <1>14

LEMMA AggregateClauseStep ==
  ASSUME ContractInv, AggregateClause
  PROVE  ContractInv'
<1>1. /\ ContractTypeOK /\ SpanInv /\ ChunkInv /\ SpansOfContract /\ ChunksAreNumbered
      /\ pc = "ask" /\ clauses \in Seq(Clauses) /\ asked \in Nat /\ NumQuestions \in Nat
  BY ContractAssumption DEF ContractInv, AggregateClause, ContractTypeOK
<1>2. /\ UNCHANGED <<pc, textVars, logits, chunkVars>>
      /\ asked' = asked + 1 /\ asked' \in 0 .. NumQuestions
      /\ window' = 0 /\ spans' = {}
  BY <1>1 DEF AggregateClause
<1>3. PICK m, ranked, n : Aggregates(m, ranked, n)
  BY Aggregated
<1>4. ASSUME NEW k \in 1 .. n
      PROVE  /\ clauses'[Len(clauses) + k] = Clause(ranked[k])
             /\ ranked[k] \in spans /\ ranked[k].score >= NoAnswerThreshold
  <2>1. /\ m \in 0 .. NBest /\ n \in 0 .. m /\ ranked \in [1 .. m -> spans]
        /\ \A i \in 1 .. m : i <= n <=> ranked[i].score >= NoAnswerThreshold
        /\ clauses'[Len(clauses) + k] = Clause(ranked[k])
    BY <1>3 DEF Aggregates
  <2>2. k \in 1 .. m /\ k <= n
    BY <2>1, Constants
  <2>. QED BY <2>1, <2>2
<1>5. /\ clauses' \in Seq(Clauses) /\ Len(clauses') = Len(clauses) + n /\ n \in Nat
      /\ \A i \in 1 .. Len(clauses) : clauses'[i] = clauses[i]
  BY <1>3, Constants DEF Aggregates
<1>6. SpansOfContract'
  <2>1. ASSUME NEW i \in 1 .. Len(clauses')
        PROVE  OfText(clauses'[i]) /\ clauses'[i].score >= NoAnswerThreshold
    <3>1. CASE i <= Len(clauses)
      BY <1>1, <1>5, <3>1 DEF SpansOfContract
    <3>2. CASE i > Len(clauses)
      <4>1. i - Len(clauses) \in 1 .. n /\ Len(clauses) + (i - Len(clauses)) = i
        BY <1>1, <1>5, <3>2
      <4>2. PICK k \in 1 .. n : clauses'[i] = Clause(ranked[k])
        BY <1>4, <4>1
      <4>3. OfText(ranked[k]) /\ ranked[k].score >= NoAnswerThreshold
        BY <1>1, <1>4 DEF SpanInv
      <4>. QED BY <4>2, <4>3, ClauseParts DEF OfText
    <3>. QED BY <1>1, <1>5, <3>1, <3>2
  <2>2. text' = text
    BY <1>2 DEF textVars
  <2>. QED BY <2>1, <2>2 DEF SpansOfContract, OfText
<1>7. ContractTypeOK'
  BY <1>1, <1>2, <1>5 DEF ContractTypeOK, textVars, chunkVars
<1>8. SpanInv' /\ ChunkInv' /\ ChunksAreNumbered'
  BY <1>1, <1>2 DEF SpanInv, ChunkInv, ChunksAreNumbered,
     WholeBefore, Short, IsBlank, Letters, Slice, InOneChunk, textVars, chunkVars
<1>. QED BY <1>6, <1>7, <1>8 DEF ContractInv

----------------------------------------------------------------------------
(* The chunks.                                                             *)

LEMMA BeginChunksStep ==
  ASSUME ContractInv, BeginChunks
  PROVE  ContractInv'
<1>1. /\ ContractTypeOK /\ SpanInv /\ ChunkInv /\ SpansOfContract /\ ChunksAreNumbered
      /\ pc = "ask" /\ pc' = "chunk" /\ position = 0
  BY DEF ContractInv, BeginChunks, ChunkInv
<1>2. UNCHANGED <<textVars, asked, window, spans, clauses, chunks, taken, position, index>>
  BY DEF BeginChunks
<1>3. chunking' \in [size : Nat \ {0}, overlap : Nat] /\ logits' = <<>>
  BY ContractAssumption DEF BeginChunks
<1>4. ContractTypeOK'
  BY <1>1, <1>2, <1>3 DEF ContractTypeOK, textVars
<1>5. ChunkInv'
  BY <1>1, <1>2 DEF ChunkInv, WholeBefore, textVars, ContractTypeOK, Texts
<1>6. SpanInv' /\ SpansOfContract' /\ ChunksAreNumbered'
  BY <1>1, <1>2 DEF SpanInv, SpansOfContract, ChunksAreNumbered, OfText, textVars
<1>. QED BY <1>1, <1>4, <1>5, <1>6 DEF ContractInv

\* A chunk that is added has the next number, and no chunk is lost.
LEMMA AddChunkEffect ==
  ASSUME ContractTypeOK, ChunksAreNumbered, NEW from \in Nat, NEW to \in Nat,
         NEW kind \in {"clause", "paragraph"}, AddChunk(from, to, kind),
         textVars' = textVars
  PROVE  /\ chunks' \in Seq(Chunks) /\ index' \in Nat /\ ChunksAreNumbered'
         /\ \A a, b : InOneChunk(a, b) => InOneChunk(a, b)'
         /\ kind = "paragraph" /\ ~IsBlank(Slice(from, to)) =>
              \E i \in 1 .. Len(chunks') :
                /\ chunks'[i].kind = "paragraph"
                /\ chunks'[i].from = from /\ chunks'[i].to = to
<1>1. chunks \in Seq(Chunks) /\ index \in Nat /\ Len(chunks) \in Nat
  BY DEF ContractTypeOK
<1>2. CASE IsBlank(Slice(from, to))
  BY <1>1, <1>2 DEF AddChunk, ChunksAreNumbered, InOneChunk
<1>3. CASE ~IsBlank(Slice(from, to))
  <2> DEFINE c == Chunk(from, to, kind)
  <2>1. chunks' = Append(chunks, c) /\ index' = index + 1
    BY <1>3 DEF AddChunk
  <2>2. c \in Chunks /\ c.from = from /\ c.to = to /\ c.kind = kind /\ c.index = index
    BY <1>1 DEF Chunk, Chunks
  <2>. HIDE DEF c
  <2>3. /\ chunks' \in Seq(Chunks) /\ Len(chunks') = Len(chunks) + 1
        /\ chunks'[Len(chunks) + 1] = c
        /\ \A i \in 1 .. Len(chunks) : chunks'[i] = chunks[i]
    BY <1>1, <2>1, <2>2
  <2>4. ChunksAreNumbered'
    <3>1. index' = Len(chunks')
      BY <1>1, <2>1, <2>3 DEF ChunksAreNumbered
    <3>2. \A i \in 1 .. Len(chunks) + 1 : chunks'[i].index = i - 1
      BY <1>1, <2>2, <2>3 DEF ChunksAreNumbered
    <3>. QED BY <2>3, <3>1, <3>2 DEF ChunksAreNumbered
  <2>5. \A a, b : InOneChunk(a, b) => InOneChunk(a, b)'
    BY <1>1, <2>3 DEF InOneChunk
  <2>6. Len(chunks) + 1 \in 1 .. Len(chunks')
    BY <1>1, <2>3
  <2>. QED BY <1>1, <2>1, <2>2, <2>3, <2>4, <2>5, <2>6
<1>. QED BY <1>2, <1>3

LEMMA ChunkClauseStep ==
  ASSUME ContractInv, ChunkClause
  PROVE  ContractInv'
<1>1. /\ ContractTypeOK /\ SpanInv /\ ChunkInv /\ SpansOfContract /\ ChunksAreNumbered
      /\ clauses \in Seq(Clauses) /\ taken \in 0 .. Len(clauses)
  BY DEF ContractInv, ContractTypeOK
<1>2. UNCHANGED <<pc, textVars, askVars, chunking, position>>
  BY DEF ChunkClause
<1>3. taken' \in 1 .. Len(clauses) /\ taken' \in 0 .. Len(clauses)
  BY <1>1 DEF ChunkClause
<1>4. clauses[taken'].from \in Nat /\ clauses[taken'].to \in Nat
  <2>1. clauses[taken'] \in Clauses
    BY <1>1, <1>3
  <2>. QED BY <2>1 DEF Clauses
<1>5. /\ chunks' \in Seq(Chunks) /\ index' \in Nat /\ ChunksAreNumbered'
      /\ \A a, b : InOneChunk(a, b) => InOneChunk(a, b)'
  BY <1>1, <1>2, <1>4, AddChunkEffect DEF ChunkClause
<1>6. ContractTypeOK'
  BY <1>1, <1>2, <1>3, <1>5 DEF ContractTypeOK, textVars, askVars
<1>7. ChunkInv'
  BY <1>1, <1>2, <1>5 DEF ChunkInv, WholeBefore, Short, IsBlank, Letters, Slice, textVars,
     ChunkClause
<1>8. SpanInv' /\ SpansOfContract'
  BY <1>1, <1>2 DEF SpanInv, SpansOfContract, OfText, textVars, askVars
<1>. QED BY <1>5, <1>6, <1>7, <1>8 DEF ContractInv

LEMMA BlankSlice ==
  ASSUME text \in Texts, NEW a \in Nat, NEW b \in Nat, b <= Len(text)
  PROVE  ~IsBlank(Slice(a, b)) <=> \E p \in a + 1 .. b : text[p] = "letter"
<1> DEFINE t == Slice(a, b)
<1>1. CASE a >= b
  BY <1>1 DEF Slice, IsBlank, Letters, Texts
<1>2. CASE a < b
  <2>1. Len(t) = b - a /\ \A i \in 1 .. b - a : t[i] = text[a + i]
    BY <1>2 DEF Slice, Texts
  <2>2. ASSUME NEW p \in a + 1 .. b
        PROVE  p - a \in 1 .. b - a /\ t[p - a] = text[p]
    <3>1. p - a \in 1 .. b - a /\ a + (p - a) = p
      OBVIOUS
    <3>. HIDE DEF t
    <3>. QED BY <2>1, <3>1
  <2>3. \A i \in 1 .. b - a : a + i \in a + 1 .. b
    OBVIOUS
  <2>. HIDE DEF t
  <2>4. ~IsBlank(t) <=> \E i \in 1 .. b - a : t[i] = "letter"
    BY <2>1 DEF IsBlank, Letters
  <2>5. (\E i \in 1 .. b - a : t[i] = "letter") <=> \E p \in a + 1 .. b : text[p] = "letter"
    BY <2>1, <2>2, <2>3
  <2>. QED BY <2>4, <2>5 DEF t
<1>. QED BY <1>1, <1>2

\* A short passage that begins in the step from position on ends in the chunk.
LEMMA PassageFits ==
  ASSUME ContractTypeOK, NEW a \in Nat, NEW b \in Nat, b <= Len(text),
         position <= a, a < position + Step, Short(b - a)
  PROVE  b <= position + chunking.size /\ Step \in Nat \ {0}
<1>1. /\ chunking.size \in Nat \ {0} /\ chunking.overlap \in Nat
      /\ position \in Nat /\ Len(text) \in Nat
  BY DEF ContractTypeOK, Texts
<1>2. CASE chunking.size > chunking.overlap
  BY <1>1, <1>2 DEF Step, Short
<1>3. CASE ~(chunking.size > chunking.overlap)
  BY <1>1, <1>3 DEF Step, Short
<1>. QED BY <1>2, <1>3

LEMMA ChunkParagraphStep ==
  ASSUME ContractInv, ChunkParagraph
  PROVE  ContractInv'
<1> DEFINE end == position + chunking.size
           to == IF end < Len(text) THEN end ELSE Len(text)
<1>1. /\ ContractTypeOK /\ SpanInv /\ ChunkInv /\ SpansOfContract /\ ChunksAreNumbered
      /\ text \in Texts /\ Len(text) \in Nat /\ position \in Nat
      /\ chunking.size \in Nat \ {0} /\ chunking.overlap \in Nat
  BY DEF ContractInv, ContractTypeOK, Texts
<1>2. /\ UNCHANGED <<pc, textVars, askVars, chunking, taken>>
      /\ position' = position + Step /\ position < Len(text) /\ pc = "chunk"
      /\ AddChunk(position, to, "paragraph")
  BY DEF ChunkParagraph
<1>3. to \in Nat /\ to <= Len(text)
  BY <1>1
<1>4. Step \in Nat \ {0}
  BY <1>1 DEF Step
<1>5. textVars' = textVars /\ text' = text
  BY <1>2 DEF textVars
<1>6. \A b : b <= Len(text) /\ b <= end => b <= to
  OBVIOUS
<1>. HIDE DEF to
<1>7. /\ chunks' \in Seq(Chunks) /\ index' \in Nat /\ ChunksAreNumbered'
      /\ \A a, b : InOneChunk(a, b) => InOneChunk(a, b)'
      /\ ~IsBlank(Slice(position, to)) =>
           \E i \in 1 .. Len(chunks') :
             /\ chunks'[i].kind = "paragraph"
             /\ chunks'[i].from = position /\ chunks'[i].to = to
  BY <1>1, <1>2, <1>3, <1>5, AddChunkEffect
<1>8. ASSUME NEW a \in 0 .. Len(text), NEW b \in a .. Len(text),
             a < position', Short(b - a), ~IsBlank(Slice(a, b))
      PROVE  InOneChunk(a, b)'
  <2>1. a \in Nat /\ b \in Nat /\ b <= Len(text)
    BY <1>1
  <2>2. CASE a < position
    <3>1. InOneChunk(a, b)
      BY <1>1, <1>8, <2>2 DEF ChunkInv, WholeBefore
    <3>. QED BY <1>7, <3>1
  <2>3. CASE position <= a
    <3>1. b <= to
      BY <1>1, <1>2, <1>6, <1>8, <2>1, <2>3, PassageFits
    <3>2. PICK p \in a + 1 .. b : text[p] = "letter"
      BY <1>1, <1>8, <2>1, BlankSlice
    <3>3. p \in position + 1 .. to
      BY <1>1, <1>3, <2>1, <2>3, <3>1
    <3>4. ~IsBlank(Slice(position, to))
      BY <1>1, <1>3, <3>2, <3>3, BlankSlice
    <3>. QED BY <1>7, <2>3, <3>1, <3>4 DEF InOneChunk
  <2>. QED BY <1>1, <2>1, <2>2, <2>3
<1>9. ChunkInv'
  <2>1. \A a, b : Short(b - a)' = Short(b - a) /\ IsBlank(Slice(a, b))' = IsBlank(Slice(a, b))
    BY <1>2, <1>5 DEF Short, IsBlank, Letters, Slice
  <2>2. WholeBefore(position)'
    BY <1>5, <1>8, <2>1 DEF WholeBefore
  <2>. QED BY <1>2, <2>2 DEF ChunkInv
<1>10. ContractTypeOK'
  BY <1>1, <1>2, <1>4, <1>7 DEF ContractTypeOK, textVars, askVars
<1>11. SpanInv' /\ SpansOfContract'
  BY <1>1, <1>2 DEF SpanInv, SpansOfContract, OfText, textVars, askVars
<1>. QED BY <1>7, <1>9, <1>10, <1>11 DEF ContractInv

----------------------------------------------------------------------------
(* The best spans of a question.                                           *)

\* What is left out of the NBest best is no better than NBest others.
LEMMA BestKeeps ==
  ASSUME NEW S, IsFiniteSet(S), NEW score, NEW T \in Best(S, score)
  PROVE  /\ IsFiniteSet(T) /\ T \subseteq S
         /\ \A x \in S \ T : Cardinality(T) = NBest /\ \A a \in T : score[a] >= score[x]
<1>1. /\ T \subseteq S
      /\ Cardinality(T) = IF Cardinality(S) < NBest THEN Cardinality(S) ELSE NBest
      /\ \A a \in T : \A b \in S \ T : score[a] >= score[b]
  BY DEF Best
<1>2. IsFiniteSet(T) /\ (Cardinality(S) = Cardinality(T) => S = T)
  BY <1>1, FS_Subset
<1>. QED BY <1>1, <1>2

\* Exactly the positions with a token of the text are unmasked.
LEMMA TextIsUnmasked ==
  ASSUME ContractTypeOK, NEW w \in Nat \ {0}, NEW j \in Positions
  PROVE  /\ Offsets(w)[j] # <<0, 0>> <=> HasText(w, j)
         /\ HasText(w, j) => Offsets(w)[j] = <<TokenAt(w, j) - 1, TokenAt(w, j)>>
         /\ TokenAt(w, j) \in Int
<1>1. j \in Int /\ (w - 1) * (WindowSize - Stride) \in Int
  BY Constants DEF Positions
<1>2. TokenAt(w, j) \in Int
  BY <1>1, Constants DEF TokenAt
<1>3. Len(text) \in Nat
  BY DEF ContractTypeOK, Texts
<1>4. HasText(w, j) => TokenAt(w, j) # 0
  BY <1>2, <1>3 DEF HasText
<1>. QED BY <1>2, <1>4 DEF Offsets

\* Different positions have different tokens.
LEMMA TokensDiffer ==
  ASSUME NEW w \in Nat \ {0}, NEW j \in Positions, NEW k \in Positions,
         TokenAt(w, j) = TokenAt(w, k)
  PROVE  j = k
<1>1. j \in Int /\ k \in Int /\ (w - 1) * (WindowSize - Stride) \in Int
  BY Constants DEF Positions
<1>. QED BY <1>1, Constants DEF TokenAt

LEMMA FinitePositions == IsFiniteSet(Positions)
BY FS_Interval, Constants DEF Positions

\* A token of the text that is not crowded is among the endpoints.
LEMMA EndpointKept ==
  ASSUME ContractTypeOK, NEW w \in Nat \ {0}, NEW score, NEW T \in Endpoints(w, score),
         NEW j \in Positions, HasText(w, j), ~Crowded(w, score, j)
  PROVE  j \in T
<1> DEFINE S == {k \in Positions : Offsets(w)[k] # <<0, 0>>}
           Others == {k \in Positions \ {j} : HasText(w, k) /\ score[k] >= score[j]}
<1>1. IsFiniteSet(Positions)
  BY FinitePositions
<1>2. /\ IsFiniteSet(S) /\ IsFiniteSet(Others)
      /\ Cardinality(Others) \in Nat /\ ~(Cardinality(Others) >= NBest)
  <2>1. S \in SUBSET Positions /\ Others \in SUBSET Positions
    OBVIOUS
  <2>2. IsFiniteSet(S) /\ IsFiniteSet(Others)
    BY <1>1, <2>1, FS_Subset
  <2>3. Cardinality(Others) \in Nat
    BY <2>2, FS_CardinalityType
  <2>. QED BY <2>2, <2>3 DEF Crowded
<1>3. T \in Best(S, score) /\ j \in S
  BY TextIsUnmasked DEF Endpoints
<1>4. ASSUME j \notin T
      PROVE  FALSE
  <2>1. /\ T \subseteq S /\ IsFiniteSet(T) /\ Cardinality(T) = NBest
        /\ \A a \in T : score[a] >= score[j]
    BY <1>2, <1>3, <1>4, BestKeeps
  <2>2. T \in SUBSET Others
    BY <1>4, <2>1, TextIsUnmasked
  <2>3. Cardinality(T) <= Cardinality(Others)
    BY <1>2, <2>2, FS_Subset
  <2>. QED BY <1>2, <2>1, <2>3, Constants
<1>. QED BY <1>4

\* The span of two positions with a token of the text: its ends and its score.
LEMMA SpanOfTokens ==
  ASSUME ContractTypeOK, NEW w \in Nat \ {0}, NEW s \in Positions, NEW e \in Positions,
         HasText(w, s), HasText(w, e), NEW score
  PROVE  Span(w, <<s, e>>, score) =
           [window |-> w, from |-> TokenAt(w, s) - 1, to |-> TokenAt(w, e), score |-> score]
BY TextIsUnmasked DEF Span

\* The spans of one window are as many as the pairs that were kept for them.
LEMMA SpansOfPairs ==
  ASSUME ContractTypeOK, NEW w \in Nat \ {0}, NEW l, NEW pairs, IsFiniteSet(pairs),
         \A p \in pairs : \E s, e \in Positions :
           p = <<s, e>> /\ HasText(w, s) /\ HasText(w, e),
         NEW best, best = {Span(w, p, PairScore(l, p)) : p \in pairs}
  PROVE  IsFiniteSet(best) /\ Cardinality(best) = Cardinality(pairs)
<1> DEFINE f == [p \in pairs |-> Span(w, p, PairScore(l, p))]
<1>1. ASSUME NEW p \in pairs, NEW q \in pairs, f[p] = f[q]
      PROVE  p = q
  <2>1. PICK s, e \in Positions : p = <<s, e>> /\ HasText(w, s) /\ HasText(w, e)
    OBVIOUS
  <2>2. PICK t, d \in Positions : q = <<t, d>> /\ HasText(w, t) /\ HasText(w, d)
    OBVIOUS
  <2>3. Span(w, <<s, e>>, PairScore(l, p)) = Span(w, <<t, d>>, PairScore(l, q))
    BY <1>1, <2>1, <2>2
  <2>4. Span(w, <<s, e>>, PairScore(l, p)) =
          [window |-> w, from |-> TokenAt(w, s) - 1, to |-> TokenAt(w, e),
           score |-> PairScore(l, p)]
    BY <2>1, SpanOfTokens
  <2>5. Span(w, <<t, d>>, PairScore(l, q)) =
          [window |-> w, from |-> TokenAt(w, t) - 1, to |-> TokenAt(w, d),
           score |-> PairScore(l, q)]
    BY <2>2, SpanOfTokens
  <2>6. /\ TokenAt(w, s) \in Int /\ TokenAt(w, t) \in Int
    BY TextIsUnmasked
  <2>7. TokenAt(w, s) - 1 = TokenAt(w, t) - 1 /\ TokenAt(w, e) = TokenAt(w, d)
    <3>. DEFINE S(from, to, score) == [window |-> w, from |-> from, to |-> to, score |-> score]
    <3>1. \A a, b, c, a2, b2, c2 : S(a, b, c) = S(a2, b2, c2) => a = a2 /\ b = b2
      OBVIOUS
    <3>2. S(TokenAt(w, s) - 1, TokenAt(w, e), PairScore(l, p))
            = S(TokenAt(w, t) - 1, TokenAt(w, d), PairScore(l, q))
      BY <2>3, <2>4, <2>5
    <3>. HIDE DEF S
    <3>. QED BY <3>1, <3>2
  <2>. QED BY <2>1, <2>2, <2>6, <2>7, TokensDiffer
<1>2. f \in [pairs -> best] /\ \A z \in best : \E p \in pairs : f[p] = z
  OBVIOUS
<1>3. f \in Injection(pairs, best) /\ f \in Surjection(pairs, best)
  <2>. HIDE DEF f
  <2>. QED BY <1>1, <1>2 DEF Injection, Surjection, IsInjective
<1>. QED BY <1>3, FS_Surjection

\* What best_spans_from_window returns: finitely many answers of the window, and
\* every answer whose ends were kept, unless NBest others are as good.
LEMMA SpansOfWindow ==
  ASSUME ContractTypeOK, NEW w \in Nat \ {0}, NEW l \in Logits,
         NEW best \in BestSpans(w, l)
  PROVE  /\ IsFiniteSet(best)
         /\ \A z \in best : \E s, e \in Positions :
              /\ HasText(w, s) /\ HasText(w, e)
              /\ z = [window |-> w, from |-> TokenAt(w, s) - 1, to |-> TokenAt(w, e),
                      score |-> l.start[s] + l.end[e]]
         /\ \A s, e \in Positions :
              /\ HasText(w, s) /\ HasText(w, e) /\ Admissible(s, e)
              /\ ~Crowded(w, l.start, s) /\ ~Crowded(w, l.end, e)
              => \/ [window |-> w, from |-> TokenAt(w, s) - 1, to |-> TokenAt(w, e),
                     score |-> l.start[s] + l.end[e]] \in best
                 \/ /\ Cardinality(best) = NBest
                    /\ \A z \in best : z.score >= l.start[s] + l.end[e]
<1>1. PICK starts \in Endpoints(w, l.start), ends \in Endpoints(w, l.end) :
        best \in BestOf(w, l, Pairs(starts, ends))
  BY DEF BestSpans
<1> DEFINE all == Pairs(starts, ends)
           scores == [p \in all |-> PairScore(l, p)]
<1>2. PICK kept \in Best(all, scores) :
        best = {Span(w, p, PairScore(l, p)) : p \in kept}
  BY <1>1 DEF BestOf
<1>3. ASSUME NEW p \in all
      PROVE  \E s, e \in Positions :
               /\ p = <<s, e>> /\ HasText(w, s) /\ HasText(w, e)
               /\ scores[p] = l.start[s] + l.end[e]
  <2>1. PICK s \in starts, e \in ends : p = <<s, e>>
    BY DEF Pairs
  <2>2. s \in Positions /\ e \in Positions /\ HasText(w, s) /\ HasText(w, e)
    BY TextIsUnmasked DEF Endpoints, Best
  <2>3. scores[p] = l.start[s] + l.end[e]
    BY <2>1 DEF PairScore
  <2>. HIDE DEF scores, all
  <2>. QED BY <2>1, <2>2, <2>3
<1>4. IsFiniteSet(all)
  <2>2. IsFiniteSet(Positions \X Positions)
    BY FinitePositions, FS_Product
  <2>3. all \in SUBSET (Positions \X Positions)
    BY DEF Pairs, Endpoints, Best
  <2>. QED BY <2>2, <2>3, FS_Subset
<1>5. /\ kept \subseteq all /\ IsFiniteSet(kept)
      /\ \A p \in all \ kept : /\ Cardinality(kept) = NBest
                               /\ \A q \in kept : scores[q] >= scores[p]
  BY <1>2, <1>4, BestKeeps
<1>6. IsFiniteSet(best) /\ Cardinality(best) = Cardinality(kept)
  BY <1>2, <1>3, <1>5, SpansOfPairs
<1>7. ASSUME NEW p \in all
      PROVE  Span(w, p, PairScore(l, p)).score = scores[p]
  BY DEF Span
<1>8. ASSUME NEW z \in best
      PROVE  \E s, e \in Positions :
              /\ HasText(w, s) /\ HasText(w, e)
              /\ z = [window |-> w, from |-> TokenAt(w, s) - 1, to |-> TokenAt(w, e),
                      score |-> l.start[s] + l.end[e]]
  <2>1. PICK p \in kept : z = Span(w, p, PairScore(l, p))
    BY <1>2
  <2>2. PICK s, e \in Positions : /\ p = <<s, e>> /\ HasText(w, s) /\ HasText(w, e)
    BY <1>3, <1>5
  <2>3. PairScore(l, p) = l.start[s] + l.end[e]
    BY <2>2 DEF PairScore
  <2>. QED BY <2>1, <2>2, <2>3, SpanOfTokens
<1>9. ASSUME NEW s \in Positions, NEW e \in Positions,
             HasText(w, s), HasText(w, e), Admissible(s, e),
             ~Crowded(w, l.start, s), ~Crowded(w, l.end, e)
      PROVE  \/ [window |-> w, from |-> TokenAt(w, s) - 1, to |-> TokenAt(w, e),
                 score |-> l.start[s] + l.end[e]] \in best
             \/ /\ Cardinality(best) = NBest
                /\ \A z \in best : z.score >= l.start[s] + l.end[e]
  <2>1. <<s, e>> \in all /\ PairScore(l, <<s, e>>) = l.start[s] + l.end[e]
    BY <1>1, <1>9, EndpointKept DEF Pairs, PairScore
  <2>2. CASE <<s, e>> \in kept
    <3>1. Span(w, <<s, e>>, l.start[s] + l.end[e]) \in best
      BY <1>2, <2>1, <2>2
    <3>. QED BY <1>9, <3>1, SpanOfTokens
  <2>3. CASE <<s, e>> \notin kept
    <3>1. /\ Cardinality(kept) = NBest
          /\ \A q \in kept : PairScore(l, q) >= l.start[s] + l.end[e]
      BY <1>5, <2>1, <2>3
    <3>. QED BY <1>2, <1>6, <3>1 DEF Span
  <2>. QED BY <2>2, <2>3
<1>. QED BY <1>6, <1>8, <1>9

\* The answers of a window change only with the text and with what the model says.
LEMMA AnswersFrame ==
  ASSUME text' = text, NEW w, logits'[w] = logits[w]
  PROVE  /\ Answers(w)' = Answers(w)
         /\ \A x : InReach(w, x)' = InReach(w, x)
<1>1. \A j : HasText(w, j)' = HasText(w, j)
  BY DEF HasText, TokenAt
<1>2. Answers(w)' = Answers(w)
  BY <1>1 DEF Answers, TokenAt
<1>3. ASSUME NEW x PROVE InReach(w, x)' = InReach(w, x)
  BY <1>1 DEF InReach, Crowded
<1>. QED BY <1>2, <1>3

LEMMA NumWindowsFrame ==
  ASSUME text' = text
  PROVE  NumWindows' = NumWindows
BY DEF NumWindows

\* An answer and its parts.
LEMMA AnswerOf ==
  ASSUME NEW w, NEW x \in Answers(w)
  PROVE  /\ x.s \in Positions /\ x.e \in Positions /\ HasText(w, x.s) /\ HasText(w, x.e)
         /\ x.from = TokenAt(w, x.s) - 1 /\ x.to = TokenAt(w, x.e)
         /\ x.score = logits[w].start[x.s] + logits[w].end[x.e]
BY DEF Answers

LEMMA Outnumbered ==
  ASSUME NEW A, IsFiniteSet(A), NEW T \in SUBSET A, NEW score,
         \A z \in T : z.score >= score, Cardinality(T) >= NBest
  PROVE  Cardinality({x \in A : x.score >= score}) >= NBest
<1> DEFINE B == {x \in A : x.score >= score}
<1>1. IsFiniteSet(B) /\ IsFiniteSet(T)
  BY FS_Subset
<1>2. T \in SUBSET B
  OBVIOUS
<1>3. Cardinality(T) <= Cardinality(B) /\ Cardinality(T) \in Nat /\ Cardinality(B) \in Nat
  BY <1>1, <1>2, FS_Subset, FS_CardinalityType
<1>. HIDE DEF B
<1>4. Cardinality(B) >= NBest
  BY <1>3, Constants
<1>. QED BY <1>4 DEF B

LEMMA InitAnswers == Init => AnswersInv
<1>1. Init => JustAnswered = FALSE
  BY DEF Init, JustAnswered
<1>2. Init => CandidateInv
  BY FS_EmptySet DEF Init, CandidateInv
<1>. QED BY <1>1, <1>2 DEF AnswersInv, BestSpansFound

\* The steps that are not about a question: the text changes, if at all, before
\* the first, and nothing is said of the last once the chunks are begun.
LEMMA OtherAnswers ==
  ASSUME ContractInv, AnswersInv,
         \/ SelectSource \/ ReadPage \/ FinishPages \/ BeginChunks \/ ChunkClause
         \/ ChunkParagraph \/ FinishChunks \/ UNCHANGED vars
  PROVE  AnswersInv'
<1>1. UNCHANGED <<asked, window, spans, clauses>>
  BY DEF SelectSource, ReadPage, FinishPages, BeginChunks, ChunkClause, ChunkParagraph,
     FinishChunks, vars, askVars
<1>2. window \in Nat /\ asked \in Nat /\ NumQuestions \in Nat /\ logits \in Seq(Logits)
  BY ContractAssumption DEF ContractInv, ContractTypeOK
<1>3. CASE logits' = <<>>
  <2>1. window = 0
    <3>1. CASE logits = <<>>
      BY <1>2, <3>1 DEF AnswersInv, CandidateInv
    <3>2. CASE logits # <<>>
      <4>1. BeginChunks
        BY <1>3, <3>2 DEF SelectSource, ReadPage, FinishPages, ChunkClause,
           ChunkParagraph, FinishChunks, vars, askVars
      <4>. QED BY <1>2, <4>1 DEF BeginChunks, AnswersInv, CandidateInv
    <3>. QED BY <3>1, <3>2
  <2>2. spans = {} /\ IsFiniteSet(spans)
    BY <2>1 DEF AnswersInv, CandidateInv
  <2>3. CandidateInv'
    BY <1>1, <1>3, <2>1, <2>2 DEF AnswersInv, CandidateInv
  <2>4. JustAnswered' = FALSE
    BY <1>3 DEF JustAnswered
  <2>. QED BY <2>3, <2>4 DEF AnswersInv, BestSpansFound
<1>4. CASE logits' # <<>>
  <2>1. logits' = logits /\ pc = "ask"
    BY <1>4 DEF AnswersInv, CandidateInv, SelectSource, ReadPage, FinishPages, BeginChunks,
       ChunkClause, ChunkParagraph, FinishChunks, vars, askVars
  <2>2. text' = text /\ pc' = "ask"
    BY <1>4, <2>1 DEF SelectSource, ReadPage, FinishPages, BeginChunks, ChunkClause,
       ChunkParagraph, FinishChunks, vars, textVars
  <2>3. \A w : Answers(w)' = Answers(w) /\ \A x : InReach(w, x)' = InReach(w, x)
    BY <2>1, <2>2, AnswersFrame
  <2>4. NumWindows' = NumWindows /\ Mine' = Mine /\ JustAnswered' = JustAnswered
    BY <1>1, <2>1, <2>2, NumWindowsFrame DEF Mine, JustAnswered
  <2>5. \A score : Outdone(score)' = Outdone(score)
    BY <1>1 DEF Outdone
  <2>6. CandidateInv'
    BY <1>1, <2>1, <2>2, <2>3, <2>5 DEF AnswersInv, CandidateInv
  <2>7. BestSpansFound'
    BY <1>1, <2>3, <2>4 DEF AnswersInv, BestSpansFound
  <2>. QED BY <2>6, <2>7 DEF AnswersInv
<1>. QED BY <1>3, <1>4

\* A window more: its spans are candidates, and those of the earlier windows
\* stay.
LEMMA AskWindowAnswers ==
  ASSUME ContractInv, AnswersInv, AskWindow
  PROVE  AnswersInv'
<1>1. /\ ContractTypeOK /\ CandidateInv /\ window \in Nat /\ logits \in Seq(Logits)
      /\ text \in Texts
  BY DEF ContractInv, ContractTypeOK, AnswersInv
<1>2. /\ pc' = "ask" /\ asked < NumQuestions /\ window' = window + 1
      /\ text' = text
      /\ UNCHANGED <<asked, clauses>>
  BY <1>1 DEF AskWindow, textVars
<1>3. PICK v \in Nat \ {0} : v = window + 1 /\ v = window'
  BY <1>1, <1>2
<1>4. PICK l \in Logits :
        /\ \E best \in BestSpans(v, l) : spans' = spans \union best
        /\ logits' = IF window = 0 THEN <<l>> ELSE Append(logits, l)
  BY <1>3 DEF AskWindow
<1>5. PICK best \in BestSpans(v, l) : spans' = spans \union best
  BY <1>4
<1>6. /\ Len(logits') = v /\ logits' # <<>> /\ logits'[v] = l
      /\ \A w \in 1 .. window : logits'[w] = logits[w]
  <2>1. CASE window = 0
    BY <1>3, <1>4, <2>1
  <2>2. CASE window # 0
    <3>1. Len(logits) = window /\ logits' = Append(logits, l)
      BY <1>1, <1>4, <2>2 DEF CandidateInv
    <3>. QED BY <1>3, <1>1, <3>1
  <2>. QED BY <2>1, <2>2
<1>7. /\ IsFiniteSet(best)
      /\ \A z \in best : \E s, e \in Positions :
           /\ HasText(v, s) /\ HasText(v, e)
           /\ z = [window |-> v, from |-> TokenAt(v, s) - 1,
                   to |-> TokenAt(v, e), score |-> l.start[s] + l.end[e]]
      /\ \A s, e \in Positions :
           /\ HasText(v, s) /\ HasText(v, e) /\ Admissible(s, e)
           /\ ~Crowded(v, l.start, s) /\ ~Crowded(v, l.end, e)
           => \/ [window |-> v, from |-> TokenAt(v, s) - 1,
                  to |-> TokenAt(v, e), score |-> l.start[s] + l.end[e]] \in best
              \/ /\ Cardinality(best) = NBest
                 /\ \A z \in best : z.score >= l.start[s] + l.end[e]
  BY <1>1, SpansOfWindow
<1>8. IsFiniteSet(spans') /\ IsFiniteSet(spans)
  BY <1>1, <1>5, <1>7, FS_Union DEF CandidateInv
<1>9. \A w \in 1 .. window : /\ Answers(w)' = Answers(w)
                             /\ \A x : InReach(w, x)' = InReach(w, x)
  BY <1>2, <1>6, AnswersFrame
<1>10. /\ \A j : HasText(v, j)' = HasText(v, j)
      /\ \A score, j : Crowded(v, score, j)' = Crowded(v, score, j)
      /\ logits'[v] = l
  BY <1>2, <1>6 DEF HasText, TokenAt, Crowded
<1>11. ASSUME NEW z \in spans'
       PROVE  z.window \in 1 .. v /\ \E x \in Answers(z.window)' : SameSpan(z, x)
  <2>1. CASE z \in spans
    <3>1. z.window \in 1 .. window /\ \E x \in Answers(z.window) : SameSpan(z, x)
      BY <1>1, <2>1 DEF CandidateInv
    <3>2. Answers(z.window)' = Answers(z.window)
      BY <1>9, <3>1
    <3>. QED BY <1>3, <1>1, <3>1, <3>2
  <2>2. CASE z \in best
    <3>1. PICK s, e \in Positions :
            /\ HasText(v, s) /\ HasText(v, e)
            /\ z = [window |-> v, from |-> TokenAt(v, s) - 1, to |-> TokenAt(v, e),
                    score |-> l.start[s] + l.end[e]]
      BY <1>7, <2>2
    <3> DEFINE x == [s |-> s, e |-> e, from |-> TokenAt(v, s) - 1, to |-> TokenAt(v, e),
                     score |-> l.start[s] + l.end[e]]
    <3>2. x \in Answers(v)'
      BY <1>6, <1>10, <3>1 DEF Answers, TokenAt
    <3>3. SameSpan(z, x) /\ z.window = v
      BY <3>1 DEF SameSpan
    <3>. HIDE DEF x
    <3>. QED BY <3>2, <3>3
  <2>. QED BY <1>5, <2>1, <2>2
<1>12. ASSUME NEW w \in 1 .. v, NEW x \in Answers(w)', InReach(w, x)'
       PROVE  Outdone(x.score)' \/ \E z \in spans' : SameSpan(z, x)
  <2>1. CASE w \in 1 .. window
    <3>1. x \in Answers(w) /\ InReach(w, x)
      BY <1>9, <1>12, <2>1
    <3>2. CASE \E z \in spans : SameSpan(z, x)
      BY <1>5, <3>2
    <3>3. CASE Outdone(x.score)
      <4> DEFINE T == {z \in spans : z.score >= x.score}
      <4>1. T \in SUBSET spans' /\ Cardinality(T) >= NBest
        BY <1>5, <3>3 DEF Outdone
      <4>2. \A z \in T : z.score >= x.score
        OBVIOUS
      <4>. HIDE DEF T
      <4>3. Cardinality({z \in spans' : z.score >= x.score}) >= NBest
        BY <1>8, <4>1, <4>2, Outnumbered
      <4>. QED BY <4>3 DEF Outdone
    <3>. QED BY <1>1, <2>1, <3>1, <3>2, <3>3 DEF CandidateInv
  <2>2. CASE w = v
    <3>1. /\ x.s \in Positions /\ x.e \in Positions
          /\ x.from = TokenAt(v, x.s) - 1 /\ x.to = TokenAt(v, x.e)
          /\ x.score = l.start[x.s] + l.end[x.e]
          /\ HasText(v, x.s) /\ HasText(v, x.e)
      BY <1>6, <1>10, <2>2 DEF Answers, TokenAt
    <3>2. /\ Admissible(x.s, x.e)
          /\ ~Crowded(v, l.start, x.s) /\ ~Crowded(v, l.end, x.e)
      BY <1>6, <1>10, <1>12, <2>2, <3>1 DEF InReach
    <3> DEFINE z == [window |-> v, from |-> TokenAt(v, x.s) - 1, to |-> TokenAt(v, x.e),
                     score |-> l.start[x.s] + l.end[x.e]]
    <3>3. \/ z \in best
          \/ /\ Cardinality(best) = NBest
             /\ \A y \in best : y.score >= x.score
      BY <1>7, <3>1, <3>2
    <3>4. SameSpan(z, x)
      BY <3>1 DEF SameSpan
    <3>. HIDE DEF z
    <3>5. CASE z \in best
      BY <1>5, <3>4, <3>5
    <3>6. CASE Cardinality(best) = NBest /\ \A y \in best : y.score >= x.score
      <4>1. best \in SUBSET spans' /\ Cardinality(best) >= NBest
        BY <1>5, <3>6, Constants
      <4>2. Cardinality({y \in spans' : y.score >= x.score}) >= NBest
        BY <1>8, <3>6, <4>1, Outnumbered
      <4>. QED BY <4>2 DEF Outdone
    <3>. QED BY <3>3, <3>5, <3>6
  <2>. QED BY <1>3, <1>1, <2>1, <2>2
<1>13. CandidateInv'
  BY <1>3, <1>1, <1>2, <1>6, <1>8, <1>11, <1>12 DEF CandidateInv
<1>14. JustAnswered' = FALSE
  BY <1>3 DEF JustAnswered
<1>. QED BY <1>13, <1>14 DEF AnswersInv, BestSpansFound

LEMMA CountUp ==
  ASSUME NEW a \in Nat, NEW n \in Nat
  PROVE  IsFiniteSet(a + 1 .. a + n) /\ Cardinality(a + 1 .. a + n) = n
BY FS_Interval

\* Once all windows have been asked in, the candidates' best are the question's.
LEMMA AggregateAnswers ==
  ASSUME ContractInv, AnswersInv, AggregateClause
  PROVE  AnswersInv'
<1>1. /\ ContractTypeOK /\ CandidateInv /\ clauses \in Seq(Clauses) /\ asked \in Nat
      /\ spans \subseteq Spans /\ window \in Nat
  BY DEF ContractInv, ContractTypeOK, AnswersInv
<1>2. /\ pc' = pc /\ pc = "ask" /\ asked' = asked + 1 /\ window = NumWindows
      /\ window' = 0 /\ spans' = {} /\ text' = text /\ logits' = logits
  BY DEF AggregateClause, textVars
<1>3. PICK m, ranked, n : Aggregates(m, ranked, n)
  BY Aggregated
<1>4. /\ m \in 0 .. NBest /\ ranked \in [1 .. m -> spans] /\ n \in 0 .. m
      /\ \A i, j \in 1 .. m :
           i < j => ranked[i] # ranked[j] /\ ranked[i].score >= ranked[j].score
      /\ \A x \in spans : \/ \E i \in 1 .. m : ranked[i] = x
                          \/ m = NBest /\ \A i \in 1 .. m : ranked[i].score >= x.score
      /\ \A i \in 1 .. m : i <= n <=> ranked[i].score >= NoAnswerThreshold
      /\ Len(clauses') = Len(clauses) + n
      /\ \A i \in 1 .. Len(clauses) : clauses'[i] = clauses[i]
      /\ \A k \in 1 .. n : clauses'[Len(clauses) + k] = Clause(ranked[k])
  BY <1>3 DEF Aggregates
<1>5. /\ m \in Nat /\ n \in Nat /\ n <= m /\ Len(clauses) \in Nat
      /\ \A i \in 1 .. m : ranked[i] \in spans /\ ranked[i].score \in Int
  BY <1>1, <1>4, Constants DEF Spans
<1> DEFINE L == Len(clauses)
<1>6. ASSUME NEW i \in 1 .. Len(clauses')
      PROVE  \/ /\ i <= L /\ clauses'[i].question <= asked /\ clauses'[i].question \in Nat
             \/ /\ i - L \in 1 .. n /\ clauses'[i] = Clause(ranked[i - L])
  <2>1. CASE i <= L
    <3>1. i \in 1 .. Len(clauses) /\ clauses'[i] = clauses[i]
      BY <1>4, <1>5, <2>1
    <3>2. clauses[i] \in Clauses
      BY <1>1, <3>1
    <3>3. clauses[i].question \in Nat
      BY <3>2 DEF Clauses
    <3>4. clauses[i].question <= asked
      BY <1>1, <3>1 DEF CandidateInv
    <3>. QED BY <2>1, <3>1, <3>3, <3>4
  <2>2. CASE i > L
    <3>1. i - L \in 1 .. n /\ L + (i - L) = i
      BY <1>4, <1>5, <2>2
    <3>. QED BY <1>4, <3>1
  <2>. QED BY <1>5, <2>1, <2>2
<1>7. Mine' = L + 1 .. L + n
  <2>1. ASSUME NEW i \in Mine' PROVE i \in L + 1 .. L + n
    <3>1. i \in 1 .. Len(clauses') /\ clauses'[i].question = asked + 1
      BY <1>2 DEF Mine
    <3>. QED BY <1>1, <1>4, <1>5, <1>6, <3>1
  <2>2. ASSUME NEW i \in L + 1 .. L + n PROVE i \in Mine'
    <3>1. i \in 1 .. Len(clauses') /\ i - L \in 1 .. n /\ ~(i <= L)
      BY <1>4, <1>5
    <3>2. clauses'[i].question = asked + 1
      BY <1>6, <3>1, ClauseParts
    <3>. QED BY <1>2, <3>1, <3>2 DEF Mine
  <2>. QED BY <2>1, <2>2
<1>8. ASSUME NEW i \in Mine'
      PROVE  /\ i - L \in 1 .. n /\ i - L \in 1 .. m /\ i \in Int
             /\ clauses'[i].from = ranked[i - L].from /\ clauses'[i].to = ranked[i - L].to
             /\ clauses'[i].score = ranked[i - L].score
  <2>1. i \in 1 .. Len(clauses') /\ ~(i <= L) /\ i - L \in 1 .. n
    BY <1>4, <1>5, <1>7
  <2>. QED BY <1>5, <1>6, <2>1, ClauseParts
<1>9. ASSUME NEW k \in 1 .. n
      PROVE  L + k \in Mine' /\ (L + k) - L = k
  BY <1>5, <1>7
<1>10. CandidateInv'
  <2>1. IsFiniteSet(spans')
    BY <1>2, FS_EmptySet
  <2>2. \A i \in 1 .. Len(clauses') : clauses'[i].question <= asked'
    BY <1>1, <1>2, <1>6, ClauseParts
  <2>. HIDE DEF L
  <2>. QED BY <1>1, <1>2, <2>1, <2>2 DEF CandidateInv
<1>11. \A w : Answers(w)' = Answers(w) /\ \A x : InReach(w, x)' = InReach(w, x)
  BY <1>2, AnswersFrame
<1>12. NumWindows' = window
  BY <1>2, NumWindowsFrame
<1>13. ASSUME NEW i \in Mine', NEW j \in Mine', i < j
       PROVE  clauses'[i].score >= clauses'[j].score
  <2>1. /\ i - L \in 1 .. m /\ j - L \in 1 .. m /\ i - L < j - L
        /\ clauses'[i].score = ranked[i - L].score
        /\ clauses'[j].score = ranked[j - L].score
    BY <1>5, <1>8, <1>13
  <2>2. ranked[i - L].score >= ranked[j - L].score
    BY <1>4, <2>1
  <2>. QED BY <2>1, <2>2
<1>14. ASSUME NEW i \in Mine'
       PROVE  \E w \in 1 .. window : \E x \in Answers(w) : SameSpan(clauses'[i], x)
  <2> DEFINE z == ranked[i - L]
  <2>1. z \in spans /\ clauses'[i].from = z.from /\ clauses'[i].to = z.to
        /\ clauses'[i].score = z.score
    BY <1>5, <1>8
  <2>. HIDE DEF z
  <2>2. PICK x \in Answers(z.window) : SameSpan(z, x)
    BY <1>1, <2>1 DEF CandidateInv
  <2>3. z.window \in 1 .. window /\ SameSpan(clauses'[i], x)
    BY <1>1, <2>1, <2>2 DEF CandidateInv, SameSpan
  <2>. QED BY <2>3
<1>15. ASSUME m = NBest, NEW score \in Int, score >= NoAnswerThreshold,
              \A i \in 1 .. m : ranked[i].score >= score
       PROVE  /\ Cardinality(Mine') = NBest
              /\ \A i \in Mine' : clauses'[i].score >= score
  <2>1. n = m
    <3>1. CASE m = 0
      BY <1>5, <3>1
    <3>2. CASE m # 0
      <4>1. m \in 1 .. m /\ ranked[m].score >= NoAnswerThreshold
        BY <1>5, <1>15, <3>2, Constants
      <4>. QED BY <1>4, <1>5, <4>1
    <3>. QED BY <3>1, <3>2
  <2>2. Cardinality(Mine') = n
    BY <1>5, <1>7, CountUp
  <2>. QED BY <1>8, <1>15, <2>1, <2>2
<1>16. ASSUME NEW w \in 1 .. window, NEW x \in Answers(w), InReach(w, x),
              x.score >= NoAnswerThreshold, x.score \in Int
       PROVE  \/ \E i \in Mine' : SameSpan(clauses'[i], x)
              \/ /\ Cardinality(Mine') = NBest
                 /\ \A i \in Mine' : clauses'[i].score >= x.score
  <2>1. CASE \E z \in spans : SameSpan(z, x)
    <3>1. PICK z \in spans : SameSpan(z, x)
      BY <2>1
    <3>2. CASE \E i \in 1 .. m : ranked[i] = z
      <4>1. PICK k \in 1 .. m : ranked[k] = z
        BY <3>2
      <4>2. k \in 1 .. n
        BY <1>4, <1>5, <1>16, <3>1, <4>1 DEF SameSpan
      <4>3. L + k \in Mine' /\ SameSpan(clauses'[L + k], x)
        BY <1>8, <1>9, <3>1, <4>1, <4>2 DEF SameSpan
      <4>. QED BY <4>3
    <3>3. CASE m = NBest /\ \A i \in 1 .. m : ranked[i].score >= z.score
      BY <1>15, <1>16, <3>1, <3>3 DEF SameSpan
    <3>. QED BY <1>4, <3>2, <3>3
  <2>2. CASE Outdone(x.score)
    <3> DEFINE B == {z \in spans : z.score >= x.score}
               R == {ranked[i] : i \in 1 .. m}
    <3>1. IsFiniteSet(R) /\ Cardinality(R) <= m /\ Cardinality(R) \in Nat
      <4>1. [i \in 1 .. m |-> ranked[i]] \in Surjection(1 .. m, R)
        BY DEF Surjection
      <4>2. IsFiniteSet(1 .. m) /\ Cardinality(1 .. m) = m
        <5>1. IsFiniteSet(0 + 1 .. 0 + m) /\ Cardinality(0 + 1 .. 0 + m) = m
          BY <1>5, CountUp
        <5>2. 0 + 1 .. 0 + m = 1 .. m
          BY <1>5
        <5>. QED BY <5>1, <5>2
      <4>. HIDE DEF R
      <4>3. IsFiniteSet(R) /\ Cardinality(R) <= m
        BY <4>1, <4>2, FS_Surjection
      <4>. QED BY <4>3, FS_CardinalityType
    <3>2. IsFiniteSet(B) /\ Cardinality(B) \in Nat /\ Cardinality(B) >= NBest
      <4>1. IsFiniteSet(B)
        BY <1>1, FS_Subset DEF CandidateInv
      <4>. QED BY <2>2, <4>1, FS_CardinalityType DEF Outdone
    <3>3. m = NBest /\ \A i \in 1 .. m : ranked[i].score >= x.score
      <4>1. CASE B \in SUBSET R
        <5>1. Cardinality(B) <= Cardinality(R) /\ (Cardinality(R) = Cardinality(B) => R = B)
          BY <3>1, <4>1, FS_Subset
        <5>2. m \in Nat /\ NBest \in Nat /\ m <= NBest
          BY <1>4, <1>5, Constants
        <5>3. m = NBest /\ Cardinality(R) = Cardinality(B)
          <6>. HIDE DEF R, B
          <6>. QED BY <3>1, <3>2, <5>1, <5>2
        <5>4. R = B
          BY <5>1, <5>3
        <5>. QED BY <5>3, <5>4
      <4>2. CASE B \notin SUBSET R
        <5>1. PICK z \in spans : z.score >= x.score /\ z \notin R
          BY <4>2
        <5>2. m = NBest /\ \A i \in 1 .. m : ranked[i].score >= z.score
          BY <1>4, <5>1
        <5>3. z.score \in Int
          BY <1>1 DEF Spans
        <5>. QED BY <1>5, <1>16, <5>1, <5>2, <5>3
      <4>. QED BY <4>1, <4>2
    <3>. QED BY <1>15, <1>16, <3>3
  <2>. QED BY <1>1, <1>16, <2>1, <2>2 DEF CandidateInv
<1>17. ASSUME NEW w \in 1 .. window, NEW x \in Answers(w)
       PROVE  x.score \in Int
  <2>1. CASE logits = <<>>
    <3>1. w = 0
      BY <1>1, <2>1 DEF CandidateInv
    <3>. QED BY <1>1, <3>1
  <2>2. Len(logits) = window /\ logits[w] \in Logits
    BY <1>1 DEF CandidateInv, ContractTypeOK
  <2>3. x.s \in Positions /\ x.e \in Positions
        /\ x.score = logits[w].start[x.s] + logits[w].end[x.e]
    BY AnswerOf
  <2>. QED BY <2>2, <2>3, ContractAssumption DEF LogitsType
<1>18. BestSpansFound'
  <2>. HIDE DEF L
  <2>. QED BY <1>11, <1>12, <1>13, <1>14, <1>16, <1>17 DEF BestSpansFound
<1>. QED BY <1>10, <1>18 DEF AnswersInv

LEMMA NextAnswers ==
  ASSUME ContractInv, AnswersInv, [Next]_vars
  PROVE  AnswersInv'
BY AskWindowAnswers, AggregateAnswers, OtherAnswers DEF Next

----------------------------------------------------------------------------
(* The theorems.                                                           *)

\* The end of a loop, and a step that changes nothing.
LEMMA OtherSteps ==
  ASSUME ContractInv, FinishPages \/ FinishChunks \/ UNCHANGED vars
  PROVE  ContractInv'
<1>1. /\ ContractTypeOK /\ SpanInv /\ ChunkInv /\ SpansOfContract /\ ChunksAreNumbered
  BY DEF ContractInv
<1>2. UNCHANGED <<textVars, askVars, chunkVars>>
  BY DEF FinishPages, FinishChunks, vars
<1>3. \/ pc' = pc
      \/ pc = "read" /\ pc' = "ask"
      \/ pc = "chunk" /\ pc' = "done" /\ position >= Len(text)
  BY DEF FinishPages, FinishChunks, vars
<1>4. ContractTypeOK'
  BY <1>1, <1>2, <1>3 DEF ContractTypeOK, textVars, askVars, chunkVars
<1>5. WholeBefore(position)'
  <2>1. UNCHANGED <<text, position, chunking, chunks>>
    BY <1>2 DEF textVars, chunkVars
  <2>2. \A a, b : /\ Short(b - a)' = Short(b - a) /\ IsBlank(Slice(a, b))' = IsBlank(Slice(a, b))
                  /\ InOneChunk(a, b)' = InOneChunk(a, b)
    BY <2>1 DEF Short, IsBlank, Letters, Slice, InOneChunk
  <2>. QED BY <1>1, <2>1, <2>2 DEF ChunkInv, WholeBefore
<1>6. ChunkInv'
  BY <1>1, <1>2, <1>3, <1>5 DEF ChunkInv, textVars, chunkVars
<1>7. SpanInv' /\ SpansOfContract' /\ ChunksAreNumbered'
  BY <1>1, <1>2, <1>3 DEF SpanInv, SpansOfContract, ChunksAreNumbered, OfText,
     textVars, askVars, chunkVars
<1>. QED BY <1>4, <1>6, <1>7 DEF ContractInv

LEMMA NextInv == ContractInv /\ [Next]_vars => ContractInv'
<1>. SUFFICES ASSUME ContractInv, [Next]_vars PROVE ContractInv'
  OBVIOUS
<1>1. CASE SelectSource BY <1>1, SelectSourceStep
<1>2. CASE ReadPage BY <1>2, ReadPageStep
<1>3. CASE AskWindow BY <1>3, AskWindowStep
<1>4. CASE AggregateClause BY <1>4, AggregateClauseStep
<1>5. CASE BeginChunks BY <1>5, BeginChunksStep
<1>6. CASE ChunkClause BY <1>6, ChunkClauseStep
<1>7. CASE ChunkParagraph BY <1>7, ChunkParagraphStep
<1>8. CASE FinishPages \/ FinishChunks \/ UNCHANGED vars BY <1>8, OtherSteps
<1>. QED BY <1>1, <1>2, <1>3, <1>4, <1>5, <1>6, <1>7, <1>8 DEF Next

\* The inductive invariant holds for any contract, any answers of the model and
\* any settings.
THEOREM Invariance == Spec => []ContractInv
BY InitInv, NextInv, PTL DEF Spec

\* What the extractor returns are spans of the contract, none longer than allowed.
THEOREM ClausesAreSpans == Spec => []SpansOfContract
<1>1. ContractInv => SpansOfContract BY DEF ContractInv
<1>. QED BY <1>1, Invariance, PTL

\* build_chunks numbers its chunks without a gap or a double.
THEOREM ChunksHaveOwnNumbers == Spec => []ChunksAreNumbered
<1>1. ContractInv => ChunksAreNumbered BY DEF ContractInv
<1>. QED BY <1>1, Invariance, PTL

\* The overlap does what it is for: when the chunks are built, each letter, and
\* each passage of up to one character more than the overlap, is in one chunk.
THEOREM OverlapHoldsPassages == Spec => []PassagesAreWhole
<1>1. ContractInv => PassagesAreWhole
  <2>. SUFFICES ASSUME ContractInv, pc = "done" PROVE WholeBefore(Len(text))
    BY DEF PassagesAreWhole
  <2>1. position \in Nat /\ Len(text) \in Nat /\ position >= Len(text)
        /\ WholeBefore(position)
    BY DEF ContractInv, ContractTypeOK, ChunkInv, Texts
  <2>. QED BY <2>1 DEF WholeBefore
<1>. QED BY <1>1, Invariance, PTL

\* The clauses of a question are its best answers, for windows of any length, any
\* answers of the model and any number of candidates kept: none above the
\* threshold is missed unless NBest others are as good (aggregate.py).
THEOREM ClausesAreBest == Spec => []BestSpansFound
<1>1. AnswersInv => BestSpansFound
  BY DEF AnswersInv
<1>. QED BY <1>1, InitAnswers, NextAnswers, Invariance, PTL DEF Spec

----------------------------------------------------------------------------
(* Training: checkpoints, bundles and exports.                             *)


\* A set of naturals has a least element.
LEMMA LeastNat ==
  ASSUME NEW N \in SUBSET Nat, N # {}
  PROVE  \E n \in N : \A m \in N : n <= m
<1>. DEFINE R == {p \in Nat \X Nat : p[1] < p[2]}
<1>1. IsWellFoundedOn(R, Nat)
  <2>1. OpToRel(<, Nat) = R
    BY DEF OpToRel
  <2>. QED BY <2>1, NatLessThanWellFounded
<1>2. PICK n \in N : \A m \in N : <<m, n>> \notin R
  <2>. HIDE DEF R
  <2>. QED BY <1>1, WFMin
<1>3. ASSUME NEW m \in N PROVE n <= m
  <2>1. m \in Nat /\ n \in Nat /\ <<m, n>> \in Nat \X Nat /\ <<m, n>> \notin R
    BY <1>2
  <2>2. ~ (m < n)
    BY <2>1
  <2>. QED BY <2>1, <2>2
<1>. QED BY <1>3

\* What find_last_checkpoint takes is the highest of the checkpoints.
LEMMA HighestOf ==
  ASSUME NEW S, S \subseteq 1 .. Steps, S # {}
  PROVE  Highest(S) \in S /\ \A m \in S : m <= Highest(S)
<1>. DEFINE D == {Steps - m : m \in S}
<1>1. Steps \in Nat /\ \A m \in S : m \in Nat /\ Steps - m \in Nat
  BY TrainingAssumption
<1>0. D \in SUBSET Nat /\ D # {}
  BY <1>1
<1>2. PICK d \in D : \A e \in D : d <= e
  <2>. HIDE DEF D
  <2>. QED BY <1>0, LeastNat
<1>3. PICK n \in S : d = Steps - n
  OBVIOUS
<1>4. ASSUME NEW m \in S PROVE m <= n
  <2>1. d <= Steps - m
    BY <1>2
  <2>. HIDE DEF D
  <2>. QED BY <1>1, <1>3, <2>1
<1>. QED BY <1>4 DEF Highest

\* The cells of the export, in order.
LEMMA Cells ==
  /\ From(1) = {"downloaded", "exported", "quantized", "logged", "done"}
  /\ From(2) = {"exported", "quantized", "logged", "done"}
  /\ From(3) = {"quantized", "logged", "done"}
  /\ From(4) = {"logged", "done"}
<1>1. /\ Len(ExportCells) = 5
      /\ ExportCells[1] = "downloaded" /\ ExportCells[2] = "exported"
      /\ ExportCells[3] = "quantized" /\ ExportCells[4] = "logged"
      /\ ExportCells[5] = "done"
  BY DEF ExportCells
<1>2. /\ 1 .. 5 = {1, 2, 3, 4, 5} /\ 2 .. 5 = {2, 3, 4, 5}
      /\ 3 .. 5 = {3, 4, 5} /\ 4 .. 5 = {4, 5}
  OBVIOUS
<1>. QED BY <1>1, <1>2 DEF From

\* A disk with nothing on it has its type.
LEMMA EmptyDisk ==
  /\ Empty \in Bundles
  /\ [fp32 |-> None, int8 |-> None] \in [{"fp32", "int8"} -> Weights \union {None}]
BY DEF Empty, Bundles

LEMMA TrainingInitInv == TrainingInit => TrainingInv
<1>. SUFFICES ASSUME TrainingInit PROVE TrainingInv
  OBVIOUS
<1>1. TrainingTypeOK
  <2>1. drive \in [1 .. Steps -> {"none", "partial", "whole"}]
    BY DEF TrainingInit
  <2>2. /\ runs \in Seq(Bundles) /\ Len(runs) <= MaxRuns
        /\ versions \in Seq(1 .. MaxRuns) /\ served \in Seq(1 .. MaxRuns)
        /\ exports \in Seq([version : Nat, int8 : Weights \union {None}])
        /\ Len(exports) <= MaxRuns
    BY TrainingAssumption DEF TrainingInit
  <2>3. 0 \in 0 .. Steps /\ 0 \in 0 .. MaxBad
    BY TrainingAssumption
  <2>. QED BY <2>1, <2>2, <2>3, EmptyDisk DEF TrainingInit, TrainingTypeOK
<1>2. DriveInv /\ BundleInv /\ VersionInv /\ ExportInv
  BY Cells, TrainingAssumption DEF TrainingInit, DriveInv, BundleInv, VersionInv, ExportInv
<1>. QED BY <1>1, <1>2 DEF TrainingInv

\* Losing the runtime loses all but the checkpoints.
LEMMA LoseStep ==
  ASSUME TrainingInv, NEW n \in {0, 1}, Lose(n), bad + n <= MaxBad,
         gpu' \in {"none", "bf16", "other"}
  PROVE  TrainingInv'
<1>1. TrainingTypeOK /\ DriveInv
  BY DEF TrainingInv
<1>2. TrainingTypeOK'
  <2>1. bad' \in 0 .. MaxBad
    BY <1>1, TrainingAssumption DEF Lose, TrainingTypeOK
  <2>2. /\ runs' \in Seq(Bundles) /\ Len(runs') <= MaxRuns
        /\ versions' \in Seq(1 .. MaxRuns) /\ served' \in Seq(1 .. MaxRuns)
        /\ exports' \in Seq([version : Nat, int8 : Weights \union {None}])
        /\ Len(exports') <= MaxRuns
    BY TrainingAssumption DEF Lose
  <2>3. 0 \in 0 .. Steps
    BY TrainingAssumption
  <2>. QED BY <1>1, <2>1, <2>2, <2>3, EmptyDisk DEF Lose, TrainingTypeOK
<1>3. DriveInv'
  BY <1>1 DEF Lose, DriveInv
<1>4. BundleInv' /\ VersionInv' /\ ExportInv'
  BY Cells DEF Lose, BundleInv, VersionInv, ExportInv
<1>. QED BY <1>2, <1>3, <1>4 DEF TrainingInv

LEMMA RuntimeSteps ==
  ASSUME TrainingInv, Boot \/ Cut \/ ChangeRuntime
  PROVE  TrainingInv'
<1>1. TrainingTypeOK /\ DriveInv /\ BundleInv /\ VersionInv /\ ExportInv
  BY DEF TrainingInv
<1>2. bad \in Nat /\ bad <= MaxBad /\ MaxBad \in Nat
  BY <1>1, TrainingAssumption DEF TrainingTypeOK
<1>3. CASE Boot
  <2>1. TrainingTypeOK'
    BY <1>1, <1>3 DEF Boot, TrainingTypeOK, diskVars
  <2>2. DriveInv'
    BY <1>1, <1>3 DEF Boot, DriveInv, Checkpoints
  <2>3. BundleInv' /\ VersionInv'
    BY <1>1, <1>3 DEF Boot, BundleInv, VersionInv, Saved, diskVars
  <2>4. ExportInv'
    BY <1>1, <1>3 DEF Boot, ExportInv, Wanted, diskVars
  <2>. QED BY <2>1, <2>2, <2>3, <2>4 DEF TrainingInv
<1>4. CASE Cut
  BY <1>2, <1>4, LoseStep DEF Cut
<1>5. CASE ChangeRuntime
  BY <1>2, <1>5, LoseStep DEF ChangeRuntime
<1>. QED BY <1>3, <1>4, <1>5

\* What an appended element does to a sequence.
LEMMA Appended ==
  ASSUME NEW S, NEW s \in Seq(S), NEW e \in S
  PROVE  /\ Append(s, e) \in Seq(S) /\ Len(Append(s, e)) = Len(s) + 1
         /\ Len(s) \in Nat /\ Append(s, e) # <<>>
         /\ Append(s, e)[Len(s) + 1] = e
         /\ \A i \in 1 .. Len(s) : Append(s, e)[i] = s[i]
OBVIOUS

\* A run begins at the highest checkpoint there is, or at none.
LEMMA StartTrainingStep ==
  ASSUME TrainingInv, StartTraining
  PROVE  TrainingInv'
<1>1. TrainingTypeOK /\ DriveInv /\ BundleInv /\ VersionInv /\ ExportInv
  BY DEF TrainingInv
<1>2. /\ UNCHANGED <<gpu, drive, reached, fresh, bad, versions, bundle, onnx, exports,
                     served>>
      /\ runs' = Append(runs, Empty) /\ Len(runs) < MaxRuns
      /\ stage' = "none" /\ step' = FindLastCheckpoint
      /\ doing' \in {"idle", "train"}
  BY DEF StartTraining
<1>3. Empty \in Bundles /\ runs \in Seq(Bundles) /\ MaxRuns \in Nat
  BY <1>1, EmptyDisk, TrainingAssumption DEF TrainingTypeOK
<1>4. /\ runs' \in Seq(Bundles) /\ Len(runs') = Len(runs) + 1 /\ runs' # <<>>
      /\ Len(runs) \in Nat /\ \A i \in 1 .. Len(runs) : runs'[i] = runs[i]
  <2>. HIDE DEF Bundles
  <2>. QED BY <1>2, <1>3, Appended
<1>5. step' \in 0 .. Steps /\ \A n \in Checkpoints(drive) : n <= step'
  <2>1. Checkpoints(drive) \subseteq 1 .. Steps /\ Steps \in Nat
    BY TrainingAssumption DEF Checkpoints
  <2>2. CASE Checkpoints(drive) = {}
    BY <1>2, <2>1, <2>2 DEF FindLastCheckpoint
  <2>3. CASE Checkpoints(drive) # {}
    <3>1. step' = Highest(Checkpoints(drive))
      BY <1>2, <2>3 DEF FindLastCheckpoint
    <3>2. step' \in Checkpoints(drive) /\ \A n \in Checkpoints(drive) : n <= step'
      BY <2>1, <2>3, <3>1, HighestOf
    <3>. QED BY <2>1, <3>2
  <2>. QED BY <2>2, <2>3
<1>6. TrainingTypeOK'
  BY <1>1, <1>2, <1>3, <1>4, <1>5 DEF TrainingTypeOK
<1>7. DriveInv'
  BY <1>1, <1>2, <1>5 DEF DriveInv
<1>8. BundleInv'
  BY <1>2, <1>4 DEF BundleInv
<1>9. VersionInv'
  <2>1. \A v \in 1 .. Len(versions) : versions[v] \in Nat \ {0}
    BY <1>1, TrainingAssumption DEF TrainingTypeOK
  <2>. QED BY <1>1, <1>2, <1>3, <1>4, <2>1 DEF VersionInv, Trained
<1>10. ExportInv'
  BY <1>1, <1>2, Cells DEF ExportInv, Wanted
<1>. QED BY <1>6, <1>7, <1>8, <1>9, <1>10 DEF TrainingInv

LEMMA TrainStepStep ==
  ASSUME TrainingInv, TrainStep
  PROVE  TrainingInv'
<1>1. TrainingTypeOK /\ DriveInv /\ BundleInv /\ VersionInv /\ ExportInv
  BY DEF TrainingInv
<1>2. /\ UNCHANGED <<gpu, reached, fresh, bad, diskVars>>
      /\ doing = "train" /\ step' = step + 1 /\ step' \in 1 .. Steps
      /\ doing' \in {"train", "save"}
      /\ drive' = drive \/ drive' = [drive EXCEPT ![step'] = "partial"]
  BY <1>1, TrainingAssumption DEF TrainStep, TrainingTypeOK
<1>3. step \in Nat /\ reached \in 0 .. Steps /\ Steps \in Nat
      /\ drive \in [1 .. Steps -> {"none", "partial", "whole"}]
      /\ \A n \in Checkpoints(drive) : n <= step
  BY <1>1, <1>2, TrainingAssumption DEF TrainingTypeOK, DriveInv
<1>4. drive' \in [1 .. Steps -> {"none", "partial", "whole"}]
  BY <1>2, <1>3
<1>5. TrainingTypeOK'
  BY <1>1, <1>2, <1>4 DEF TrainingTypeOK, diskVars
<1>6. DriveInv'
  <2>1. reached > 0 => reached \in Checkpoints(drive) /\ drive[reached] = "whole"
    BY <1>1, <1>3 DEF DriveInv, Checkpoints
  <2>2. reached > 0 => drive'[reached] = "whole"
    BY <1>2, <1>3, <2>1
  <2>3. \A n \in Checkpoints(drive') : n \in Checkpoints(drive) \/ n = step'
    BY <1>2, <1>3 DEF Checkpoints
  <2>4. \A n \in Checkpoints(drive) : n \in Nat
    BY DEF Checkpoints
  <2>5. \A n \in Checkpoints(drive') : n <= step'
    BY <1>2, <1>3, <2>3, <2>4
  <2>. QED BY <1>2, <2>2, <2>5 DEF DriveInv
<1>7. BundleInv'
  BY <1>1, <1>2 DEF BundleInv, diskVars
<1>8. VersionInv' /\ ExportInv'
  BY <1>1, <1>2 DEF VersionInv, ExportInv, Wanted, diskVars
<1>. QED BY <1>5, <1>6, <1>7, <1>8 DEF TrainingInv

\* The checkpoint that was just completed is the newest: no rotation deletes it.
LEMMA FinishCheckpointStep ==
  ASSUME TrainingInv, FinishCheckpoint
  PROVE  TrainingInv'
<1> DEFINE d == [drive EXCEPT ![step] = "whole"]
<1>1. TrainingTypeOK /\ DriveInv /\ BundleInv /\ VersionInv /\ ExportInv
  BY DEF TrainingInv
<1>2. /\ UNCHANGED <<gpu, step, bad, diskVars>>
      /\ doing = "save" /\ doing' = "train"
      /\ drive' = Rotated(d) /\ reached' = step /\ fresh' = TRUE
  BY DEF FinishCheckpoint
<1>3. /\ step \in 1 .. Steps /\ step \in Nat /\ SaveLimit \in Nat \ {0}
      /\ drive \in [1 .. Steps -> {"none", "partial", "whole"}]
      /\ \A n \in Checkpoints(drive) : n <= step
  BY <1>1, <1>2, TrainingAssumption DEF TrainingTypeOK, DriveInv
<1>4. d \in [1 .. Steps -> {"none", "partial", "whole"}] /\ d[step] = "whole"
  BY <1>3
<1>5. \A n \in Checkpoints(d) : n <= step
  BY <1>3 DEF Checkpoints
<1>. HIDE DEF d
<1>6. {m \in Checkpoints(d) : m > step} = {}
  BY <1>3, <1>5 DEF Checkpoints
<1>7. Rotated(d)[step] = "whole"
  <2>1. Cardinality({m \in Checkpoints(d) : m > step}) = 0
    BY <1>6, FS_EmptySet
  <2>. QED BY <1>3, <1>4, <2>1 DEF Rotated
<1>8. /\ drive' \in [1 .. Steps -> {"none", "partial", "whole"}]
      /\ \A n \in 1 .. Steps : drive'[n] \in {"none", d[n]}
  BY <1>2, <1>4 DEF Rotated
<1>9. TrainingTypeOK'
  BY <1>1, <1>2, <1>3, <1>8 DEF TrainingTypeOK, diskVars
<1>10. DriveInv'
  <2>1. \A n \in Checkpoints(drive') : n \in Checkpoints(d)
    BY <1>8 DEF Checkpoints
  <2>. QED BY <1>2, <1>3, <1>5, <1>7, <2>1 DEF DriveInv
<1>11. BundleInv' /\ VersionInv' /\ ExportInv'
  BY <1>1, <1>2 DEF BundleInv, VersionInv, ExportInv, Wanted, diskVars
<1>. QED BY <1>9, <1>10, <1>11 DEF TrainingInv

\* A file of the bundle is written over that of an earlier training.
LEMMA SaveBundleStep ==
  ASSUME TrainingInv, SaveModel \/ SaveMetrics
  PROVE  TrainingInv'
<1>1. TrainingTypeOK /\ DriveInv /\ BundleInv /\ VersionInv /\ ExportInv
  BY DEF TrainingInv
<1>2. /\ UNCHANGED <<gpu, step, drive, reached, fresh, bad, runs, versions, stage,
                     onnx, exports, served>>
      /\ doing # "idle"
      /\ \/ /\ step = Steps /\ doing' = "metrics"
            /\ bundle' = [bundle EXCEPT !.model = Saved]
         \/ /\ doing = "metrics" /\ doing' = "log"
            /\ bundle' = [bundle EXCEPT !.metrics = Saved]
  BY DEF SaveModel, SaveMetrics
<1>3. runs # <<>> /\ stage = "none" /\ runs \in Seq(Bundles) /\ Len(runs) <= MaxRuns
      /\ bundle \in Bundles /\ step \in 0 .. Steps /\ MaxRuns \in Nat
  BY <1>1, <1>2, TrainingAssumption DEF BundleInv, TrainingTypeOK
<1>4. Len(runs) \in 1 .. MaxRuns
  BY <1>3
<1>5. Saved \in Weights
  BY <1>3, <1>4 DEF Saved, Weights
<1>6. bundle' \in Bundles
  BY <1>2, <1>3, <1>5 DEF Bundles
<1>7. TrainingTypeOK'
  BY <1>1, <1>2, <1>6 DEF TrainingTypeOK
<1>8. DriveInv'
  BY <1>1, <1>2 DEF DriveInv
<1>9. BundleInv'
  BY <1>1, <1>2, <1>3 DEF BundleInv, Saved, Bundles
<1>10. VersionInv' /\ ExportInv'
  BY <1>1, <1>2, <1>3, Cells DEF VersionInv, ExportInv, Wanted
<1>. QED BY <1>7, <1>8, <1>9, <1>10 DEF TrainingInv

\* The run is given its bundle, which is that of the whole schedule.
LEMMA LogBundleStep ==
  ASSUME TrainingInv, LogBundle
  PROVE  TrainingInv'
<1>1. TrainingTypeOK /\ DriveInv /\ BundleInv /\ VersionInv /\ ExportInv
  BY DEF TrainingInv
<1>2. /\ UNCHANGED <<gpu, step, drive, reached, fresh, bad, versions, bundle, onnx,
                     exports, served>>
      /\ doing = "log" /\ doing' = "idle" /\ stage' = "trained"
      /\ runs' = [runs EXCEPT ![Len(runs)] = bundle]
  BY DEF LogBundle
<1>3. /\ runs # <<>> /\ runs \in Seq(Bundles) /\ bundle \in Bundles
      /\ bundle.model = Saved /\ bundle.metrics = Saved /\ step = Steps
  BY <1>1, <1>2 DEF BundleInv, TrainingTypeOK
<1>4. Len(runs) \in Nat \ {0} /\ Len(runs) \in 1 .. Len(runs)
  BY <1>3
<1>5. bundle = Trained(Len(runs))
  BY <1>3 DEF Bundles, Trained, Saved
<1>6. /\ runs' \in Seq(Bundles) /\ Len(runs') = Len(runs) /\ runs' # <<>>
      /\ runs'[Len(runs)] = bundle
      /\ \A i \in 1 .. Len(runs) : i # Len(runs) => runs'[i] = runs[i]
  <2>. HIDE DEF Bundles
  <2>. QED BY <1>2, <1>3, <1>4
<1>7. TrainingTypeOK'
  BY <1>1, <1>2, <1>6 DEF TrainingTypeOK
<1>8. DriveInv' /\ BundleInv'
  BY <1>1, <1>2 DEF DriveInv, BundleInv
<1>9. VersionInv'
  <2>1. \A v \in 1 .. Len(versions) : versions[v] \in Nat \ {0}
    BY <1>1, TrainingAssumption DEF TrainingTypeOK
  <2>2. ASSUME NEW v \in 1 .. Len(versions)
        PROVE  versions[v] <= Len(runs) /\ runs'[versions[v]] = Trained(versions[v])
    BY <1>1, <1>4, <1>5, <1>6, <2>1 DEF VersionInv
  <2>3. runs'[Len(runs')] = Trained(Len(runs'))
    BY <1>5, <1>6
  <2>4. \A r : Trained(r)' = Trained(r)
    BY DEF Trained
  <2>. QED BY <1>2, <1>6, <2>2, <2>3, <2>4 DEF VersionInv
<1>10. ExportInv'
  BY <1>1, <1>2, Cells DEF ExportInv, Wanted
<1>. QED BY <1>7, <1>8, <1>9, <1>10 DEF TrainingInv

LEMMA RaiseStep ==
  ASSUME TrainingInv, Raise
  PROVE  TrainingInv'
<1>1. TrainingTypeOK /\ DriveInv /\ BundleInv /\ VersionInv /\ ExportInv
  BY DEF TrainingInv
<1>2. TrainingTypeOK'
  BY <1>1, TrainingAssumption DEF Raise, TrainingTypeOK, diskVars
<1>3. DriveInv' /\ BundleInv'
  BY <1>1 DEF Raise, DriveInv, BundleInv, diskVars
<1>4. VersionInv' /\ ExportInv'
  BY <1>1 DEF Raise, VersionInv, ExportInv, Wanted, diskVars
<1>. QED BY <1>2, <1>3, <1>4 DEF TrainingInv

\* A cell changes nothing of the training, nor its runs.
LEMMA CellFrame ==
  ASSUME TrainingInv, UNCHANGED <<gpu, doing, step, drive, reached, fresh, runs>>,
         doing = "idle", bad' \in 0 .. MaxBad,
         stage' \in {"none", "trained", "registered"} \union From(1),
         versions' \in Seq(1 .. MaxRuns), bundle' \in Bundles,
         onnx' \in [{"fp32", "int8"} -> Weights \union {None}],
         exports' \in Seq([version : Nat, int8 : Weights \union {None}]),
         Len(exports') <= MaxRuns,
         served' \in Seq(1 .. MaxRuns)
  PROVE  TrainingTypeOK' /\ DriveInv' /\ BundleInv'
<1>1. TrainingTypeOK /\ DriveInv /\ BundleInv
  BY DEF TrainingInv
<1>2. TrainingTypeOK'
  BY <1>1 DEF TrainingTypeOK
<1>3. DriveInv' /\ BundleInv'
  BY <1>1 DEF DriveInv, BundleInv
<1>. QED BY <1>2, <1>3

\* The run that is registered is the last one, which the last cell of its
\* training, or its registration, left whole.
LEMMA RegisterStep ==
  ASSUME TrainingInv, Register
  PROVE  TrainingInv'
<1>1. TrainingTypeOK /\ VersionInv /\ ExportInv
  BY DEF TrainingInv
<1>2. /\ UNCHANGED <<gpu, doing, step, drive, reached, fresh, bad, runs, bundle, onnx,
                     exports, served>>
      /\ doing = "idle" /\ stage \in {"trained", "registered"} /\ stage' = "registered"
      /\ versions' = Append(versions, Len(runs))
  BY DEF Register, Cell, LatestRun
<1>3. /\ runs # <<>> /\ runs[Len(runs)] = Trained(Len(runs))
      /\ runs \in Seq(Bundles) /\ Len(runs) <= MaxRuns /\ MaxRuns \in Nat
      /\ versions \in Seq(1 .. MaxRuns)
  BY <1>1, <1>2, TrainingAssumption DEF VersionInv, TrainingTypeOK
<1>4. Len(runs) \in 1 .. MaxRuns
  BY <1>3
<1>5. /\ versions' \in Seq(1 .. MaxRuns) /\ Len(versions') = Len(versions) + 1
      /\ Len(versions) \in Nat /\ versions'[Len(versions) + 1] = Len(runs)
      /\ \A v \in 1 .. Len(versions) : versions'[v] = versions[v]
  BY <1>2, <1>3, <1>4, Appended
<1>6. TrainingTypeOK' /\ DriveInv' /\ BundleInv'
  BY <1>1, <1>2, <1>5, CellFrame DEF TrainingTypeOK
<1>7. VersionInv'
  <2>1. ASSUME NEW v \in 1 .. Len(versions) + 1
        PROVE  versions'[v] <= Len(runs) /\ runs[versions'[v]] = Trained(versions'[v])
    <3>1. CASE v = Len(versions) + 1
      BY <1>3, <1>4, <1>5, <3>1
    <3>2. CASE v \in 1 .. Len(versions)
      BY <1>1, <1>5, <3>2 DEF VersionInv
    <3>. QED BY <1>5, <3>1, <3>2
  <2>. QED BY <1>2, <1>3, <1>5, <2>1 DEF VersionInv, Trained
<1>8. ExportInv'
  <2>1. Len(versions) >= ModelVersion => Wanted' = Wanted
    BY <1>5 DEF Wanted, ModelVersion
  <2>2. Len(versions) >= ModelVersion => Len(versions') >= ModelVersion
    BY <1>5 DEF ModelVersion
  <2>3. stage' \notin From(1) \union From(2) \union From(3) \union From(4)
    BY <1>2, Cells
  <2>. QED BY <1>1, <1>2, <2>1, <2>2, <2>3 DEF ExportInv
<1>. QED BY <1>6, <1>7, <1>8 DEF TrainingInv

\* The version that is downloaded is whole, whatever lay there before.
LEMMA DownloadStep ==
  ASSUME TrainingInv, Download
  PROVE  TrainingInv'
<1>1. TrainingTypeOK /\ VersionInv /\ ExportInv
  BY DEF TrainingInv
<1>2. /\ UNCHANGED <<gpu, doing, step, drive, reached, fresh, bad, runs, versions, onnx,
                     exports, served>>
      /\ doing = "idle" /\ stage' = "downloaded"
      /\ Len(versions) >= ModelVersion /\ bundle' = runs[versions[ModelVersion]]
  BY DEF Download, Cell
<1>3. /\ ModelVersion \in 1 .. Len(versions)
      /\ runs \in Seq(Bundles) /\ versions \in Seq(1 .. MaxRuns)
  BY <1>1, <1>2 DEF ModelVersion, TrainingTypeOK
<1>4. /\ versions[ModelVersion] \in 1 .. Len(runs)
      /\ runs[versions[ModelVersion]] = Trained(versions[ModelVersion])
  BY <1>1, <1>3, TrainingAssumption DEF VersionInv
<1>5. bundle' \in Bundles /\ bundle'.model = Wanted
  <2>1. bundle' \in Bundles
    <3>. HIDE DEF Bundles
    <3>. QED BY <1>2, <1>3, <1>4
  <2>. QED BY <1>2, <1>4, <2>1 DEF Trained, Wanted
<1>6. TrainingTypeOK' /\ DriveInv' /\ BundleInv'
  BY <1>1, <1>2, <1>5, Cells, CellFrame DEF TrainingTypeOK
<1>7. VersionInv'
  BY <1>1, <1>2 DEF VersionInv, Trained
<1>8. ExportInv'
  BY <1>1, <1>2, <1>5, Cells DEF ExportInv, Wanted
<1>. QED BY <1>6, <1>7, <1>8 DEF TrainingInv

\* The export and the quantisation are of what the cell before them left.
LEMMA ConvertStep ==
  ASSUME TrainingInv, ExportFp32 \/ Quantize
  PROVE  TrainingInv'
<1>1. TrainingTypeOK /\ VersionInv /\ ExportInv
  BY DEF TrainingInv
<1>2. /\ UNCHANGED <<gpu, doing, step, drive, reached, fresh, bad, runs, versions, bundle,
                     exports, served>>
      /\ doing = "idle"
      /\ \/ /\ stage \in From(1) /\ stage' = "exported"
            /\ onnx' = [onnx EXCEPT !.fp32 = bundle.model]
         \/ /\ stage \in From(2) /\ stage' = "quantized"
            /\ onnx' = [onnx EXCEPT !.int8 = onnx.fp32]
  BY DEF ExportFp32, Quantize, Cell
<1>3. /\ onnx \in [{"fp32", "int8"} -> Weights \union {None}]
      /\ bundle \in Bundles /\ bundle.model \in Weights \union {None}
  BY <1>1 DEF TrainingTypeOK, Bundles
<1>4. onnx' \in [{"fp32", "int8"} -> Weights \union {None}]
  BY <1>2, <1>3
<1>5. TrainingTypeOK' /\ DriveInv' /\ BundleInv'
  BY <1>1, <1>2, <1>4, Cells, CellFrame DEF TrainingTypeOK
<1>6. VersionInv'
  BY <1>1, <1>2, Cells DEF VersionInv, Trained
<1>7. ExportInv'
  BY <1>1, <1>2, <1>3, Cells DEF ExportInv, Wanted
<1>. QED BY <1>5, <1>6, <1>7 DEF TrainingInv

LEMMA LogExportStep ==
  ASSUME TrainingInv, LogExport
  PROVE  TrainingInv'
<1> DEFINE e == [version |-> ModelVersion, int8 |-> onnx.int8]
           Type == [version : Nat, int8 : Weights \union {None}]
<1>1. TrainingTypeOK /\ VersionInv /\ ExportInv
  BY DEF TrainingInv
<1>2. /\ UNCHANGED <<gpu, doing, step, drive, reached, fresh, bad, runs, versions, bundle,
                     onnx, served>>
      /\ doing = "idle" /\ stage \in From(3) /\ stage' = "logged"
      /\ Len(exports) < MaxRuns /\ exports' = Append(exports, e)
  BY DEF LogExport, Cell
<1>3. e \in Type /\ e = [version |-> ModelVersion, int8 |-> Wanted]
  BY <1>1, <1>2 DEF TrainingTypeOK, ExportInv, ModelVersion
<1>4. exports \in Seq(Type) /\ MaxRuns \in Nat
  BY <1>1, TrainingAssumption DEF TrainingTypeOK
<1>. HIDE DEF e, Type
<1>5. /\ exports' \in Seq(Type) /\ Len(exports') = Len(exports) + 1 /\ exports' # <<>>
      /\ Len(exports) \in Nat /\ exports'[Len(exports) + 1] = e
      /\ \A i \in 1 .. Len(exports) : exports'[i] = exports[i]
  BY <1>2, <1>3, <1>4, Appended
<1>6. TrainingTypeOK' /\ DriveInv' /\ BundleInv'
  BY <1>1, <1>2, <1>4, <1>5, Cells, CellFrame DEF TrainingTypeOK, Type
<1>7. VersionInv'
  BY <1>1, <1>2, Cells DEF VersionInv, Trained
<1>8. ExportInv'
  <2>1. \A i \in 1 .. Len(exports') :
          exports'[i] = [version |-> ModelVersion, int8 |-> Wanted]
    BY <1>1, <1>3, <1>5 DEF ExportInv
  <2>2. \A i \in 1 .. Len(served) : served[i] <= Len(exports')
    <3>1. \A i \in 1 .. Len(served) : served[i] \in Nat
      BY <1>1, <1>4 DEF TrainingTypeOK
    <3>. QED BY <1>1, <1>5, <3>1 DEF ExportInv
  <2>3. Wanted' = Wanted /\ stage \in From(2) /\ stage \in From(1)
    BY <1>2, Cells DEF Wanted
  <2>4. /\ Len(versions) >= ModelVersion /\ bundle.model = Wanted
        /\ onnx.fp32 = Wanted /\ onnx.int8 = Wanted
    BY <1>1, <1>2, <2>3 DEF ExportInv
  <2>. QED BY <1>2, <1>5, <2>1, <2>2, <2>3, <2>4 DEF ExportInv
<1>. QED BY <1>6, <1>7, <1>8 DEF TrainingInv

LEMMA RegisterExportStep ==
  ASSUME TrainingInv, RegisterExport
  PROVE  TrainingInv'
<1>1. TrainingTypeOK /\ VersionInv /\ ExportInv
  BY DEF TrainingInv
<1>2. /\ UNCHANGED <<gpu, doing, step, drive, reached, fresh, bad, runs, versions, bundle,
                     onnx, exports>>
      /\ doing = "idle" /\ stage \in From(4) /\ stage' = "done"
      /\ served' = Append(served, Len(exports))
  BY DEF RegisterExport, Cell, LatestRun
<1>3. /\ exports # <<>> /\ Len(exports) <= MaxRuns /\ MaxRuns \in Nat
      /\ exports \in Seq([version : Nat, int8 : Weights \union {None}])
      /\ served \in Seq(1 .. MaxRuns)
  BY <1>1, <1>2, TrainingAssumption DEF ExportInv, TrainingTypeOK
<1>4. Len(exports) \in 1 .. MaxRuns
  BY <1>3
<1>5. /\ served' \in Seq(1 .. MaxRuns) /\ Len(served') = Len(served) + 1
      /\ Len(served) \in Nat /\ served'[Len(served) + 1] = Len(exports)
      /\ \A i \in 1 .. Len(served) : served'[i] = served[i]
  BY <1>2, <1>3, <1>4, Appended
<1>6. TrainingTypeOK' /\ DriveInv' /\ BundleInv'
  BY <1>1, <1>2, <1>5, Cells, CellFrame DEF TrainingTypeOK
<1>7. VersionInv'
  BY <1>1, <1>2, Cells DEF VersionInv, Trained
<1>8. ExportInv'
  <2>1. \A i \in 1 .. Len(served') : served'[i] <= Len(exports)
    BY <1>1, <1>4, <1>5 DEF ExportInv
  <2>2. Wanted' = Wanted /\ stage \in From(3) /\ stage \in From(2) /\ stage \in From(1)
    BY <1>2, Cells DEF Wanted
  <2>. QED BY <1>1, <1>2, <2>1, <2>2 DEF ExportInv
<1>. QED BY <1>6, <1>7, <1>8 DEF TrainingInv

\* What a failed cell spoils, a cell that is run after it writes anew.
LEMMA CellFailsStep ==
  ASSUME TrainingInv, CellFails
  PROVE  TrainingInv'
<1>1. TrainingTypeOK /\ VersionInv /\ ExportInv
  BY DEF TrainingInv
<1>2. /\ UNCHANGED <<gpu, doing, step, drive, reached, fresh, runs, versions, exports,
                     served>>
      /\ doing = "idle" /\ bad' \in 0 .. MaxBad
  BY <1>1, TrainingAssumption DEF CellFails, TrainingTypeOK
<1>3. \/ /\ bundle' = Empty /\ onnx' = onnx
         /\ stage' \in {"trained", "registered"} /\ stage' = stage
      \/ /\ onnx' = [onnx EXCEPT !.fp32 = None] /\ bundle' = bundle
         /\ stage \in From(1) /\ stage' = "downloaded"
      \/ /\ onnx' = [onnx EXCEPT !.int8 = None] /\ bundle' = bundle
         /\ stage \in From(2) /\ stage' = "exported"
  BY DEF CellFails
<1>4. /\ onnx \in [{"fp32", "int8"} -> Weights \union {None}]
      /\ bundle \in Bundles /\ Empty \in Bundles
  BY <1>1, EmptyDisk DEF TrainingTypeOK
<1>5. /\ onnx' \in [{"fp32", "int8"} -> Weights \union {None}]
      /\ bundle' \in Bundles
      /\ stage' \in {"none", "trained", "registered"} \union From(1)
  BY <1>3, <1>4, Cells
<1>6. TrainingTypeOK' /\ DriveInv' /\ BundleInv'
  BY <1>1, <1>2, <1>5, CellFrame DEF TrainingTypeOK
<1>7. VersionInv'
  BY <1>1, <1>2, <1>3, Cells DEF VersionInv, Trained
<1>8. ExportInv'
  <2>1. Wanted' = Wanted
    BY <1>2 DEF Wanted
  <2>. QED BY <1>1, <1>2, <1>3, <1>4, <2>1, Cells DEF ExportInv
<1>. QED BY <1>6, <1>7, <1>8 DEF TrainingInv

LEMMA TrainingNextInv == TrainingInv /\ [TrainingNext]_trainingVars => TrainingInv'
<1>. SUFFICES ASSUME TrainingInv, [TrainingNext]_trainingVars PROVE TrainingInv'
  OBVIOUS
<1>1. CASE Boot \/ Cut \/ ChangeRuntime BY <1>1, RuntimeSteps
<1>2. CASE StartTraining BY <1>2, StartTrainingStep
<1>3. CASE TrainStep BY <1>3, TrainStepStep
<1>4. CASE FinishCheckpoint BY <1>4, FinishCheckpointStep
<1>5. CASE SaveModel \/ SaveMetrics BY <1>5, SaveBundleStep
<1>6. CASE LogBundle BY <1>6, LogBundleStep
<1>7. CASE Raise BY <1>7, RaiseStep
<1>8. CASE Register BY <1>8, RegisterStep
<1>9. CASE Download BY <1>9, DownloadStep
<1>10. CASE ExportFp32 \/ Quantize BY <1>10, ConvertStep
<1>11. CASE LogExport BY <1>11, LogExportStep
<1>12. CASE RegisterExport BY <1>12, RegisterExportStep
<1>13. CASE CellFails BY <1>13, CellFailsStep
<1>14. CASE UNCHANGED trainingVars
  <2>1. TrainingTypeOK' /\ DriveInv' /\ BundleInv'
    BY <1>14 DEF TrainingInv, TrainingTypeOK, DriveInv, BundleInv, Saved, trainingVars,
                 diskVars
  <2>2. VersionInv' /\ ExportInv'
    BY <1>14 DEF TrainingInv, VersionInv, ExportInv, Wanted, Trained, trainingVars,
                 diskVars
  <2>. QED BY <2>1, <2>2 DEF TrainingInv
<1>. QED BY <1>1, <1>2, <1>3, <1>4, <1>5, <1>6, <1>7, <1>8, <1>9, <1>10, <1>11, <1>12,
            <1>13, <1>14 DEF TrainingNext, TrainingCell

\* The inductive invariant holds for any schedule, any number of checkpoints
\* that are kept, and however often a runtime is cut or a cell fails.
THEOREM TrainingInvariance == TrainingSpec => []TrainingInv
BY TrainingInitInv, TrainingNextInv, PTL DEF TrainingSpec

\* What is registered after run_qa_training went through the whole schedule, and
\* has the metrics of these weights.
THEOREM OnlyTrainedIsRegistered == TrainingSpec => []VersionsAreTrained
<1>1. TrainingInv => VersionsAreTrained
  <2>. SUFFICES ASSUME TrainingInv, NEW v \in 1 .. Len(versions)
                PROVE  LET b == runs[versions[v]] IN
                         b.model = b.metrics /\ b.model = [run |-> versions[v], steps |-> Steps]
    BY DEF VersionsAreTrained
  <2>1. runs[versions[v]] = Trained(versions[v])
    BY DEF TrainingInv, VersionInv
  <2>. QED BY <2>1 DEF Trained
<1>. QED BY <1>1, TrainingInvariance, PTL

\* find_last_checkpoint and the rotation never lose the last whole checkpoint,
\* and no run trains from an earlier one.
THEOREM CheckpointsAreNotLost == TrainingSpec => []ProgressIsKept
<1>1. TrainingInv => ProgressIsKept
  <2>. SUFFICES ASSUME TrainingInv PROVE ProgressIsKept
    OBVIOUS
  <2>1. reached \in 0 .. Steps /\ step \in 0 .. Steps /\ DriveInv
    BY DEF TrainingInv, TrainingTypeOK
  <2>2. Steps \in Nat
    BY TrainingAssumption
  <2>3. reached > 0 => reached \in Checkpoints(drive)
    BY <2>1, <2>2 DEF DriveInv, Checkpoints
  <2>. QED BY <2>1, <2>2, <2>3 DEF DriveInv, ProgressIsKept
<1>. QED BY <1>1, TrainingInvariance, PTL

\* What cuad_onnx_export registers is the version that its run names.
THEOREM ExportIsOfItsVersion == TrainingSpec => []ExportsAreOfVersion
<1>1. TrainingInv => ExportsAreOfVersion
  <2>. SUFFICES ASSUME TrainingInv, NEW i \in 1 .. Len(served)
                PROVE  exports[served[i]].int8
                         = runs[versions[exports[served[i]].version]].model
    BY DEF ExportsAreOfVersion
  <2>1. TrainingTypeOK /\ VersionInv /\ ExportInv
    BY DEF TrainingInv
  <2>2. served[i] \in 1 .. Len(exports)
    <3>1. served \in Seq(1 .. MaxRuns) /\ MaxRuns \in Nat /\ Len(exports) \in Nat
      BY <2>1, TrainingAssumption DEF TrainingTypeOK
    <3>2. served[i] \in 1 .. MaxRuns
      BY <3>1
    <3>3. served[i] <= Len(exports)
      BY <2>1 DEF ExportInv
    <3>. QED BY <3>1, <3>2, <3>3
  <2>3. /\ exports # <<>> /\ Len(versions) >= ModelVersion
        /\ exports[served[i]] = [version |-> ModelVersion, int8 |-> Wanted]
    BY <2>1, <2>2 DEF ExportInv, TrainingTypeOK
  <2>4. runs[versions[ModelVersion]] = Trained(versions[ModelVersion])
    BY <2>1, <2>3 DEF VersionInv, ModelVersion
  <2>. QED BY <2>3, <2>4 DEF Trained, Wanted
<1>. QED BY <1>1, TrainingInvariance, PTL

====
