---- MODULE Contract ----
(***************************************************************************)
(* A contract on its way from PDF pages to clauses and chunks: the source  *)
(* of its text (contracts/ingest.py), the windows in which each clause     *)
(* question is asked (contracts/extractor.py), the spans that are kept     *)
(* (contracts/aggregate.py), and the chunks to be indexed (rag/chunk.py).  *)
(* A text is a sequence of letters and blanks, each a token of its own.    *)
(***************************************************************************)
EXTENDS Integers, FiniteSets, SequencesExt

CONSTANTS
  Pdfs,               \* a sequence of pages each, see PdfType
  MinDigitalChars,    \* _MIN_DIGITAL_CHARS
  NumQuestions,       \* all_questions()
  QuestionLength,     \* the tokens of a question
  WindowSize,         \* the tokens of the text that fit in one window
  Stride,             \* settings.contract_doc_stride
  Logits,             \* what the model may answer, see LogitsType
  NBest, MaxAnswerLength, NoAnswerThreshold,   \* settings.contract_*
  ChunkSettings       \* pairs of settings.rag_chunk_size and rag_chunk_overlap

Texts == Seq({"letter", "blank"})

\* A page has the text that is embedded in it and the text that OCR reads.
PdfType == Seq([digital : Texts, ocr : Texts])

\* A window is [CLS] question [SEP] text [SEP], padded to the same length.
BeforeText == QuestionLength + 2
Positions == 1 .. BeforeText + WindowSize + 1
LogitsType == [start : [Positions -> Int], end : [Positions -> Int]]

ASSUME ContractAssumption ==
  /\ Pdfs \subseteq PdfType
  /\ MinDigitalChars \in Nat /\ NumQuestions \in Nat /\ QuestionLength \in Nat
  /\ WindowSize \in Nat /\ Stride \in Nat /\ Stride < WindowSize
  /\ Logits \subseteq LogitsType
  /\ NBest \in Nat /\ MaxAnswerLength \in Nat /\ NoAnswerThreshold \in Int
  /\ ChunkSettings \subseteq [size : Nat \ {0}, overlap : Nat]

VARIABLES
  pdf,        \* the upload
  pc,         \* what comes next: ingest, read, ask, chunk, done
  source,     \* digital or ocr, of all pages
  page,       \* the pages read
  text,       \* the text of those pages
  asked,      \* the questions that are answered
  window,     \* the windows that the next question has been asked in
  spans,      \* the candidates of those windows
  clauses,    \* the clauses of the questions answered
  chunking,   \* the chunk size and overlap
  chunks,     \* the chunks
  taken,      \* the clauses that were looked at for a chunk
  position,   \* where the next paragraph chunk begins
  index,      \* the index of the next chunk
  logits      \* history only: the answers of the model to the last question

textVars == <<pdf, source, page, text>>
askVars == <<asked, window, spans, clauses, logits>>
chunkVars == <<chunking, chunks, taken, position, index>>
vars == <<pc, textVars, askVars, chunkVars>>

Init ==
  /\ pdf \in Pdfs
  /\ pc = "ingest"
  /\ source = "digital" /\ page = 0 /\ text = <<>>
  /\ asked = 0 /\ window = 0 /\ spans = {} /\ clauses = <<>> /\ logits = <<>>
  /\ chunking = [size |-> 1, overlap |-> 0]
  /\ chunks = <<>> /\ taken = 0 /\ position = 0 /\ index = 0

----------------------------------------------------------------------------
(* The text.                                                               *)

Letters(t) == {p \in 1 .. Len(t) : t[p] = "letter"}
IsBlank(t) == Letters(t) = {}

\* The length of a text without the blanks around it.
Stripped(t) == IF IsBlank(t) THEN 0 ELSE Max(Letters(t)) - Min(Letters(t)) + 1

SelectSource ==
  /\ pc = "ingest"
  /\ LET chars == SumFunction([n \in 1 .. Len(pdf) |-> Stripped(pdf[n].digital)])
     IN  source' = IF chars >= MinDigitalChars THEN "digital" ELSE "ocr"
  /\ pc' = "read"
  /\ UNCHANGED <<pdf, page, text, askVars, chunkVars>>

\* All pages are read from the same source and joined by line breaks.
ReadPage ==
  /\ pc = "read"
  /\ page < Len(pdf)
  /\ page' = page + 1
  /\ text' = IF page = 0 THEN pdf[page'][source]
             ELSE text \o <<"blank">> \o pdf[page'][source]
  /\ UNCHANGED <<pc, pdf, source, askVars, chunkVars>>

FinishPages ==
  /\ pc = "read"
  /\ page = Len(pdf)
  /\ pc' = "ask"
  /\ UNCHANGED <<textVars, askVars, chunkVars>>

----------------------------------------------------------------------------
(* The clauses.                                                            *)

\* The token of the text at position j of window w, if there is one.
TokenAt(w, j) == (w - 1) * (WindowSize - Stride) + j - BeforeText
HasText(w, j) ==
  j - BeforeText \in 1 .. WindowSize /\ TokenAt(w, j) \in 1 .. Len(text)

\* The windows end with the first that reaches the end of the text.
NumWindows ==
  CHOOSE n \in 1 .. Len(text) + 1 :
    /\ (n - 1) * (WindowSize - Stride) + WindowSize >= Len(text)
    /\ \A m \in 1 .. n - 1 :
         (m - 1) * (WindowSize - Stride) + WindowSize < Len(text)

\* Faulty variant: the tokens of the question keep their offsets.
OffsetsOfQuestion(w) ==
  [j \in Positions |->
     IF HasText(w, j) THEN <<TokenAt(w, j) - 1, TokenAt(w, j)>>
     ELSE IF j \in 2 .. QuestionLength + 1 THEN <<j - 2, j - 1>> ELSE <<0, 0>>]

\* Where the tokens of the text are; the others are masked.
Offsets(w) ==
  [j \in Positions |->
     IF HasText(w, j) THEN <<TokenAt(w, j) - 1, TokenAt(w, j)>> ELSE <<0, 0>>]

\* Any NBest of S with the highest scores, whatever the order of equal scores.
Best(S, score) ==
  {T \in SUBSET S :
     /\ Cardinality(T) = IF Cardinality(S) < NBest THEN Cardinality(S) ELSE NBest
     /\ \A a \in T : \A b \in S \ T : score[a] >= score[b]}

\* Faulty variant: the tokens are ranked before the masked ones are excluded.
EndpointsLate(w, score) ==
  {{j \in T : Offsets(w)[j] # <<0, 0>>} : T \in Best(Positions, score)}

Endpoints(w, score) == Best({j \in Positions : Offsets(w)[j] # <<0, 0>>}, score)

\* Faulty variant: a span may end before it starts.
AdmissibleBackwards(s, e) == e - s + 1 <= MaxAnswerLength

Admissible(s, e) == s <= e /\ e - s + 1 <= MaxAnswerLength

Span(w, p, score) ==
  [window |-> w, from |-> Offsets(w)[p[1]][1], to |-> Offsets(w)[p[2]][2],
   score |-> score]

Pairs(starts, ends) == {p \in starts \X ends : Admissible(p[1], p[2])}

PairScore(l, p) == l.start[p[1]] + l.end[p[2]]

BestOf(w, l, pairs) ==
  {{Span(w, p, PairScore(l, p)) : p \in kept} :
     kept \in Best(pairs, [p \in pairs |-> PairScore(l, p)])}

\* The spans of one window that best_spans_from_window may return.
BestSpans(w, l) ==
  UNION {BestOf(w, l, Pairs(starts, ends)) :
           starts \in Endpoints(w, l.start), ends \in Endpoints(w, l.end)}

AskWindow ==
  /\ pc = "ask"
  /\ asked < NumQuestions
  /\ window < NumWindows
  /\ window' = window + 1
  /\ \E l \in Logits :
       /\ \E best \in BestSpans(window', l) : spans' = spans \union best
       /\ logits' = IF window = 0 THEN <<l>> ELSE Append(logits, l)
  /\ UNCHANGED <<pc, textVars, asked, clauses, chunkVars>>

\* The best spans of all windows, the highest score first.
Rankings ==
  {r \in UNION {[1 .. n -> spans] : n \in 0 .. NBest} :
     /\ \A i \in DOMAIN r : \A j \in DOMAIN r :
          i < j => r[i] # r[j] /\ r[i].score >= r[j].score
     /\ \A x \in spans \ Range(r) :
          Len(r) = NBest /\ \A i \in DOMAIN r : r[i].score >= x.score}

Clause(x) == [question |-> asked + 1, from |-> x.from, to |-> x.to, score |-> x.score]

\* The first n spans of the ranking are those above the threshold.
AggregateClause ==
  /\ pc = "ask"
  /\ asked < NumQuestions
  /\ window = NumWindows
  /\ \E ranked \in Rankings : \E n \in 0 .. Len(ranked) :
       /\ \A i \in DOMAIN ranked : i <= n <=> ranked[i].score >= NoAnswerThreshold
       /\ clauses' = clauses \o [i \in 1 .. n |-> Clause(ranked[i])]
  /\ asked' = asked + 1
  /\ window' = 0 /\ spans' = {}
  /\ UNCHANGED <<pc, textVars, logits, chunkVars>>

----------------------------------------------------------------------------
(* The chunks.                                                             *)

BeginChunks ==
  /\ pc = "ask"
  /\ asked = NumQuestions
  /\ chunking' \in ChunkSettings
  /\ pc' = "chunk"
  /\ logits' = <<>>
  /\ UNCHANGED <<textVars, asked, window, spans, clauses, chunks, taken, position, index>>

Slice(from, to) == SubSeq(text, from + 1, to)

Chunk(from, to, kind) == [from |-> from, to |-> to, index |-> index, kind |-> kind]

\* A blank chunk is left out.
AddChunk(from, to, kind) ==
  IF IsBlank(Slice(from, to)) THEN UNCHANGED <<chunks, index>>
  ELSE chunks' = Append(chunks, Chunk(from, to, kind)) /\ index' = index + 1

ChunkClause ==
  /\ pc = "chunk"
  /\ taken < Len(clauses)
  /\ taken' = taken + 1
  /\ AddChunk(clauses[taken'].from, clauses[taken'].to, "clause")
  /\ UNCHANGED <<pc, textVars, askVars, chunking, position>>

\* Faulty variant: the windows do not overlap.
StepWhole == chunking.size

Step == IF chunking.size > chunking.overlap THEN chunking.size - chunking.overlap ELSE 1

ChunkParagraph ==
  /\ pc = "chunk"
  /\ taken = Len(clauses)
  /\ position < Len(text)
  /\ LET end == position + chunking.size
     IN  AddChunk(position, IF end < Len(text) THEN end ELSE Len(text), "paragraph")
  /\ position' = position + Step
  /\ UNCHANGED <<pc, textVars, askVars, chunking, taken>>

FinishChunks ==
  /\ pc = "chunk"
  /\ taken = Len(clauses)
  /\ position >= Len(text)
  /\ pc' = "done"
  /\ UNCHANGED <<textVars, askVars, chunkVars>>

----------------------------------------------------------------------------

Next ==
  \/ SelectSource \/ ReadPage \/ FinishPages
  \/ AskWindow \/ AggregateClause
  \/ BeginChunks \/ ChunkClause \/ ChunkParagraph \/ FinishChunks

Spec == Init /\ [][Next]_vars

----------------------------------------------------------------------------
(* Properties.                                                             *)

Spans == [window : Nat, from : Nat, to : Nat, score : Int]
Clauses == [question : Nat, from : Nat, to : Nat, score : Int]
Chunks == [from : Nat, to : Nat, index : Nat, kind : {"clause", "paragraph"}]

\* Every variable has its type.
ContractTypeOK ==
  /\ pdf \in Pdfs
  /\ pc \in {"ingest", "read", "ask", "chunk", "done"}
  /\ source \in {"digital", "ocr"} /\ page \in 0 .. Len(pdf)
  /\ text \in Texts
  /\ asked \in 0 .. NumQuestions /\ window \in Nat
  /\ spans \subseteq Spans
  /\ clauses \in Seq(Clauses)
  /\ chunking \in [size : Nat \ {0}, overlap : Nat]
  /\ chunks \in Seq(Chunks)
  /\ taken \in 0 .. Len(clauses) /\ position \in Nat /\ index \in Nat
  /\ logits \in Seq(Logits)

\* A span of the text, of at most MaxAnswerLength tokens.
OfText(x) ==
  x.from < x.to /\ x.to <= Len(text) /\ x.to - x.from <= MaxAnswerLength

\* Every clause is a span within the contract's text, which is not empty and no
\* longer than an answer may be, and is above the threshold: starts and ends are
\* scored apart and paired freely.
SpansOfContract ==
  \A i \in 1 .. Len(clauses) :
    OfText(clauses[i]) /\ clauses[i].score >= NoAnswerThreshold

\* NBest other tokens of the window are as good an endpoint as the one at j.
Crowded(w, score, j) ==
  Cardinality({k \in Positions \ {j} : HasText(w, k) /\ score[k] >= score[j]}) >= NBest

Mine == {i \in 1 .. Len(clauses) : clauses[i].question = asked}
JustAnswered == window = 0 /\ logits # <<>>

\* The spans of window w that an answer may be, with their positions and scores.
Answers(w) ==
  {[s |-> s, e |-> e, from |-> TokenAt(w, s) - 1, to |-> TokenAt(w, e),
    score |-> logits[w].start[s] + logits[w].end[e]] :
     s \in {j \in Positions : HasText(w, j)}, e \in {j \in Positions : HasText(w, j)}}

\* An admissible answer whose ends are among the NBest of its window.
InReach(w, x) ==
  /\ Admissible(x.s, x.e)
  /\ ~Crowded(w, logits[w].start, x.s) /\ ~Crowded(w, logits[w].end, x.e)

SameSpan(x, y) == x.from = y.from /\ x.to = y.to /\ x.score = y.score

\* The clauses of a question are answers of its windows and come best first; they
\* miss no admissible answer above the threshold, unless NBest clauses are as
\* good, or NBest tokens of its window are as good for one of its ends.
BestSpansFound ==
  JustAnswered =>
    /\ \A i \in Mine : \A j \in Mine : i < j => clauses[i].score >= clauses[j].score
    /\ \A i \in Mine : \E w \in 1 .. NumWindows : \E x \in Answers(w) :
         SameSpan(clauses[i], x)
    /\ \A w \in 1 .. NumWindows : \A x \in Answers(w) :
         InReach(w, x) /\ x.score >= NoAnswerThreshold =>
           \/ \E i \in Mine : SameSpan(clauses[i], x)
           \/ Cardinality(Mine) = NBest /\ \A i \in Mine : clauses[i].score >= x.score

\* Chunks are numbered in order through both kinds, so that no two of them get
\* the same point id.
ChunksAreNumbered ==
  /\ index = Len(chunks)
  /\ \A i \in 1 .. Len(chunks) : chunks[i].index = i - 1

\* The passage from a to b lies in one paragraph chunk.
InOneChunk(a, b) ==
  \E i \in 1 .. Len(chunks) :
    chunks[i].kind = "paragraph" /\ chunks[i].from <= a /\ b <= chunks[i].to

\* Short enough to lie in one chunk: one character more than the overlap.
Short(n) == n <= chunking.overlap + 1 /\ n <= chunking.size

\* Every short passage that begins before p and is not blank lies in one chunk.
WholeBefore(p) ==
  \A a \in 0 .. Len(text) : \A b \in a .. Len(text) :
    a < p /\ Short(b - a) /\ ~IsBlank(Slice(a, b)) => InOneChunk(a, b)

\* The chunks leave no letter out and, what the overlap is for, cut no passage of
\* its length in two, at the end of the text as in the middle.
PassagesAreWhole == pc = "done" => WholeBefore(Len(text))

----------------------------------------------------------------------------
(* The inductive invariant.                                                *)

SpanInv ==
  /\ pc \in {"ingest", "read"} => spans = {} /\ clauses = <<>>
  /\ \A x \in spans : OfText(x)

ChunkInv ==
  /\ pc \in {"ingest", "read", "ask"} => position = 0
  /\ pc = "done" => position >= Len(text)
  /\ WholeBefore(position)

ContractInv ==
  /\ ContractTypeOK /\ SpanInv /\ ChunkInv
  /\ SpansOfContract /\ ChunksAreNumbered

\* NBest candidates are as good as a score.
Outdone(score) == Cardinality({x \in spans : x.score >= score}) >= NBest

\* What BestSpansFound says of the clauses, of the candidates of the windows that
\* the next question has been asked in.
CandidateInv ==
  /\ pc # "ask" => logits = <<>>
  /\ window > 0 => asked < NumQuestions /\ Len(logits) = window
  /\ \A i \in 1 .. Len(clauses) : clauses[i].question <= asked
  /\ IsFiniteSet(spans)
  /\ \A z \in spans :
       z.window \in 1 .. window /\ \E x \in Answers(z.window) : SameSpan(z, x)
  /\ \A w \in 1 .. window : \A x \in Answers(w) :
       InReach(w, x) => Outdone(x.score) \/ \E z \in spans : SameSpan(z, x)

AnswersInv == CandidateInv /\ BestSpansFound

====
