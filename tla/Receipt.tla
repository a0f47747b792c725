---- MODULE Receipt ----
(***************************************************************************)
(* A receipt on its way from OCR words to a validated document: the labels *)
(* of the tokens become one prediction per word (kie/backend.py), the walk *)
(* over the words collects line items and spans (kie/decode.py), one span  *)
(* of each field is read as money (schema.py), and the document is checked *)
(* (validation/rules.py).  Amounts are in hundredths.                      *)
(***************************************************************************)
EXTENDS Integers, FiniteSets, SequencesExt

CONSTANTS
  Receipts,     \* what OCR, tokenizer and model may yield, see ReceiptType
  Tolerance,    \* settings.validation_tolerance
  Threshold,    \* settings.confidence_threshold
  Separator, Other,   \* the symbols of a text that are not digits
  None

LineFields == {"menu.nm", "menu.cnt", "menu.unitprice", "menu.price"}
Scalars == {"subtotal_price", "tax_price", "service_price", "total_price"}
Labels ==
  [begins : BOOLEAN, category : LineFields \union Scalars \union {"outside"}]

\* A text is a sequence of digits, separators and other symbols.  The tokenizer
\* numbers the word of each token and may cut the last ones off; a word has one
\* token at least, unless it is empty, and such words are left out here.  The
\* model gives each token a label and a confidence.
Texts == Seq(0 .. 9 \union {Separator, Other}) \ {<<>>}
ReceiptType ==
  [text : Seq(Texts), wordId : Seq(Nat \ {0}), label : Seq(Labels), conf : Seq(Nat)]

InOrder(ids, words) ==
  /\ ids # <<>> => ids[1] = 1
  /\ \A t \in 1 .. Len(ids) : ids[t] <= words
  /\ \A t \in 1 .. Len(ids) - 1 : ids[t + 1] \in {ids[t], ids[t] + 1}

WellFormed(r) ==
  /\ r \in ReceiptType
  /\ Len(r.label) = Len(r.wordId)
  /\ Len(r.conf) = Len(r.wordId)
  /\ InOrder(r.wordId, Len(r.text))

ASSUME ReceiptAssumption ==
  /\ Tolerance \in Nat /\ Threshold \in Nat
  /\ None \notin Nat
  /\ \A r \in Receipts : WellFormed(r)

VARIABLES
  receipt,      \* the input
  pc,           \* what comes next: label, collect, build, validate, done
  token,        \* the tokens read
  predictions,  \* the words that have a label so far, in reading order
  items,        \* the number of line items
  itemOf,       \* the line item of each word that was walked over, or 0
  spans,        \* the number of spans of each scalar field
  spanOf,       \* the span of each of those words, in its field, or 0
  document,     \* the document, or None
  report        \* the validation report, or None

inputVars == <<receipt, token, predictions>>
walkVars == <<items, itemOf, spans, spanOf>>
vars == <<inputVars, pc, walkVars, document, report>>

Init ==
  /\ receipt \in Receipts
  /\ pc = "label"
  /\ token = 0
  /\ predictions = <<>>
  /\ items = 0 /\ itemOf = <<>>
  /\ spans = [f \in Scalars |-> 0] /\ spanOf = <<>>
  /\ document = None
  /\ report = None

----------------------------------------------------------------------------
(* One prediction per word.                                                *)

Prediction(t) ==
  [word |-> receipt.wordId[t], label |-> receipt.label[t], conf |-> receipt.conf[t]]

Seen == {predictions[n].word : n \in 1 .. Len(predictions)}

\* Faulty variant: the last token of a word has the word.
LabelTokenLast ==
  /\ pc = "label"
  /\ token < Len(receipt.wordId)
  /\ token' = token + 1
  /\ predictions' = IF receipt.wordId[token'] \in Seen
                    THEN [predictions EXCEPT ![Len(predictions)] = Prediction(token')]
                    ELSE Append(predictions, Prediction(token'))
  /\ UNCHANGED <<receipt, pc, walkVars, document, report>>

LabelToken ==
  /\ pc = "label"
  /\ token < Len(receipt.wordId)
  /\ token' = token + 1
  /\ predictions' = IF receipt.wordId[token'] \in Seen THEN predictions
                    ELSE Append(predictions, Prediction(token'))
  /\ UNCHANGED <<receipt, pc, walkVars, document, report>>

EndTokens ==
  /\ pc = "label"
  /\ token = Len(receipt.wordId)
  /\ pc' = "collect"
  /\ UNCHANGED <<inputVars, walkVars, document, report>>

----------------------------------------------------------------------------
(* The walk over the words.                                                *)

Category(n) == predictions[n].label.category
Begins(n) == predictions[n].label.begins
StartsItem(n) == Category(n) = "menu.nm" /\ Begins(n)

\* Faulty variant: a name that goes on opens an item of its own.
CollectWordEachName ==
  /\ pc = "collect"
  /\ Len(itemOf) < Len(predictions)
  /\ LET n == Len(itemOf) + 1
         f == Category(n)
     IN  /\ items' = IF f = "menu.nm" THEN items + 1 ELSE items
         /\ itemOf' = Append(itemOf, IF f \in LineFields THEN items' ELSE 0)
         /\ spans' = IF f \in Scalars /\ (Begins(n) \/ spans[f] = 0)
                     THEN [spans EXCEPT ![f] = @ + 1] ELSE spans
         /\ spanOf' = Append(spanOf, IF f \in Scalars THEN spans'[f] ELSE 0)
  /\ UNCHANGED <<inputVars, pc, document, report>>

\* A word of a line field goes to the last item, if there is one; a word of a
\* scalar field begins a span or extends the last one of its field.
CollectWord ==
  /\ pc = "collect"
  /\ Len(itemOf) < Len(predictions)
  /\ LET n == Len(itemOf) + 1
         f == Category(n)
     IN  /\ items' = IF StartsItem(n) THEN items + 1 ELSE items
         /\ itemOf' = Append(itemOf, IF f \in LineFields THEN items' ELSE 0)
         /\ spans' = IF f \in Scalars /\ (Begins(n) \/ spans[f] = 0)
                     THEN [spans EXCEPT ![f] = @ + 1] ELSE spans
         /\ spanOf' = Append(spanOf, IF f \in Scalars THEN spans'[f] ELSE 0)
  /\ UNCHANGED <<inputVars, pc, document, report>>

EndWords ==
  /\ pc = "collect"
  /\ Len(itemOf) = Len(predictions)
  /\ pc' = "build"
  /\ UNCHANGED <<inputVars, walkVars, document, report>>

----------------------------------------------------------------------------
(* The document.                                                           *)

\* The texts of a set of words, joined in reading order.
Joined(S) ==
  FlattenSeq([n \in 1 .. Len(predictions) |->
                IF n \in S THEN receipt.text[predictions[n].word] ELSE <<>>])

\* The number that the digits of a text are, whatever is between them.
Number(text) ==
  FoldLeft(LAMBDA value, s : IF s \in 0 .. 9 THEN 10 * value + s ELSE value, 0, text)

\* Separators are thousands separators, except one before two last digits of
\* more than two.
ParseMoney(text) ==
  LET cleaned == SelectSeq(text, LAMBDA s : s # Other)
      digits == SelectSeq(cleaned, LAMBDA s : s # Separator)
      decimal == /\ Len(cleaned) > 2
                 /\ cleaned[Len(cleaned) - 2] = Separator
                 /\ cleaned[Len(cleaned) - 1] # Separator
                 /\ cleaned[Len(cleaned)] # Separator
                 /\ Len(digits) > 2
  IN  IF digits = <<>> THEN None
      ELSE IF decimal THEN Number(text) ELSE 100 * Number(text)

SumOfConf(S) == SumFunctionOnSet([n \in S |-> predictions[n].conf], S)

\* The mean confidence of S is at least that of T.
AtLeastAsSure(S, T) ==
  SumOfConf(S) * Cardinality(T) >= SumOfConf(T) * Cardinality(S)

Below(S) == SumOfConf(S) < Threshold * Cardinality(S)

SpanWords(f, k) ==
  {n \in 1 .. Len(spanOf) : Category(n) = f /\ spanOf[n] = k}
ItemWords(k) == {n \in 1 .. Len(itemOf) : itemOf[n] = k}

\* Faulty variant: the surest span, whether it is a number or not.
ChosenSurest(f) ==
  CHOOSE k \in 1 .. spans[f] :
    \A j \in 1 .. spans[f] :
      /\ AtLeastAsSure(SpanWords(f, k), SpanWords(f, j))
      /\ j < k => ~AtLeastAsSure(SpanWords(f, j), SpanWords(f, k))

\* The first of the surest spans, of those that are numbers if there are any.
Chosen(f) ==
  LET numbers ==
        {k \in 1 .. spans[f] : ParseMoney(Joined(SpanWords(f, k))) # None}
      candidates == IF numbers = {} THEN 1 .. spans[f] ELSE numbers
  IN  CHOOSE k \in candidates :
        \A j \in candidates :
          /\ AtLeastAsSure(SpanWords(f, k), SpanWords(f, j))
          /\ j < k => ~AtLeastAsSure(SpanWords(f, j), SpanWords(f, k))

\* A line item keeps its price and whether its words are sure enough.
LineItem(k) ==
  LET words == {n \in ItemWords(k) : Category(n) = "menu.price"}
  IN  [price |-> IF words = {} THEN None ELSE ParseMoney(Joined(words)),
       unsure |-> Below(ItemWords(k))]

BuildDocument ==
  /\ pc = "build"
  /\ LET found == {f \in Scalars : spans[f] > 0}
         words(f) == SpanWords(f, Chosen(f))
         value == [f \in Scalars |-> IF f \in found
                                     THEN ParseMoney(Joined(words(f))) ELSE None]
     IN  document' =
           [lineItems |-> [k \in 1 .. items |-> LineItem(k)],
            value |-> value,
            unsure |-> {f \in found : Below(words(f))},
            unparsed |-> {f \in found : value[f] = None /\ Joined(words(f)) # <<>>}]
  /\ pc' = "validate"
  /\ UNCHANGED <<inputVars, walkVars, report>>

----------------------------------------------------------------------------
(* The validation.                                                         *)

OrZero(amount) == IF amount = None THEN 0 ELSE amount

\* Faulty variant: only sums that are too large are an error.
DifferAbove(a, b) == a - b > Tolerance

Differ(a, b) == a - b > Tolerance \/ b - a > Tolerance

PricesOf(d) == [k \in 1 .. Len(d.lineItems) |-> d.lineItems[k].price]
AllPriced(d) == d.lineItems # <<>> /\ None \notin Range(PricesOf(d))
SumOfItems(d) == SumFunction(PricesOf(d))

Expected(d) ==
  d.value["subtotal_price"] + OrZero(d.value["tax_price"])
                            + OrZero(d.value["service_price"])

Reconciliation(d) ==
  {e \in {"total"} :
     /\ d.value["total_price"] # None
     /\ d.value["subtotal_price"] # None
     /\ Differ(Expected(d), d.value["total_price"])}
  \union
  {e \in {"subtotal"} :
     /\ d.value["subtotal_price"] # None
     /\ AllPriced(d)
     /\ Differ(SumOfItems(d), d.value["subtotal_price"])}

RequiredFields(d) ==
  {e \in {"total is missing"} : d.value["total_price"] = None}
  \union {e \in {"no line items"} : d.lineItems = <<>>}

LowConfidence(d) ==
  {<<"field", f>> : f \in d.unsure}
  \union {<<"item", k>> : k \in {j \in 1 .. Len(d.lineItems) : d.lineItems[j].unsure}}

Validate ==
  /\ pc = "validate"
  /\ report' = [ok |-> Reconciliation(document) \union RequiredFields(document) = {},
                errors |-> Reconciliation(document) \union RequiredFields(document),
                lowConfidence |-> LowConfidence(document),
                numberSanity |-> document.unparsed]
  /\ pc' = "done"
  /\ UNCHANGED <<inputVars, walkVars, document>>

----------------------------------------------------------------------------

Next ==
  \/ LabelToken \/ EndTokens
  \/ CollectWord \/ EndWords
  \/ BuildDocument \/ Validate

Spec == Init /\ [][Next]_vars

----------------------------------------------------------------------------
(* Properties.                                                             *)

Amounts == Nat \union {None}

\* Every variable has its type.
ReceiptTypeOK ==
  /\ WellFormed(receipt)
  /\ pc \in {"label", "collect", "build", "validate", "done"}
  /\ token \in 0 .. Len(receipt.wordId)
  /\ predictions \in Seq([word : Nat \ {0}, label : Labels, conf : Nat])
  /\ items \in Nat
  /\ itemOf \in Seq(Nat)
  /\ spans \in [Scalars -> Nat]
  /\ spanOf \in Seq(Nat)

\* The predictions are the words in reading order, without a gap or a double,
\* and each word has the label of its first token.
FirstTokenWins ==
  \A n \in 1 .. Len(predictions) :
    /\ predictions[n].word = n
    /\ \E t \in 1 .. token :
         /\ predictions[n] = Prediction(t)
         /\ \A u \in 1 .. t - 1 : receipt.wordId[u] < n

Collected == 1 .. Len(itemOf)
OfLine(n) == Category(n) \in LineFields

\* Two words share a line item just if no item starts after the first and up to
\* the second, and a word has none just if none has started: prices never move
\* to the next item, and what precedes the first item opens none.
WordsShareItems ==
  \A n \in Collected :
    OfLine(n) =>
      /\ itemOf[n] = 0 <=> \A k \in 1 .. n : ~StartsItem(k)
      /\ \A m \in 1 .. n :
           OfLine(m) => (itemOf[m] = itemOf[n] <=> \A k \in m + 1 .. n : ~StartsItem(k))

\* Two words of a scalar field share a span just if no word between begins a
\* span of that field: two numbers that both begin are never glued together.
WordsShareSpans ==
  \A n \in Collected : \A m \in 1 .. n :
    Category(n) = Category(m) /\ Category(n) \in Scalars =>
      (spanOf[m] = spanOf[n] <=>
         \A k \in m + 1 .. n : ~(Category(k) = Category(n) /\ Begins(k)))

\* The labels alone, and nothing of how the walk keeps its spans, say which
\* words become one number and which prices belong to one item.
WordsAreGrouped == WordsShareItems /\ WordsShareSpans

\* What was labelled as a field is not dropped without a word: the field has a
\* value if any of its spans is a number, and is reported as unparsed if not.
FieldsAreReported ==
  pc = "done" =>
    \A f \in Scalars : spans[f] > 0 =>
      /\ document.value[f] = None => f \in report.numberSanity
      /\ (\E k \in 1 .. spans[f] : ParseMoney(Joined(SpanWords(f, k))) # None)
           => document.value[f] # None

\* The line items, tax and service of a document that is ok make its total, up
\* to the tolerance of the two checks, in both directions.
OkReconciles ==
  pc = "done" /\ report.ok
    /\ AllPriced(document) /\ document.value["subtotal_price"] # None =>
    LET sum == SumOfItems(document) + OrZero(document.value["tax_price"])
                                    + OrZero(document.value["service_price"])
        total == document.value["total_price"]
    IN  sum - total \in -2 * Tolerance .. 2 * Tolerance

----------------------------------------------------------------------------
(* The inductive invariant.                                                *)

\* The words seen are those of the tokens read, and the walk has not begun.
LabelInv ==
  /\ \A u \in 1 .. token : receipt.wordId[u] <= Len(predictions)
  /\ token > 0 => Len(predictions) = receipt.wordId[token]
  /\ token = 0 => predictions = <<>>
  /\ pc = "label" => itemOf = <<>> /\ spanOf = <<>>

\* The item of a word is the last one, unless another has started since, and
\* the same for its span.
WalkInv ==
  /\ Len(itemOf) = Len(spanOf) /\ Len(itemOf) <= Len(predictions)
  /\ items = 0 <=> \A k \in Collected : ~StartsItem(k)
  /\ \A n \in Collected : OfLine(n) =>
       /\ itemOf[n] <= items
       /\ itemOf[n] = items <=> \A k \in n + 1 .. Len(itemOf) : ~StartsItem(k)
  /\ \A n \in Collected : Category(n) \in Scalars =>
       /\ spanOf[n] \in 1 .. spans[Category(n)]
       /\ spanOf[n] = spans[Category(n)] <=>
            \A k \in n + 1 .. Len(itemOf) :
              ~(Category(k) = Category(n) /\ Begins(k))

ReceiptInv ==
  /\ ReceiptTypeOK /\ LabelInv /\ WalkInv
  /\ FirstTokenWins /\ WordsShareItems /\ WordsShareSpans

\* Each span has a word, so that a field that was found has a text.
SpansHaveWords ==
  \A f \in Scalars : \A k \in 1 .. spans[f] : SpanWords(f, k) # {}

\* What a document says is an amount, or missing and then reported.
BuiltInv ==
  pc \in {"validate", "done"} =>
    /\ document.value \in [Scalars -> Amounts]
    /\ Len(document.lineItems) \in Nat
    /\ \A k \in 1 .. Len(document.lineItems) : document.lineItems[k].price \in Amounts
    /\ \A f \in Scalars : spans[f] > 0 =>
         /\ document.value[f] = None => f \in document.unparsed
         /\ (\E k \in 1 .. spans[f] : ParseMoney(Joined(SpanWords(f, k))) # None)
              => document.value[f] # None

ReportInv ==
  pc = "done" =>
    /\ report.numberSanity = document.unparsed
    /\ report.ok => Reconciliation(document) \union RequiredFields(document) = {}

DocumentInv == SpansHaveWords /\ BuiltInv /\ ReportInv

====
