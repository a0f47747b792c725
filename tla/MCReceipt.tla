---- MODULE MCReceipt ----
(***************************************************************************)
(* Receipts of up to MaxWords words: every sequence of the words below,    *)
(* one token each; and, over fewer kinds of words, those whose first word  *)
(* has two tokens or whose last word is cut off.                           *)
(***************************************************************************)
EXTENDS Receipt, TLC

CONSTANT MaxWords

Begin(c) == [begins |-> TRUE, category |-> c]
Inside(c) == [begins |-> FALSE, category |-> c]
Word(label, text) == [label |-> label, text |-> text]

Item == Word(Begin("menu.nm"), <<Other>>)
Price(text) == Word(Begin("menu.price"), text)
Total(text) == Word(Begin("total_price"), text)
MoreTotal == Word(Inside("total_price"), <<5>>)
Subtotal(text) == Word(Begin("subtotal_price"), text)

FewKinds == {Item, Price(<<2>>), Total(<<2>>), MoreTotal}

Kinds ==
  FewKinds \union
  {Word(Inside("menu.nm"), <<Other>>), Total(<<1, Separator, 5, 0>>), Total(<<Other>>),
   Subtotal(<<1>>), Subtotal(<<2>>), Word(Begin("tax_price"), <<1>>),
   Word(Inside("outside"), <<Other>>)}

Sheets(kinds) == UNION {[1 .. n -> kinds] : n \in 0 .. MaxWords}

\* The first word is the surest, or the last.
Scanned(w, ids, sure) ==
  [text |-> [n \in 1 .. Len(w) |-> w[n].text],
   wordId |-> ids,
   label |-> [t \in 1 .. Len(ids) |-> IF t > 1 /\ ids[t] = ids[t - 1]
                                     THEN Inside("outside") ELSE w[ids[t]].label],
   conf |-> [t \in 1 .. Len(ids) |-> IF sure = "first" THEN 60 - 10 * ids[t]
                                     ELSE 30 + 10 * ids[t]]]

All(w) == [n \in 1 .. Len(w) |-> n]

MCReceipts ==
  {Scanned(w, All(w), "first") : w \in Sheets(Kinds)} \union
  {Scanned(w, All(w), "last") : w \in Sheets(FewKinds \union {Total(<<Other>>)})} \union
  UNION {{Scanned(w, <<1>> \o All(w), "first"), Scanned(w, Front(All(w)), "first")} :
           w \in {v \in Sheets(FewKinds) : v # <<>>}}

====
