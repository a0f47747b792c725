---- MODULE MCContract ----
(***************************************************************************)
(* A digital contract in two windows, one with a page that is only an      *)
(* image, and a scanned one.  The model finds the question and the padding *)
(* likelier than the text.                                                 *)
(***************************************************************************)
EXTENDS Contract, TLC

\* 1 is a letter, 0 a blank.
Text(s) == [n \in 1 .. Len(s) |-> IF s[n] = 1 THEN "letter" ELSE "blank"]
Page(digital, ocr) == [digital |-> Text(digital), ocr |-> Text(ocr)]

MCPdfs ==
  {<<Page(<<1, 1>>, <<1>>), Page(<<0, 1>>, <<1>>)>>,
   <<Page(<<1, 1>>, <<1>>), Page(<<>>, <<1, 1>>)>>,
   <<Page(<<0>>, <<1, 0, 0, 1>>)>>}

\* Scores of the three tokens of a window: one that stands out, a tie of the
\* last two, an order.
Scores == {<<1, 0, 0>>, <<0, 1, 1>>, <<0, 2, 1>>}
Reversed == {Reverse(s) : s \in Scores}

OnText(scores) ==
  [j \in Positions |-> IF j - BeforeText \in 1 .. WindowSize
                       THEN scores[j - BeforeText] ELSE 3]

MCLogits ==
  {[start |-> OnText(s), end |-> OnText(e)] : s \in Scores, e \in Reversed \ {<<0, 0, 1>>}}

MCChunkSettings ==
  {[size |-> 4, overlap |-> 2], [size |-> 3, overlap |-> 0], [size |-> 2, overlap |-> 3]}

====
