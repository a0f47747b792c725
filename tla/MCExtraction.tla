---- MODULE MCExtraction ----
(***************************************************************************)
(* Small instances of Extraction.  The first contract needs two batches of *)
(* chunks, so that indexing can stop half way; the second has no text, so  *)
(* it is indexed with no chunk at all.                                     *)
(***************************************************************************)
EXTENDS Extraction, TLC

CONSTANTS longPdf, blankPdf

MCNumBatches == (longPdf :> 2) @@ [p \in Pdfs \ {longPdf} |-> 0]

====
