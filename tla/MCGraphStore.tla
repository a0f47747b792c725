---- MODULE MCGraphStore ----
(***************************************************************************)
(* A small instance of GraphStore.  One clause mentions an ISO date after  *)
(* a date in words, one an ISO date that does not exist before an American *)
(* one, one no date at all.                                                *)
(***************************************************************************)
EXTENDS GraphStore, TLC

CONSTANTS wordsIso, badIso, noDate

At(form, day) == [form |-> form, day |-> day]
Clause(type, text) == [type |-> type, text |-> text]

MCDates ==
  (wordsIso :> <<At("words", 1), At("iso", 2)>>) @@
  (badIso :> <<At("iso", Invalid), At("slash", 1)>>) @@
  (noDate :> <<>>)

MCDocuments ==
  {<<Clause("Expiration Date", wordsIso), Clause("Renewal Term", noDate)>>,
   <<Clause("other", noDate), Clause("Expiration Date", badIso),
     Clause("Expiration Date", wordsIso)>>,
   <<Clause("Renewal Term", badIso), Clause("Expiration Date", noDate)>>}

====
