\* Two contracts, upserted again and again, and queries of every window.
SPECIFICATION GraphSpec
CONSTANTS
  wordsIso = wordsIso
  badIso = badIso
  noDate = noDate
  Contracts = {c1, c2}
  LastDay = 2
  Texts = {wordsIso, badIso, noDate}
  Dates <- MCDates
  Documents <- MCDocuments
  Invalid = Invalid
  Absent = Absent
  NoFact = NoFact
  NoTx = NoTx
INVARIANTS
  OneFactEach
PROPERTIES
  ImplementsMemory
CHECK_DEADLOCK FALSE
