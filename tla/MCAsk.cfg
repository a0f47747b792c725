\* One question beside two contracts that are upserted again and again.
SPECIFICATION AskSpec
CONSTANTS
  c1 = c1
  c2 = c2
  t1 = t1
  k1 = k1
  k2 = k2
  Contracts = {c1, c2}
  Day = {0, 1, 2, 3}
  Texts = {t1}
  Upserted <- MCUpserted
  Absent = Absent
  NoFact = NoFact
  Asks = {a1}
  Questions <- MCQuestions
  Chunks = {k1, k2}
  ContractOf <- MCContractOf
  Fused <- MCFused
  Cross <- MCCross
  DefaultDays = 2
  Candidates = 1
  MaxDays = 2
  LastToday = 1
  NoDays = NoDays
  Overflow = Overflow
  NoScope = NoScope
  NoQuestion = NoQuestion
INVARIANTS
  EnoughCitations
  WindowIsCurrent
CHECK_DEADLOCK FALSE
