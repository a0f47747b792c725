\* One run, two contracts, two retries.
SPECIFICATION FairSpec
CONSTANTS
  Runs = {r1}
  Contracts = {c1, c2}
  Tasks = {expiry, other}
  GraphTasks = {expiry}
  MaxRetries = 2
  NoScope = NoScope
  NoAnswer = NoAnswer
  NoRun = NoRun
INVARIANTS
  RunIsBounded
  AnswerFitsCitations
  NoMissedEvidence
  ChunksInScope
PROPERTIES
  EvidenceIsFound
CHECK_DEADLOCK FALSE
