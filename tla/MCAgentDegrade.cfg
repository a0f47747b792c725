\* One run whose store fails.
SPECIFICATION Spec
CONSTANTS
  Runs = {r1}
  Contracts = {c1}
  Tasks = {expiry, other}
  GraphTasks = {expiry}
  MaxRetries = 1
  NoScope = NoScope
  NoAnswer = NoAnswer
  NoRun = NoRun
INVARIANTS
  StoreFailureDegrades
CHECK_DEADLOCK FALSE
