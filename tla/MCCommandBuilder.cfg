CONSTANTS
  a = a
  b = b
  gas = gas
  b1 = b1
  b2 = b2
  d = d
  Keys <- MCKeys
  Caps <- MCCaps
  Builders <- MCBuilders
  DataKeys <- MCData
  Paths = {"transfer"}
  Templates <- MCTemplates
  Steps <- MCSteps
  MaxSteps = 2
  MaxRuns = 2
  MaxClock = 1
  MaxRefused = 1
SYMMETRY Symmetry
SPECIFICATION Spec
INVARIANTS
  TypeOK
  TransactionsAgree
  TransactionsSayWhatWasGiven
PROPERTY CommandsStaySeparate
CHECK_DEADLOCK FALSE
