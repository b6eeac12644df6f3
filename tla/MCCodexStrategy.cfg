CONSTANTS
  a = a
  b = b
  c = c
  f = f
  e1 = e1
  e2 = e2
  Keys <- MCKeys
  Executions <- MCExecutions
  Jobs <- MCJobs
  Codexes <- MCCodexes
  SimGas = {8}
  NodeLimits = {2000000}
  MaxClock = 1
  Ttl = 0
  PollAfter = {"TIMEOUT", "submit"}
  GenesisTime = 0
  GenesisMinGas = 10000
  MaxGas = 400000
  GasPriceInterval = 1
  MinAutoGasLimit = 1000
SPECIFICATION FairSpec
INVARIANTS
  TypeOK
  KeysAreSeparate
  GuardsAreMet
  PriceIsOfItsTime
  LandsOnce
PROPERTIES
  ChainCallsSettle
CHECK_DEADLOCK FALSE
