SPECIFICATION Spec
CONSTANTS
  node1 = node1
  node2 = node2
  custom1 = custom1
  c1 = c1
  c2 = c2
  b1 = b1
  t1 = t1
  t2 = t2
  badUrl = badUrl
  Node1 = node1
  Node2 = node2
  CustomOrigins <- OneCustom
  BadUrls <- OneBadUrl
  GasLimits <- TwoGasLimits
  DefaultGasLimit = 1600000
  PresetGasLimit = 2000000
  Calls <- OneCall
  Boots <- OneBoot
  Timers <- TwoTimers
  NoTimer = NoTimer
  NoHost = NoHost
  MaxConfig = 1
INVARIANT RetriesOnFallback 
