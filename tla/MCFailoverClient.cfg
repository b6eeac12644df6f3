SPECIFICATION MCSpec
CONSTANTS
  node1 = node1
  node2 = node2
  custom1 = custom1
  submit1 = submit1
  poll1 = poll1
  b1 = b1
  t1 = t1
  t2 = t2
  Node1 = node1
  Node2 = node2
  CustomOrigins <- OneCustom
  BadUrls <- Empty
  GasLimits <- OneGasLimit
  DefaultGasLimit = 1600000
  PresetGasLimit = 2000000
  Calls <- Both
  Submissions <- OneSubmit
  Polls <- OnePoll
  MaxEdits = 1
  Boots <- OneBoot
  Timers <- TwoTimers
  NoTimer = NoTimer
  NoHost = NoHost
  MaxConfig = 2
CHECK_DEADLOCK FALSE
INVARIANTS
  ClientTypeOK
  AtMostOneLanding
  OutcomesAreHonest
PROPERTY CallsSettle
