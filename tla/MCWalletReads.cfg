CONSTANTS
  n1 = n1
  n2 = n2
  c1 = c1
  c2 = c2
  NoHost = NoHost
  Hosts <- MCHosts
  Calls <- MCCalls
  Ledger <- MCLedger
  Messages <- MCMessages
  Pins <- MCPins
  MaxDecimals = 4
  MaxChanges = 1
SPECIFICATION Spec
INVARIANTS
  TypeOK
  ReadsAreHonest
  AmountsMeanWhatTheySay
SYMMETRY Symmetry
CHECK_DEADLOCK FALSE
