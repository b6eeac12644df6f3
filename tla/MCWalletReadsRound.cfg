CONSTANTS
  n1 = n1
  n2 = n2
  c1 = c1
  c2 = c2
  NoHost = NoHost
  Hosts <- MCHosts
  Calls <- MCCalls
  Ledger <- Round
  Messages <- MCMessages
  Pins <- MCPins
  MaxDecimals = 4
  MaxChanges = 1
SPECIFICATION Spec
INVARIANT
  DisplayRoundTrip
CHECK_DEADLOCK FALSE
