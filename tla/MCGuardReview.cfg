CONSTANTS
  a = a
  b = b
  Keys <- MCKeys
  Accounts <- MCAccounts
SPECIFICATION ReviewSpec
INVARIANTS
  ReviewTypeOK
  ExactlyOneCase
  VerdictsAreBacked
PROPERTY MoreKeysNeverHurt
