CONSTANTS
  e1 = e1
  e2 = e2
  Entries <- MCEntries
  Passwords <- MCPasswords
  Mnemonics <- MCMnemonics
  BitStrings <- MCBitStrings
  Junk <- MCJunk
  MaxRekeys = 1
  MaxRestarts = 1
SPECIFICATION Spec
INVARIANTS
  TypeOK
  SecretsSurvive
  OpeningsAreHonest
SYMMETRY Symmetry
CHECK_DEADLOCK FALSE
