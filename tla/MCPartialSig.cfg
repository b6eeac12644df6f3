SPECIFICATION Spec
CONSTANTS
  p1 = p1
  p2 = p2
  a = a
  b = b
  c1 = c1
  c2 = c2
  c3 = c3
  Parties <- TwoParties
  Keys <- TwoKeys
  Cmds <- ThreeCmds
  Draft = c1
  SignersOf <- Listed
  Holds <- OneEach
  Raw <- RawKeys
  EckoUsers <- Ecko
  NoKey = NoKey
  NoSig = NoSig
  NoTx = NoTx
  MaxMail = 3
  MaxEdits = 1
INVARIANTS
  TypeOK
  SignedWasShown
  VerifiedIsAccepted
PROPERTIES
  NamedSlotsStay
CHECK_DEADLOCK FALSE
