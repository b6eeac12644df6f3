SPECIFICATION FairSpec
CONSTANTS
  k1 = k1
  k2 = k2
  k3 = k3
  h1 = h1
  h2 = h2
  spv = spv
  Keys <- ThreeKeys
  HostOf <- TwoHosts
  ProofJobs <- OneProof
INVARIANTS
  TypeOK
  OneTaskAtATime
  CallbackContract
  HeardIsResolved
PROPERTIES
  QuietAfterEnd
  LoopsSettle
CHECK_DEADLOCK FALSE
