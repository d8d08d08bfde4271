SPECIFICATION Spec
CONSTANTS
  Jobs = {j1, j2}
  s1 = s1
  s2 = s2
  p1 = p1
  p2 = p2
  k1 = k1
  k2 = k2
  Sources <- TwoSources
  Policies <- TwoPolicies
  NoPolicy = NoPolicy
  BlockedBy <- SomeBlocked
  OtherScans <- TheBlockedScan
  Keys <- TwoKeys
  TrustPolicies <- SomeTrustPolicies
  ExpectedKey = k1
  ExpectedPolicy <- Strict
  Campaigns <- SomeCampaigns
  MaxEdits = 1
  VerdictEdits = FALSE
  Missing = Missing
SYMMETRY JobsAlike
INVARIANTS
  TypeOK
  EventsAreSigned
  ActiveIsDeserved
  ExportIsEnforced
  BundleIsOneScan
  TemporariesOwned
  ExitMeansWritten
CHECK_DEADLOCK FALSE
