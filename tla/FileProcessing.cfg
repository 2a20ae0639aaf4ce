SPECIFICATION Spec
CONSTANTS
  s1 = s1
  s2 = s2
  Servers <- MCServers
  Files <- ThreeFiles
  DocCount <- MixedDocumentsThree
  MaxConcurrent = 2
  ListLimit = 3
  Timeout = 1
  Grace = 0
  MaxFaults = 2
SYMMETRY ServerSymmetry
INVARIANTS TypeOK InductiveInvariant EventsTellStatus ClaimsExclusive SuccessMeansIndexed ClaimsBounded
