CONSTANTS
  c1 = c1  c2 = c2  c3 = c3  d1 = d1  d2 = d2
  Claims <- MCClaims
  Domains <- MCDomains
  ClaimGroups <- MCClaimGroups
  Legacy <- MCLegacy
  Fabric = TRUE
  MaxAborts = 2
  Recreatable <- MCRecreatable
  RecreatedGroups <- MCRecreatedGroups
SPECIFICATION Spec
INVARIANT CheckpointSound
PROPERTY UnprepareWithoutServer
