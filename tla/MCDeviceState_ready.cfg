CONSTANTS
  c1 = c1  c2 = c2  c3 = c3  d1 = d1  d2 = d2
  Claims <- MCClaims
  Domains <- MCDomains
  ClaimGroups <- ReadyClaimGroups
  Legacy = {}
  Fabric = TRUE
  MaxAborts = 1
  Recreatable <- NoRecreatable
  RecreatedGroups <- NoRecreatedGroups
SPECIFICATION Spec
PROPERTY PreparedOnceReady
