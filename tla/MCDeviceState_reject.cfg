CONSTANTS
  c1 = c1  c2 = c2  c3 = c3  d1 = d1  d2 = d2
  Claims <- RejectClaims
  Domains <- MCDomains
  ClaimGroups <- RejectClaimGroups
  Legacy = {}
  Fabric = TRUE
  MaxAborts = 0
  Recreatable <- NoRecreatable
  RecreatedGroups <- NoRecreatedGroups
SPECIFICATION Spec
PROPERTY MisconfiguredClaimRejected
