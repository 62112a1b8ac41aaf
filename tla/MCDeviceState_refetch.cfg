CONSTANTS
  c1 = c1  c2 = c2  c3 = c3  d1 = d1  d2 = d2
  Claims <- RefetchClaims
  Domains <- MCDomains
  ClaimGroups <- RefetchClaimGroups
  Legacy <- MCLegacy
  Fabric = TRUE
  MaxAborts = 0
  Recreatable <- MCRecreatable
  RecreatedGroups <- RefetchRecreatedGroups
SPECIFICATION Spec
INVARIANT NoLeakAfterUnprepare
CHECK_DEADLOCK FALSE
