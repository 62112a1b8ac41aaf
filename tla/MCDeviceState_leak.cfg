CONSTANTS
  c1 = c1  c2 = c2  c3 = c3  d1 = d1  d2 = d2
  Claims <- LeakClaims
  Domains <- MCDomains
  ClaimGroups <- LeakClaimGroups
  Legacy = {}
  Fabric = TRUE
  MaxAborts = 1
  Recreatable <- NoRecreatable
  RecreatedGroups <- NoRecreatedGroups
SPECIFICATION Spec
INVARIANT NoLeakAfterUnprepare
