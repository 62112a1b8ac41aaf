CONSTANTS
    r1 = r1
    r2 = r2
    Requests <- MCRequests
    MaxConfigs = 2
SPECIFICATION Spec
INVARIANT ExplicitOverridesWildcard
\* getConfigResultsMap is one call: each behaviour ends after it returns.
CHECK_DEADLOCK FALSE
