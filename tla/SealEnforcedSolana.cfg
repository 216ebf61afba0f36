CONSTANTS
    Enforcers = {"e1", "e2"}
    SealRefs = {"x1", "x2"}
    ObjectOf <- MCObjectOf
    MaxRegistry = 1
    MaxGrants = 2
SPECIFICATION SealSpec
INVARIANT
    EnforcedOnceOnSolana
