CONSTANTS
    k1 = k1
    k2 = k2
    s1 = s1
    s2 = s2
    Keys <- MCKeys
    Specs <- MCSpecs
    Desired = s1
    NFiles = 2
    MaxErrors = 1
    MaxEdits = 0
    CMCanVanish = FALSE
SPECIFICATION Spec
PROPERTY LateCRDIsApplied
CHECK_DEADLOCK FALSE
