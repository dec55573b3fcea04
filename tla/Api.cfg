SPECIFICATION Spec
CONSTANTS
    r1 = r1
    r2 = r2
    s1 = s1
    s2 = s2
    NoSession = NoSession
    Requests <- MCRequests
    Sessions <- MCSessions
SYMMETRY Symmetry
INVARIANTS
    TypeOK
    ExpiredIsNotHandedOut
PROPERTY
    ImplementsOneSession
