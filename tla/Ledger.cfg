CONSTANTS
    s1 = s1  s2 = s2  s3 = s3  u1 = u1  u2 = u2
    Sessions = {s1, s2, s3}
    Users = {u1, u2}
    Owner <- MCOwner
    Max = 2
    PerUser = 1
    NoOne = NoOne
SPECIFICATION Spec
INVARIANTS TypeOK CountIsRows NeverOversold
PROPERTIES ImplementsRedeemOnce
CHECK_DEADLOCK FALSE
