CONSTANTS
    r1 = r1  r2 = r2  near = near  far = far  parcel = parcel
    half = half  fixed = fixed
    Requests = {r1, r2}
    Regions = {near}
    Methods = {parcel}
    Codes = {fixed, half}
    Subtotals = {40, 80}
    Fee <- MCFee
    RateBps <- MCRateBps
    Percent = {half}
    Value <- MCValue
    Retirable = {fixed}
    NoRegion = NoRegion  NoMethod = NoMethod  NoCode = NoCode
SPECIFICATION Spec
SYMMETRY Symmetry
INVARIANT NoPoisonedAttempt
CHECK_DEADLOCK FALSE
