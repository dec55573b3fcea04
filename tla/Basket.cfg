CONSTANTS
    k1 = k1  k2 = k2  p1 = p1  p2 = p2
    Skus = {k1, k2}
    Prices = {p1, p2}
    MaxQuantity = 2
    MaxLines = 2
    MaxStock = 3
    Untracked = Untracked  Unsold = Unsold  Absent = Absent
SPECIFICATION FairSpec
INVARIANTS TypeOK CleanIsHonest RefusalHasItsCause
PROPERTIES OneErrorSuffices
