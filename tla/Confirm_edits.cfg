CONSTANTS
    k1 = k1  k2 = k2  e1 = e1  e2 = e2
    plain = plain  other = other  promo = promo  over = over  code = code
    Sessions = {s1}
    Keys = {k1, k2}
    Execs = {e1, e2}
    Contents = {plain}
    Overshot = {}
    Codes = {}
    PromoOf <- PlainOf
    NoCode = NoCode  NoSession = NoSession  NoKey = NoKey  NoContent = NoContent
    Nobody = Nobody  Gone = Gone
    MidConfirmEdits = TRUE
    MaxRow = 2
SPECIFICATION Spec
SYMMETRY Symmetry
INVARIANTS IInv OneOrderPerSession OneDriver CompletedShowsItsOrder
PROPERTY StatusFollowsFSM
CHECK_DEADLOCK FALSE
