CONSTANTS
    k1 = k1  k2 = k2  e1 = e1  e2 = e2
    plain = plain  other = other  promo = promo  over = over  code = code
    Sessions = {s1}
    Keys = {k1, k2}
    Execs = {e1, e2}
    Contents = {plain, promo, over}
    Overshot = {over}
    Codes = {code}
    PromoOf <- MCPromoOf
    NoCode = NoCode  NoSession = NoSession  NoKey = NoKey  NoContent = NoContent
    Nobody = Nobody  Gone = Gone
    MidConfirmEdits = FALSE
    MaxRow = 2
SPECIFICATION Spec
SYMMETRY Symmetry
INVARIANTS TypeOK CachedAnswerIsShown OrderMatchesSession OrderNeverStranded PromoOrderCounted
PROPERTIES AttemptIsFrozen ImplementsPurchase
CHECK_DEADLOCK FALSE
