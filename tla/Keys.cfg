SPECIFICATION Spec
CONSTANTS
    User = {u1, u2}
    KeyId = {k1, k2, k3}
    Generator = {g1, g2}
    Caller = {c1}
    None = none
    KeyLimit = 1
INVARIANTS TypeOK KeyBudget
PROPERTIES FullUserStaysFull RevokedStaysRevoked DeadKeyIsRefused
CHECK_DEADLOCK FALSE
