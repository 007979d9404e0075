SPECIFICATION LiveSpec
CONSTANTS
    Rails = {"subdust", "swap"}
    Origins = {"nwc", "clink"}
    ExpiresAt = 0
    EXPIRY_GRACE = 1
    T = 2
    SUBDUST_ACK_TTL = 2
    MaxNow = 3
    Faults = {"crash", "error", "lost", "poison", "word"}
INVARIANTS
    RevealMeansSpent
    MoneyMeansLanded
    ClosedRowIsRight
PROPERTIES
    ReceiveEnds
