SPECIFICATION Spec
CONSTANTS
    s1 = s1
    s2 = s2
    w1 = w1
    pass = pass
    Sends = {s1, s2}
    Clicks = {}
    Pass = pass
    T = 2
    UNFUNDED_GRACE = 0
    LN_INFLIGHT_STUCK = 0
    maxK = 1
    MaxNow = 2
    Faults = {"crash", "error", "lost", "lag", "poison", "other", "stale"}
PROPERTIES
    VaultHeldWhileUnspent
CHECK_DEADLOCK FALSE
