CONSTANTS
    Workers = {w1, w2}
    Waiters = {t1}
    MaxUnits = 2
    MaxRounds = 2
SPECIFICATION WgSpec
INVARIANT WaitSeesZero
CHECK_DEADLOCK FALSE
