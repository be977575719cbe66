CONSTANTS
    Senders = {s1}
    Receivers = {r1}
    Capacities = {1}
    Loops = {2}
    MaxSends = 2
    Pending = Pending
    Nullopt = Nullopt
SPECIFICATION ChSpec
INVARIANT DocumentedInvariants
CHECK_DEADLOCK FALSE
