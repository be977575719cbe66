CONSTANTS
    n1 = n1
    n2 = n2
    n3 = n3
    Server = {n1, n2, n3}
    Nil = Nil
    MaxEntriesPerAppend = 8
    Setups <- StaleRejectionSetups
SPECIFICATION MCSpec
VIEW View
INVARIANT CommittedIsHeld
CHECK_DEADLOCK FALSE
