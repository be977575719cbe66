CONSTANTS
    n1 = n1
    n2 = n2
    n3 = n3
    Server = {n1, n2, n3}
    Nil = Nil
    MaxEntriesPerAppend = 1
    Setups <- CommitPrefixSetups
SPECIFICATION MCSpec
VIEW View
INVARIANT StateMachineSafety
CHECK_DEADLOCK FALSE
