CONSTANTS
    n1 = n1
    n2 = n2
    n3 = n3
    n4 = n4
    Node = {n1, n2, n3, n4}
    Nil = Nil
    Setups <- ClusterSetups
SPECIFICATION MCSpec
INVARIANT SameStream
INVARIANT LeaderHasApplied
INVARIANT ReadsAreCurrent
VIEW View
CHECK_DEADLOCK FALSE
