CONSTANTS
    n1 = n1
    n2 = n2
    n3 = n3
    Server = {n1, n2, n3}
    Nil = Nil
    MaxEntriesPerAppend = 8
    Setups <- CoreSetups
SPECIFICATION MCSpec
VIEW View
INVARIANT ElectionSafety
INVARIANT VotesAreDurable
INVARIANT LogMatching
INVARIANT LeaderCompleteness
INVARIANT AppliedIsStored
INVARIANT MatchIsStored
CHECK_DEADLOCK FALSE
