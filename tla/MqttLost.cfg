CONSTANTS
    Family = {"mqtt"}
    Tasks = {t1, t2, t3}
    Nobody = Nobody
    Senders = {s1, s2}
    Receivers = {r1, r2}
    Capacities = {0, 1, 2}
    Loops = {1, 2}
    MaxSends = 2
    Pending = Pending
    Nullopt = Nullopt
    FailureThreshold = 2
    SuccessThreshold = 2
    Children = {k1, k2}
    Callers = {u1, u2, u3}
    MaximumClients = 1
    MaximumWaiters = 2
    MaxAcquires = 3
    Letters = {"a", "b", "x", "y"}
    MqttSetups <- LostLetter
    StreamIds = {1, 3}
    Window = 2
    Http2Setups <- MCHttp2Setups
    Jobs = {"first", "second"}
    Fds = {1, 2}
    MaxOps = 2
    LoopSetups <- MCLoopSetups
SPECIFICATION MCSpec
INVARIANT NothingLost
CHECK_DEADLOCK FALSE
