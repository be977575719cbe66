CONSTANTS
    Threads = {h1, h2, h3, h4}
    Tasks = {t1, t2, t3, t4}
    Nobody = Nobody
    InitialCount = 1
    MaxExtra = 2
    Workers = {w1, w2, w3}
    Waiters = {c1, c2, c3}
    MaxUnits = 3
    MaxRounds = 2
SPECIFICATION MCSpec
INVARIANT NoLostWakeup
INVARIANT MutualExclusion
INVARIANT WaiterIsCovered
INVARIANT PermitsConserved
INVARIANT NoIdlePermit
INVARIANT WriterExcludes
PROPERTY SpinImplementsLock
PROPERTY LockIsGranted
PROPERTY NoBarging
PROPERTY QueuedIsServed
PROPERTY AcquirerIsServed
PROPERTY WriterIsServed
PROPERTY WaitReturns
