CONSTANTS
    pc = pc
    sctp = sctp
    t1 = t1
    t2 = t2
    t3 = t3
    t4 = t4
    Processors = {pc, sctp}
    Tasks = {t1, t2, t3, t4}
    Workers = {w1, w2}
    NoTask = NoTask
    Owner <- MCOwner
    a = a
    b = b
    c = c
    PoolWorkers = {w1, w2}
    Closures = {a, b, c}
    Delay <- MCDelay
    MaxTime = 2
    MaxSpawns = 2
    NoClosure = NoClosure
    Never = Never
SPECIFICATION MCSpec
INVARIANTS PendingIffInFlight NothingAfterJoin QuietWhileJoining
PROPERTIES SerialInOrder EveryTaskRuns PoolServes
CHECK_DEADLOCK FALSE
