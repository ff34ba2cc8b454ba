SPECIFICATION FairSpec
CONSTANTS
    Workers = {w1, w2, w3}
    Callers = {main, other}
    Owner = main
    Tasks = {t1, t2, t3, t4}
    NoTask = NoTask
INVARIANTS NoSleepOverWork ShutdownLeavesNothing OneRunPerTask
PROPERTIES EveryFutureResolves ShutdownReturns
CHECK_DEADLOCK FALSE
