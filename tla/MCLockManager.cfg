SPECIFICATION LocksSpec
CONSTANTS
    Callers = {c1, c2, c3}
    Rows = {r1}
    Tables = {t1}
    NoCaller = NoCaller
    MaxLocks = 1
INVARIANTS LocksAreCounted HoldersAreCompatible NoSleepOverGrantable
SYMMETRY CallerSymmetry
CHECK_DEADLOCK FALSE
