SPECIFICATION Spec
CONSTANTS
    Threads = {w1, w2}
    Names = {a, b}
    NoTxn = NoTxn
    NoFile = NoFile
    Base = 3
    PersistEvery = 4
    MaxXid = 5
    MaxSavepoints = 2
    MaxRestarts = 1
INVARIANTS CommittedXidsStayBehind TransactionsAreOwned
