SPECIFICATION FairSpec
CONSTANTS
    Clients = {c1, c2, c3}
    Workers = {w1, w2}
    Admins = {c1}
    Readers = {c1, c2}
    MaxStatements = 2
    Nobody = Nobody
INVARIANTS
    RegistryHoldsLive
    StatementSeesItself
    SocketsAreSound
PROPERTIES
    SessionsEnd
CHECK_DEADLOCK FALSE
