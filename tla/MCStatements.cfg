\* Statements on users, privileges and tables, and logins
SPECIFICATION Spec
CONSTANTS
    Accounts <- TwoAccounts
    Objects <- ThreeObjects
    Bits <- NoneOrOneBit
    Sessions <- Administrator
    Passwords = {"", "p"}
    Visitors = {v1, v2}
    kMaxAuthFailures = 2
    MaxFailures = 3
    Names = {"a", "b"}
    Runners = {s1, s2}
    MaxId = 2
    MaxRefs = 2
    MaxInitRows = 1
    MaxInitFks = 1
    CascadeLimit = 2
    Sheets <- OneOfEach
    Clauses <- AllClauses
    Numbers = {0, 1}
    Limits <- Minus1To2
    Offsets <- Minus1To2
    PredicateOf <- BoundClause
    ValueOn <- Evaluate
    MaxPrivileges = 4
    MaxLogins = 3
    MaxData = 3
SYMMETRY Symmetry
INVARIANTS
    ReloadKeepsRights
    GuessesBounded
    KeysAreSound
    FilesMatchCatalog
    WhereMeansSQL
    PagesTile
\* A CREATE TABLE of an existing file and a deletion under its own latch hang for good.
CHECK_DEADLOCK FALSE
