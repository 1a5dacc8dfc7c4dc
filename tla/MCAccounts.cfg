\* Accounts edited and approvals given at once, and the sessions of two browsers.
SPECIFICATION AccountsSpec
CONSTANTS
    Scenarios = {"pins", "passwords", "approvals", "hiring", "tabs", "kept"}
    User = {u1, u2, u3}
    Session = {s1}
    Txn = {t1, t2}
    Null = Null
    Grant = {g1}
    Context = {x1}
    Discounts = {x1}
    Counts = {}
    RoleSets <- Hired
    Changes <- Edits
    MaxStamp = 2
    MaxBatch = 2
    u1 = u1
    Browser = {b1, b2}
    Token = {r1, r2, r3}
SYMMETRY Symmetry
CONSTRAINT FewEdits
\* Accounts run out of edits, sessions of tokens.
CHECK_DEADLOCK FALSE
INVARIANTS
    AdminRemains
    PinHoldersManage
PROPERTIES
    PinSetByAdmin
    PasswordProved
    VoidedStaysUnused
    SessionsHold
