\* Two requests at a time on one cashier's two successive shifts.
SPECIFICATION Spec
CONSTANTS
    Cashier = {ann}
    Shift = {sh1, sh2}
    Sale = {s1}
    Lease = {}
    Terminal = {}
    Session = {}
    Legacy = {}
    Null = Null
    Txn = {t1, t2}
    MaxMoves = 1
SYMMETRY Symmetry
CONSTRAINT OnlyVoids
INVARIANTS
    OneOpenShift
    ZReadComplete
    SnapshotsHold
PROPERTIES
    ClosedIsFinal
    CashierReversesInOwnShift
    ImplementsCashLedger
