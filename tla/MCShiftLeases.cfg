\* Two requests at a time on a shift that leases to one terminal in two sessions.
SPECIFICATION Spec
CONSTANTS
    Cashier = {ann}
    Shift = {sh1}
    Sale = {s1}
    Lease = {l1, l2}
    Terminal = {tm}
    Session = {p, q}
    Legacy = {}
    Null = Null
    Txn = {t1, t2}
    MaxMoves = 0
SYMMETRY Symmetry
CONSTRAINT OnlyVoids
INVARIANTS
    OwnCloseDrains
    OneLeasePerTerminal
    LateSalesReported
PROPERTIES
    ImplementsCashLedger
