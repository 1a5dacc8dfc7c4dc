\* Two users and one order, which they receive, or draft, send and cancel.
SPECIFICATION PurchasingSpec
CONSTANTS
    Scenarios = {"receipts", "fickle", "drafts"}
    Order = {o1}
    Supplier = {acme}
    Line = {l1}
    User = {u1, u2}
    Delivery = {d1}
    Key = {k1, k2}
    Txn = {t1, t2}
    Null = Null
    MaxQty = 2
    MaxVersion = 3
    Habits = {}
SYMMETRY Symmetry
CONSTRAINT NotReceived
INVARIANTS
    OrdersAddUp
    ReceivedOnce
    ToldTheTruth
PROPERTIES
    SentIsLocked
    WritesSeeTheOrder
