\* Two tabs of a register through one drop of the network, and its price list.
SPECIFICATION OfflineSpec
CONSTANTS
    Scenarios = {"uploads", "closing", "reopened", "listed", "sold"}
    Tab = {r, b}
    Register = r
    Key = {k1}
    MaxShifts = 2
    MaxLeases = 2
    MaxDrops = 1
    MaxReloads = 1
    ForcedCloses = TRUE
\* The network, the clock and the leases run out.
CHECK_DEADLOCK FALSE
INVARIANTS
    CashKept
PROPERTIES
    OwnCloseLeavesNothing
    CatalogHolds
    UploadedStaysGone
