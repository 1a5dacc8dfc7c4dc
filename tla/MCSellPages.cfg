\* The Sell page and the cashier's shift.
SPECIFICATION Spec
CONSTANTS
    Scenarios = {"scans", "sells", "closing", "returning", "leaving", "forced"}
    p1 = p1
    p2 = p2
    Code = Code
    Part = Part
    Name = Name
    Both = Both
    Nothing = Nothing
    ann = ann
    bob = bob
    x = x
    y = y
    Nobody = Nobody
PROPERTIES
    RingHolds
    ShiftHolds
\* The pages stop at the bounds on scans, tickets, shifts and requests.
CHECK_DEADLOCK FALSE
