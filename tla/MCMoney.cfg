\* What is counted up from money and goods, one scenario at a time.
SPECIFICATION MoneySpec
CONSTANTS
    Scenarios = {"till", "shift", "rows", "days", "backfill", "overlap", "decoding", "takeover"}
    Run = {r1, r2, r3}
    Rival = {q1, q2}
    Good = {p1, p2}
    Doc = {d1, d2}
    Null = Null
    Scale = 4
    AmountMax = 100
    QuickSteps <- SomeSteps
    QuickMax = 1
    DayLength = 8
    MaxTransition = 3
    NoCost = NoCost
    Categories = {c1, c2}
    SaleForms <- AllForms
    Kinds = {"VOID", "REFUND"}
    Lates = {TRUE, FALSE}
    Zones <- BothZones
    Clock = {12, 13, 14}
    MaxSales = 2
    MaxReports = 1
    MaxMoves = 1
SYMMETRY Symmetry
\* The scenarios run into their bounds.
CHECK_DEADLOCK FALSE
PROPERTIES
    MoneyHolds
