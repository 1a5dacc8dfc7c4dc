\* The pages behind the counter, one at a time.
SPECIFICATION BackOfficeSpec
CONSTANTS
    Scenarios = {"counts", "tabs", "tracking", "visits", "access", "products", "zones",
                 "terminal", "reversals", "drawers", "lists", "draft", "handoff"}
    User = {u1, u2}
    Txn = {t1, t2}
    ean = ean
    Null = Null
    Blank = Blank
    Failed = Failed
    Auto = Auto
    Shelf = Shelf
SYMMETRY Symmetry
\* The scenarios run into their bounds.
CHECK_DEADLOCK FALSE
PROPERTIES
    PagesHold
    CountsHold
