\* What must come to an end, one scenario at a time; no symmetry, since liveness
\* is checked.
SPECIFICATION LiveSpec
CONSTANTS
    Scenarios = {"checkout", "session", "uploads", "entry", "search", "dialogs", "routes", "form", "returns"}
    Two = {r1, r2}
    ean = ean
    Null = Null
    Blank = Blank
    NoAnswer = NoAnswer
    Auto = Auto
\* The scenarios run into their bounds.
CHECK_DEADLOCK FALSE
PROPERTIES
    LiveHolds
