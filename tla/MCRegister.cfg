\* A sale and its retries, and two tabs of a register.
SPECIFICATION RegisterSpec
CONSTANTS
    Scenarios = {"checkout", "parked", "shared"}
    Customer = {ada, bo}
    Lines = {milk, rice}
    Payment = {cash, gcash}
    Request = {r1, r2}
    Null = Null
    MaxKeys = 2
    MaxFaults = 2
    ada = ada
    milk = milk
SYMMETRY Symmetry
\* The tabs stop at the bound on writes.
CHECK_DEADLOCK FALSE
INVARIANTS
    ChargedOnce
    ReceiptIsRecorded
    MixedOnlyIfEmptied
PROPERTIES
    TabsHold
