\* A ticket is emptied line by line, and the next one is the same.
SPECIFICATION RegisterSpec
CONSTANTS
    Scenarios = {"checkout"}
    Customer = {ada, bo}
    Lines = {milk, rice}
    Payment = {cash, gcash}
    Request = {r1, r2}
    Null = Null
    MaxKeys = 2
    MaxFaults = 1
    ada = ada
    milk = milk
SYMMETRY Symmetry
\* The tabs stop at the bound on writes.
CHECK_DEADLOCK FALSE
INVARIANTS
    ReceiptIsTheirs
