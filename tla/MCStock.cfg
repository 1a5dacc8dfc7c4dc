\* Two requests on one unit of a product, one at a time on two lots.
SPECIFICATION StockSpec
CONSTANTS
    t1 = t1
    Product = {milk}
    Batch = {b1, b2}
    Sale = {s1}
    Price = {1, 2}
    Quantity = {1}
    LastDay = 0
    MaxStock = 2
    Null = Null
    Txn = {t1, t2}
SYMMETRY Symmetry
CONSTRAINT SmallCase
INVARIANTS
    BooksBalance
    LotsAccountedFor
PROPERTIES
    FirstExpiringFirst
    SoldOnCurrentTerms
    ImplementsStockBook
