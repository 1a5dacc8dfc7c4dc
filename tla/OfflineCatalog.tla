--------------------------- MODULE OfflineCatalog ---------------------------
(***************************************************************************)
(* The terminal's copy of the price list.  Products carry the time of      *)
(* their last write; a refresh walks them in the order of that time, a     *)
(* page at a time, from where the last one stopped.  The time is taken by  *)
(* the process that writes, before its transaction commits.  Tickets rung  *)
(* up offline take their prices from the tab's copy and are queued at the  *)
(* prices stored in the browser.                                           *)
(***************************************************************************)
EXTENDS Integers, FiniteSets, FiniteSetsExt

CONSTANTS
    Product,     \* products, ordered as their ids
    Price,       \* selling prices
    Limit,       \* products of one page
    MaxClock,    \* bound on the times
    MaxLeases,   \* bound on the leases
    Selling      \* tickets are rung up

\* A listed price is at least 1, so that 0 can stand for a product without one.
OfflineCatalogAssumption ==
    /\ Product \subseteq Nat /\ IsFiniteSet(Product) /\ 0 \notin Price
    /\ Limit \in Nat \ {0} /\ Selling \in BOOLEAN
    /\ MaxClock \in Nat \ {0, 1} /\ MaxLeases \in Nat \ {0}

VARIABLES
    product,  \* the committed row of each product: price, active, stamp
    writing,  \* the uncommitted row of each product, or NoRow
    clock,
    cache,    \* IndexedDB: each product's price, 0 when it is not there
    cursor,   \* IndexedDB: the stamp and id reached
    walk,     \* the refresh: where it is, and the products not written since
    shown,    \* the tab's copy, replaced when a refresh is complete
    item,     \* the ticket: a product and its price, or NoItem
    queued,   \* queued sales: the price on the ticket and the one charged
    leases,
    overtaken \* history: rows whose last commit came after the cursor had passed them

rows == << product, writing, clock >>
sales == << item, queued >>
vars == << rows, cache, cursor, walk, shown, sales, leases, overtaken >>

NoRow == [price |-> 0, active |-> FALSE, stamp |-> 0]
NoItem == [product |-> 0, price |-> 0]
Start == << 0, 0 >>
SortKey(p) == << product[p].stamp, p >>
Before(a, b) == a[1] < b[1] \/ (a[1] = b[1] /\ a[2] < b[2])
Empty == [p \in Product |-> 0]

Writing == {p \in Product : writing[p] # NoRow}

Init ==
    /\ \E pr \in Price : product = [p \in Product |-> [price |-> pr, active |-> TRUE, stamp |-> 1]]
    /\ writing = [p \in Product |-> NoRow] /\ clock = 2
    /\ cache = Empty /\ cursor = Start /\ shown = Empty
    /\ walk = [at |-> "idle", after |-> Start, still |-> {}]
    /\ item = NoItem /\ queued = {} /\ leases = 1 /\ overtaken = {}

\* The state has its shape; what is charged is a price of the list.
TypeOK ==
    /\ product \in [Product -> [price : Price, active : BOOLEAN, stamp : 1..MaxClock]]
    /\ \A p \in Product : writing[p] = NoRow \/ writing[p].price \in Price
    /\ clock \in 1..MaxClock /\ leases \in 1..MaxLeases
    /\ {cache, shown} \subseteq [Product -> Price \cup {0}]
    /\ walk.at \in {"idle", "page", "done"}
    /\ queued \subseteq [shown : Price, charged : Price]
    /\ overtaken \subseteq Product

-----------------------------------------------------------------------------
Tick ==
    /\ clock < MaxClock /\ clock' = clock + 1
    /\ UNCHANGED << product, writing, cache, cursor, walk, shown, sales, leases, overtaken >>

\* An edit, an archival, a restore, or a sale that counts the product's
\* saleVersion: each stamps the row.
Write(p) ==
    /\ writing[p] = NoRow
    /\ \E pr \in Price, on \in BOOLEAN :
         writing' = [writing EXCEPT ![p] = [price |-> pr, active |-> on, stamp |-> clock]]
    /\ walk' = [walk EXCEPT !.still = @ \ {p}]
    /\ UNCHANGED << product, clock, cache, cursor, shown, sales, leases, overtaken >>

Commit(p) ==
    /\ writing[p] # NoRow
    /\ product' = [product EXCEPT ![p] = writing[p]]
    /\ writing' = [writing EXCEPT ![p] = NoRow]
    /\ overtaken' = IF Before(cursor, << writing[p].stamp, p >>) THEN overtaken \ {p}
                    ELSE overtaken \cup {p}
    /\ UNCHANGED << clock, cache, cursor, walk, shown, sales, leases >>

-----------------------------------------------------------------------------
\* A refresh, every 30 seconds, goes on from the stored cursor.
Refresh ==
    /\ walk.at \in {"idle", "done"}
    /\ walk' = [at |-> "page", after |-> cursor, still |-> Product \ Writing]
    /\ UNCHANGED << rows, cache, cursor, shown, sales, leases, overtaken >>

\* The products after the cursor, in order, at most Limit of them.
PageAfter(after) ==
    LET later == {p \in Product : Before(after, SortKey(p))}
    IN {p \in later : Cardinality({q \in later : Before(SortKey(q), SortKey(p))}) < Limit}

Last(page) == CHOOSE k \in {SortKey(p) : p \in page} :
                 \A p \in page : SortKey(p) = k \/ Before(SortKey(p), k)

\* Mutant form: the next page starts after the last stamp, whatever the id.
LastStamp(page) == << Last(page)[1], Max(Product) >>

\* Where the walk goes on.
NextAfter(page) == Last(page)

\* An archived product, and one that tracks expiry, leave the cache.
Merged(p) == IF product[p].active THEN product[p].price ELSE 0

\* A page is merged into the stored copy with its cursor; a short page is the
\* last, and the tab then takes the copy over.
Page ==
    /\ walk.at = "page"
    /\ LET page == PageAfter(walk.after)
           copy == [p \in Product |-> IF p \in page THEN Merged(p) ELSE cache[p]]
           more == Cardinality(page) = Limit
       IN /\ cache' = copy
          /\ cursor' = IF page = {} THEN cursor ELSE NextAfter(page)
          /\ walk' = [walk EXCEPT !.at = IF more THEN "page" ELSE "done",
                                  !.after = IF page = {} THEN @ ELSE NextAfter(page)]
          /\ shown' = IF more THEN shown ELSE copy
    /\ UNCHANGED << rows, sales, leases, overtaken >>

\* The connection is lost, or the tab reloaded; what was saved stays.
Break ==
    /\ walk.at = "page"
    /\ walk' = [walk EXCEPT !.at = "idle"]
    /\ shown' \in {shown, cache}
    /\ UNCHANGED << rows, cache, cursor, sales, leases, overtaken >>

\* A new lease starts from nothing.
NewLease ==
    /\ walk.at # "page" /\ leases < MaxLeases /\ leases' = leases + 1
    /\ cache' = Empty /\ cursor' = Start /\ overtaken' = {}
    /\ walk' = [at |-> "page", after |-> Start, still |-> Product \ Writing]
    /\ UNCHANGED << rows, shown, sales >>

-----------------------------------------------------------------------------
Scan(p) ==
    /\ Selling /\ item = NoItem /\ shown[p] # 0
    /\ item' = [product |-> p, price |-> shown[p]]
    /\ UNCHANGED << rows, cache, cursor, walk, shown, queued, leases, overtaken >>

SamePrice == cache[item.product] = item.price

\* Cached prices changed: the ticket is kept, to be refreshed online.
Queue ==
    /\ item # NoItem /\ SamePrice
    /\ queued' = queued \cup {[shown |-> item.price, charged |-> cache[item.product]]}
    /\ item' = NoItem
    /\ UNCHANGED << rows, cache, cursor, walk, shown, leases, overtaken >>

RefreshTicket ==
    /\ item # NoItem /\ ~SamePrice
    /\ item' = NoItem
    /\ UNCHANGED << rows, cache, cursor, walk, shown, queued, leases, overtaken >>

Next ==
    \/ Tick \/ Refresh \/ Page \/ Break \/ NewLease \/ Queue \/ RefreshTicket
    \/ \E p \in Product : Write(p) \/ Commit(p) \/ Scan(p)

Spec == Init /\ [][Next]_vars

-----------------------------------------------------------------------------
\* When a refresh is complete, every product that was not rewritten since it
\* began is stored as it is: at its price, or not at all.  Only a row that was
\* overtaken may be stale.
CaughtUp ==
    walk.at = "done" => \A p \in walk.still \ overtaken :
        cache[p] = (IF product[p].active THEN product[p].price ELSE 0)

\* A row is overtaken only by another write: one stamped as late, or later, was
\* committed before it.
OvertakenByLater ==
    [][\A p \in overtaken' \ overtaken :
          \E q \in Product : product[q].stamp >= writing[p].stamp]_vars

\* A queued sale charges the price its ticket showed.
ChargedAsShown == \A q \in queued : q.shown = q.charged

\* "The next offline catalogue sync removes archived products from cached
\* availability."  It does not where a row was overtaken.
ArchivedAreGone ==
    walk.at = "done" => \A p \in walk.still : ~product[p].active => cache[p] = 0
=============================================================================
