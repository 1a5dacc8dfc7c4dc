------------------------------- MODULE Stock -------------------------------
(***************************************************************************)
(* Shelf stock as the API keeps it: the inventory row of each product, the *)
(* batches of products whose expiry dates are tracked, the last row of the *)
(* movement ledger, and the sales that took from it.  Restocks, sales,     *)
(* reversals, adjustments, offline uploads and product edits are MongoDB   *)
(* transactions (SnapshotTxn), up to |Txn| of them in progress at once.    *)
(*                                                                         *)
(* A request moves one product.  A request of several lines sums them per  *)
(* product and does the same for each, in the same transaction.            *)
(***************************************************************************)
EXTENDS Integers, FiniteSets, FiniteSetsExt, Functions

CONSTANTS
    Product,
    Batch,       \* ids of batch documents
    Sale,        \* ids of sale documents
    Price,       \* product prices
    Quantity,    \* amounts a request moves
    LastDay,     \* bound on the calendar: days 0..LastDay
    MaxStock,    \* bound on stock and on what a batch holds: requests that
                 \* would take either out of -MaxStock..MaxStock are left out
    Null,
    Txn

ASSUME StockAssumption ==
    /\ Quantity \subseteq Nat \ {0}
    /\ LastDay \in Nat /\ MaxStock \in Nat
    /\ Null \notin Product /\ Null \notin Batch
    /\ IsFiniteSet(Batch) /\ IsFiniteSet(Sale)

VARIABLES
    product,     \* [tracked, active, price]
    inventory,   \* [stock, shortfall]
    batch,       \* [product, expiry, remaining, quarantined, received]
    ledger,      \* balanceAfter of the product's last movement, or Null
    sale,        \* [status, product, quantity, price, alloc]
    today,       \* the store's calendar day
    adjusted,    \* history: the changes adjustments made to each batch
    req, snap, missed

INSTANCE SnapshotTxn

documents == << product, inventory, batch, ledger, sale >>
vars == << documents, today, adjusted, txnVars >>

Current == [product |-> product, inventory |-> inventory, batch |-> batch,
            ledger |-> ledger, sale |-> sale, today |-> today]

Day == 0..LastDay

ProductDoc == [tracked : BOOLEAN, active : BOOLEAN, price : Price]
InventoryDoc == [stock : Int, shortfall : BOOLEAN]
BatchDoc == [product : Product \cup {Null}, expiry : Day \cup {Null}, remaining : Int,
             quarantined : BOOLEAN, received : Nat]
SaleDoc == [status : {"NONE", "COMPLETED", "REVERSED"}, product : Product \cup {Null},
            quantity : Nat, price : Price \cup {Null}, alloc : [Batch -> Nat]]

NoBatch == [product |-> Null, expiry |-> Null, remaining |-> 0,
            quarantined |-> FALSE, received |-> 0]
Lot(p, day, n) == [product |-> p, expiry |-> day, remaining |-> n,
                   quarantined |-> FALSE, received |-> n]
\* A reconciliation batch: no lot can be named for what it counts.
Quarantine(p, n) == [product |-> p, expiry |-> Null, remaining |-> n,
                     quarantined |-> TRUE, received |-> IF n > 0 THEN n ELSE 0]

Nothing == [b \in Batch |-> 0]
NoSale == [status |-> "NONE", product |-> Null, quantity |-> 0, price |-> Null,
           alloc |-> Nothing]

Init ==
    /\ product \in [Product -> {terms \in ProductDoc : terms.active}]
    /\ inventory = [p \in Product |-> [stock |-> 0, shortfall |-> FALSE]]
    /\ batch = [b \in Batch |-> NoBatch]
    /\ ledger = [p \in Product |-> Null]
    /\ sale = [s \in Sale |-> NoSale]
    /\ today = 0
    /\ adjusted = Nothing
    /\ TxnInit

BatchesOf(batches, p) == {b \in Batch : batches[b].product = p}
Remaining(batches, p) ==
    SumFunctionOnSet([b \in Batch |-> batches[b].remaining], BatchesOf(batches, p))

-----------------------------------------------------------------------------
\* Requests

AskRestock(p, n, day)  == [op |-> "restock", product |-> p, quantity |-> n, expiry |-> day]
AskSale(s, p, n)       == [op |-> "sell", sale |-> s, product |-> p, quantity |-> n]
AskReversal(s)         == [op |-> "reverse", sale |-> s]
AskAdjust(p, lines)    == [op |-> "adjust", product |-> p, lines |-> lines]
AskSync(s, p, n, admin) ==
    [op |-> "sync", sale |-> s, product |-> p, quantity |-> n, admin |-> admin]
AskEdit(p, terms)      == [op |-> "edit", product |-> p, terms |-> terms]

Arrive(t, r) == Begin(t, r, Current) /\ UNCHANGED << documents, today, adjusted >>

ArriveRestock(t) ==
    \E p \in Product, n \in Quantity, day \in Day \cup {Null} : Arrive(t, AskRestock(p, n, day))

\* sell and sync look their idempotency key up before their transaction starts.
ArriveSale(t) ==
    \E s \in Sale, p \in Product, n \in Quantity :
        /\ sale[s].status = "NONE"
        /\ \/ Arrive(t, AskSale(s, p, n))
           \/ \E admin \in BOOLEAN : Arrive(t, AskSync(s, p, n, admin))

ArriveReversal(t) == \E s \in Sale : sale[s].status # "NONE" /\ Arrive(t, AskReversal(s))

\* A line per batch, or one that names none; changes are not zero.
ArriveAdjust(t) ==
    \E p \in Product : \E chosen \in SUBSET (BatchesOf(batch, p) \cup {Null}) \ {{}} :
      \E lines \in [chosen -> Quantity \cup {-n : n \in Quantity}] :
        Arrive(t, AskAdjust(p, lines))

ArriveEdit(t) ==
    \E p \in Product, terms \in ProductDoc :
        terms # product[p] /\ Arrive(t, AskEdit(p, terms))

-----------------------------------------------------------------------------
\* Locks and write sets

\* getMany, recordReceiptCosts and sync bump the product's saleVersion, so that
\* nobody edits the product under a request that moves its stock.
ProductUnlocked(p) == {}
ProductLock(p) == {<< "product", p >>}

\* The inventory row, the ledger row with the next sequence number, the batches.
StockWrites(p, batches) ==
    ProductLock(p) \cup {<< "inventory", p >>, << "ledger", p >>}
                   \cup {<< "batch", b >> : b \in batches}

-----------------------------------------------------------------------------
\* What a request does to the documents

\* record posts the change after the balance the ledger last recorded, which
\* must be the stock before it; the first movement also posts that as OPENING.
Reconciles(d, p) == d.ledger[p] \in {Null, d.inventory[p].stock}

\* A stock change and its ledger row.
Move(p, n) ==
    /\ inventory' = [inventory EXCEPT ![p].stock = @ + n]
    /\ ledger' = [ledger EXCEPT ![p] = inventory[p].stock + n]

\* The batches a register may sell from.
Sellable(d, p) ==
    {b \in BatchesOf(d.batch, p) : /\ d.batch[b].remaining > 0 /\ ~d.batch[b].quarantined
                                   /\ d.batch[b].expiry >= d.today}

\* First expiring, first out: order ranks the batches by expiry date (then by
\* age, which is any order among lots of one day).
OrderByDayOrNot(d, lots) == Bijection(lots, 1..Cardinality(lots))
Order(d, lots) ==
    {rank \in Bijection(lots, 1..Cardinality(lots)) :
        \A b, c \in lots : d.batch[b].expiry < d.batch[c].expiry => rank[b] < rank[c]}

\* What each batch gives to a sale of n units, taken in that order.
Consume(d, lots, rank, n) ==
    [b \in Batch |->
        IF b \notin lots THEN 0
        ELSE LET before == SumFunctionOnSet([c \in Batch |-> d.batch[c].remaining],
                                            {c \in lots : rank[c] < rank[b]})
             IN  IF before >= n THEN 0 ELSE Min({d.batch[b].remaining, n - before})]

GaveTo(alloc) == {b \in Batch : alloc[b] # 0}

Batches(change) == [b \in Batch |-> [batch[b] EXCEPT !.remaining = @ + change[b]]]

-----------------------------------------------------------------------------
\* Operations, each as its transaction commits

\* A tracked product needs an expiry date and gets a batch; any other has none.
CommitRestock(t) ==
    \E p \in Product, n \in Quantity, day \in Day \cup {Null} :
        /\ req[t] = AskRestock(p, n, day)
        /\ snap[t].product[p].tracked <=> day # Null
        /\ Reconciles(snap[t], p)
        /\ inventory[p].stock + n <= MaxStock
        /\ \E lot \in IF day = Null THEN {{}} ELSE
                {{b} : b \in {c \in Batch : batch[c] = NoBatch}} :
             /\ Commit(t, StockWrites(p, lot))
             /\ batch' = [b \in Batch |-> IF b \in lot THEN Lot(p, day, n) ELSE batch[b]]
        /\ Move(p, n)
        /\ UNCHANGED << product, sale, today, adjusted >>

\* Enough stock: the $gte in the filter of the guarded decrement.
Enough(d, p, n) == d.inventory[p].stock >= n

CommitSell(t) ==
    \E s \in Sale, p \in Product, n \in Quantity :
        LET d == snap[t]
            lots == Sellable(d, p)
        IN  /\ req[t] = AskSale(s, p, n)
            /\ d.sale[s].status = "NONE"
            /\ d.product[p].active
            /\ Enough(d, p, n) /\ Reconciles(d, p)
            /\ \E alloc \in IF ~d.product[p].tracked THEN {Nothing}
                            ELSE {Consume(d, lots, rank, n) : rank \in Order(d, lots)} :
                 /\ d.product[p].tracked => SumFunction(alloc) = n
                 /\ Commit(t, StockWrites(p, GaveTo(alloc)) \cup {<< "sale", s >>})
                 /\ batch' = Batches([b \in Batch |-> -alloc[b]])
                 /\ sale' = [sale EXCEPT ![s] =
                        [status |-> "COMPLETED", product |-> p, quantity |-> n,
                         price |-> d.product[p].price, alloc |-> alloc]]
            /\ Move(p, -n)
            /\ UNCHANGED << product, today, adjusted >>

\* The stock comes back to the lots it left; what left no lot although the
\* product is tracked by now is quarantined.
RestoredToShelfOnly(s, extra) == batch
Restored(s, extra) ==
    [b \in Batch |-> IF b \in extra THEN Quarantine(sale[s].product, sale[s].quantity)
                     ELSE [batch[b] EXCEPT !.remaining = @ + sale[s].alloc[b]]]

CommitReverse(t) ==
    \E s \in Sale :
        LET d == snap[t]
            p == d.sale[s].product
            lotless == d.product[p].tracked /\ GaveTo(d.sale[s].alloc) = {}
        IN  /\ req[t] = AskReversal(s)
            /\ d.sale[s].status = "COMPLETED"
            /\ Reconciles(d, p)
            /\ inventory[p].stock + d.sale[s].quantity <= MaxStock
            /\ \E extra \in IF ~lotless THEN {{}} ELSE
                    {{b} : b \in {c \in Batch : batch[c] = NoBatch}} :
                 /\ Commit(t, StockWrites(p, GaveTo(d.sale[s].alloc) \cup extra)
                                \cup {<< "sale", s >>})
                 /\ batch' = Restored(s, extra)
            /\ sale' = [sale EXCEPT ![s].status = "REVERSED"]
            /\ Move(p, d.sale[s].quantity)
            /\ UNCHANGED << product, today, adjusted >>

\* A line of a tracked product names one of its batches, and only a
\* reconciliation batch may go below zero; other lines name no batch.
LineAllowed(d, p, b, change) ==
    IF d.product[p].tracked
    THEN /\ b \in BatchesOf(d.batch, p)
         /\ d.batch[b].quarantined \/ d.batch[b].remaining + change >= 0
    ELSE b = Null

\* Lines that cancel out write the batches, but neither stock nor ledger.
AdjustWrites(p, net, batches) ==
    IF net = 0 THEN ProductLock(p) \cup {<< "batch", b >> : b \in batches}
    ELSE StockWrites(p, batches)

CommitAdjust(t) ==
    \E p \in Product :
        LET d == snap[t]
            lines == req[t].lines
            net == SumFunction(lines)
            change == [b \in Batch |-> IF b \in DOMAIN lines THEN lines[b] ELSE 0]
        IN  /\ req[t].op = "adjust" /\ req[t].product = p
            /\ \A b \in DOMAIN lines : LineAllowed(d, p, b, lines[b])
            /\ net < 0 => Enough(d, p, -net)
            /\ inventory[p].stock + net <= MaxStock
            /\ \A b \in Batch : batch[b].remaining + change[b] \in -MaxStock..MaxStock
            /\ Commit(t, AdjustWrites(p, net, GaveTo(change)))
            /\ batch' = Batches(change)
            /\ adjusted' = [b \in Batch |-> adjusted[b] + change[b]]
            /\ \/ net # 0 /\ Reconciles(d, p) /\ Move(p, net)
               \/ net = 0 /\ UNCHANGED << inventory, ledger >>
            /\ UNCHANGED << product, sale, today >>

\* Cash collected offline is recorded even if it takes stock below zero; a
\* tracked product needs an admin, and a negative reconciliation batch.
OwedLotNone(p, n) == NoBatch
OwedLot(p, n) == Quarantine(p, -n)

CommitSync(t) ==
    \E s \in Sale, p \in Product, n \in Quantity, admin \in BOOLEAN :
        LET d == snap[t] IN
        /\ req[t] = AskSync(s, p, n, admin)
        /\ d.sale[s].status = "NONE"
        /\ d.product[p].tracked => admin
        /\ Reconciles(d, p)
        /\ inventory[p].stock - n >= -MaxStock
        /\ \E lot \in IF ~d.product[p].tracked THEN {{}} ELSE
                {{b} : b \in {c \in Batch : batch[c] = NoBatch}} :
             /\ Commit(t, StockWrites(p, lot) \cup {<< "sale", s >>})
             /\ batch' = [b \in Batch |-> IF b \in lot THEN OwedLot(p, n) ELSE batch[b]]
        /\ inventory' = [inventory EXCEPT ![p] =
              [stock |-> @.stock - n, shortfall |-> @.shortfall \/ @.stock < n]]
        /\ ledger' = [ledger EXCEPT ![p] = inventory[p].stock - n]
        /\ sale' = [sale EXCEPT ![s] = [status |-> "COMPLETED", product |-> p, quantity |-> n,
                                        price |-> Null, alloc |-> Nothing]]
        /\ UNCHANGED << product, today, adjusted >>

\* assertTrackingChange: no stock, and no batch document.
MaySwitch(d, p) == d.inventory[p].stock = 0 /\ BatchesOf(d.batch, p) = {}

CommitEdit(t) ==
    \E p \in Product, terms \in ProductDoc :
        /\ req[t] = AskEdit(p, terms)
        /\ terms.tracked # snap[t].product[p].tracked => MaySwitch(snap[t], p)
        /\ Commit(t, {<< "product", p >>})
        /\ product' = [product EXCEPT ![p] = terms]
        /\ UNCHANGED << inventory, batch, ledger, sale, today, adjusted >>

Rerun(t) == Retry(t, Current) /\ UNCHANGED << documents, today, adjusted >>
Refuse(t) == Abort(t) /\ UNCHANGED << documents, today, adjusted >>

Midnight ==
    /\ today < LastDay
    /\ today' = today + 1
    /\ UNCHANGED << documents, adjusted, req, snap, missed >>

Handle(t) ==
    \/ ArriveRestock(t) \/ ArriveSale(t) \/ ArriveReversal(t) \/ ArriveAdjust(t)
    \/ ArriveEdit(t)
    \/ CommitRestock(t) \/ CommitSell(t) \/ CommitReverse(t) \/ CommitAdjust(t)
    \/ CommitSync(t) \/ CommitEdit(t)
    \/ Rerun(t) \/ Refuse(t)

Next == Midnight \/ \E t \in Txn : Handle(t)

Spec == Init /\ [][Next]_vars

-----------------------------------------------------------------------------
\* Properties

\* The documents keep their schemas' shapes; no batch that has a date goes
\* below zero.
TypeOK ==
    /\ product \in [Product -> ProductDoc]
    /\ inventory \in [Product -> InventoryDoc]
    /\ batch \in [Batch -> BatchDoc]
    /\ \A b \in Batch : batch[b].remaining < 0 => batch[b].quarantined
    /\ ledger \in [Product -> Int \cup {Null}]
    /\ sale \in [Sale -> SaleDoc]
    /\ today \in Day /\ adjusted \in [Batch -> Int]

\* Every writer of stock posts what it moved: the ledger's last balance is the
\* stock, so record never finds "Stock ledger does not reconcile".
LedgerReconciles == \A p \in Product : Reconciles(Current, p)

\* Every unit received in a lot is on the shelf, in a sale that stands, or
\* written off: no reversal, retry or race of two requests loses or doubles one.
LotsAccountedFor ==
    \A b \in Batch : batch[b].product # Null /\ ~batch[b].quarantined =>
        batch[b].remaining
          + SumFunctionOnSet([s \in Sale |-> sale[s].alloc[b]],
                             {s \in Sale : sale[s].status = "COMPLETED"})
        = batch[b].received + adjusted[b]

\* Register sales leave no unexpired unit on the shelf that expires before one
\* they sell, and sell nothing that was expired when they began.
FirstExpiringFirst ==
    [][\A t \in Txn, b, c \in Batch :
         (req[t].op = "sell" /\ req'[t] = Idle /\ batch'[b].remaining < batch[b].remaining) =>
            /\ batch[b].expiry >= snap[t].today
            /\ (batch[c].product = batch[b].product /\ batch[c].expiry # Null
                  /\ batch[c].expiry \in snap[t].today..batch[b].expiry - 1)
               => batch'[c].remaining = 0]_vars

\* A sale is rung up at the price, and with the tracking, that the product has
\* when the sale is recorded: from its lots, or from none; and never after the
\* product was archived.
SoldOnCurrentTerms ==
    [][\A s \in Sale : (sale[s].status = "NONE" /\ sale'[s].price # Null) =>
         LET p == product[sale'[s].product]
         IN  /\ p.active /\ p.price = sale'[s].price
             /\ IF p.tracked THEN SumFunction(sale'[s].alloc) = sale'[s].quantity
                             ELSE sale'[s].alloc = Nothing]_vars

\* Transactions that interleave change stock, lots and tracking as if each had
\* run alone: every commit is one step of StockBook, or none.
Book == INSTANCE StockBook WITH
            Quantity <- 1..2 * MaxStock,
            onHand <- [p \in Product |-> inventory[p].stock],
            lots <- [p \in Product |-> Remaining(batch, p)],
            dated <- [p \in Product |-> product[p].tracked],
            owed <- [p \in Product |-> inventory[p].shortfall]
ImplementsStockBook == Book!BookSpec

\* The promises of StockBook, over these documents.
BooksBalance == Book!Balanced
=============================================================================
