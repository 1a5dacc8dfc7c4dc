-------------------------- MODULE PurchaseOrders --------------------------
(***************************************************************************)
(* Purchase orders: drafted, sent, received in parts and closed, by users  *)
(* whose pages may be stale, over a network that loses answers.  The       *)
(* server side is one MongoDB transaction per request (SnapshotTxn); the   *)
(* client side is the purchase-order page with its receive dialog, which   *)
(* repeats an attempt under the same idempotency key.                      *)
(*                                                                         *)
(* A delivery is what the dialog is filled in for.  Receipts remember it   *)
(* (the program does not), so that "the same goods were received twice"    *)
(* can be said; strayed has the deliveries whose users did more than       *)
(* repeat an unanswered attempt unchanged, which the key cannot cover.     *)
(***************************************************************************)
EXTENDS Integers, FiniteSets, Functions, TLC

CONSTANTS
    Order, Supplier, Line, User, Delivery, Key, Txn, Null,
    MaxQty,       \* bound on the quantity of a line
    MaxVersion,   \* bound on the writes to one order
    Habits        \* what users do besides repeating an unanswered attempt:
                  \* "edit" the receipt first, "reopen" the dialog, or be
                  \* "refused" by what stands before the service (a login
                  \* that expired, a rate limit)

ASSUME OrderAssumption ==
    /\ MaxQty \in Nat \ {0} /\ MaxVersion \in Nat
    /\ Habits \subseteq {"edit", "reopen", "refused"}
    /\ Null \notin Order \cup Supplier \cup User \cup Delivery \cup Key \cup Txn

VARIABLES
    order,       \* purchase-order documents
    supplier,    \* "ACTIVE", "ARCHIVED" or "GONE"
    restocked,   \* units of each line put into stock by linked restocks
    view,        \* view[u]: the copy of the order u's page shows, or Null
    receipt,     \* receipt[u]: the open receive dialog, or NoReceipt
    waiting,     \* waiting[u]: the request u's page waits for, or Null
    told,        \* told[d]: the last thing a page said of the receipt of d
    strayed,     \* history: deliveries that were not just repeated (Habits)
    req, snap, missed

INSTANCE SnapshotTxn

documents == << order, supplier, restocked >>
page == << view, receipt, waiting, told, strayed >>
vars == << documents, page, txnVars >>

Current == [order |-> order, supplier |-> supplier]

Quantities == [Line -> 0..MaxQty]
None == [l \in Line |-> 0]
Open == {"SENT", "PARTIALLY_RECEIVED"}

Receipt == [key : Key, version : 0..MaxVersion, quantity : Quantities, delivery : Delivery]
OrderDoc == [status : {"NONE", "DRAFT", "RECEIVED", "CANCELLED"} \cup Open,
             supplier : Supplier \cup {Null}, version : 0..MaxVersion,
             ordered : Quantities, received : Quantities,
             receipts : SUBSET Receipt, closedShort : BOOLEAN]

\* What a page shows of an order; Null is no such thing.
Shown == [id : Order, doc : OrderDoc]
ASSUME PageAssumption == Null \notin Shown

NoOrder == [status |-> "NONE", supplier |-> Null, version |-> 0, ordered |-> None,
            received |-> None, receipts |-> {}, closedShort |-> FALSE]
NoReceipt == [delivery |-> Null, quantity |-> None, key |-> Null, sent |-> None]

Init ==
    /\ order = [o \in Order |-> NoOrder]
    /\ supplier = [s \in Supplier |-> "ACTIVE"]
    /\ restocked = [o \in Order |-> None]
    /\ view = [u \in User |-> Null] /\ waiting = [u \in User |-> Null]
    /\ receipt = [u \in User |-> NoReceipt]
    /\ told = [d \in Delivery |-> "nothing"] /\ strayed = {}
    /\ TxnInit

-----------------------------------------------------------------------------
\* The page

\* Nothing is sent while an answer is awaited (busy).
Free(u) == waiting[u] = Null

Ask(u, t, request) ==
    /\ Free(u)
    /\ Begin(t, request, Current)
    /\ waiting' = [waiting EXCEPT ![u] = t]

\* The list, or a link to the order, opens it.
OpenOrder(u) ==
    /\ Free(u) /\ receipt[u] = NoReceipt
    /\ \E o \in Order : order[o].status # "NONE"
                        /\ view' = [view EXCEPT ![u] = [id |-> o, doc |-> order[o]]]
    /\ UNCHANGED << documents, receipt, waiting, told, strayed, req, snap, missed >>

\* Back to the list, where "New order" starts an empty draft.
CloseEditor(u) ==
    /\ Free(u) /\ receipt[u] = NoReceipt /\ view[u] # Null
    /\ view' = [view EXCEPT ![u] = Null]
    /\ UNCHANGED << documents, receipt, waiting, told, strayed, req, snap, missed >>

\* A draft has a line and every line a quantity; unchosen lines are left out.
DraftLines == Quantities \ {None}

SaveDraft(u, t) ==
    /\ receipt[u] = NoReceipt
    /\ \E s \in Supplier, lines \in DraftLines, o \in Order :
           \/ view[u] = Null /\ order[o].status = "NONE"
              /\ Ask(u, t, [op |-> "create", order |-> o, supplier |-> s, lines |-> lines])
           \/ view[u] # Null /\ view[u].id = o /\ view[u].doc.status = "DRAFT"
              /\ Ask(u, t, [op |-> "update", order |-> o, supplier |-> s, lines |-> lines,
                            version |-> view[u].doc.version])
    /\ UNCHANGED << documents, view, receipt, told, strayed >>

Transition(u, t) ==
    /\ view[u] # Null /\ receipt[u] = NoReceipt
    /\ \E op \in {"send", "cancel"} :
         /\ view[u].doc.status \in {"DRAFT"} \cup (IF op = "cancel" THEN Open ELSE {})
         /\ Ask(u, t, [op |-> op, order |-> view[u].id, version |-> view[u].doc.version])
    /\ UNCHANGED << documents, view, receipt, told, strayed >>

Outstanding(doc) == [l \in Line |-> IF doc.status = "CANCELLED" THEN 0
                                    ELSE doc.ordered[l] - doc.received[l]]

\* The dialog starts from the outstanding quantities, with no key.
ReceiptForm(d, doc) == [NoReceipt EXCEPT !.delivery = d, !.quantity = Outstanding(doc)]

OpenReceive(u) ==
    /\ Free(u) /\ receipt[u] = NoReceipt
    /\ view[u] # Null /\ view[u].doc.status \in Open
    /\ \E d \in Delivery :
         /\ \A v \in User : receipt[v].delivery # d
         /\ told[d] # "recorded"
         /\ told' = [told EXCEPT ![d] = "nothing"]
         /\ receipt' = [receipt EXCEPT ![u] = ReceiptForm(d, view[u].doc)]
    /\ UNCHANGED << documents, view, waiting, strayed, req, snap, missed >>

\* What the dialog accepts: a line may be skipped, not exceeded.
ReceiptValid(q, doc) == \A l \in Line : q[l] <= Outstanding(doc)[l]

\* The user changes or drops a receipt that was sent, and may be recorded.
Stray(u) ==
    strayed' = IF receipt[u].key = Null THEN strayed ELSE strayed \cup {receipt[u].delivery}

EditReceipt(u) ==
    /\ Free(u) /\ receipt[u] # NoReceipt
    /\ receipt[u].key # Null => "edit" \in Habits
    /\ \E q \in Quantities \ {None} :
         /\ ReceiptValid(q, view[u].doc)
         /\ receipt' = [receipt EXCEPT ![u].quantity = q]
    /\ Stray(u)
    /\ UNCHANGED << documents, view, waiting, told, req, snap, missed >>

CloseReceive(u) ==
    /\ Free(u) /\ receipt[u] # NoReceipt
    /\ receipt[u].key # Null => "reopen" \in Habits
    /\ receipt' = [receipt EXCEPT ![u] = NoReceipt]
    /\ Stray(u)
    /\ UNCHANGED << documents, view, waiting, told, req, snap, missed >>

\* An attempt keeps its key while its body is unchanged.
KeysInUse == {receipt[u].key : u \in User} \cup {r.key : r \in UNION {order[o].receipts : o \in Order}}
                \cup {req[t].key : t \in {x \in Txn : req[x].op = "receive"}}
KeysForAnew(u) == Key \ KeysInUse
KeysFor(u) ==
    IF receipt[u].key # Null /\ receipt[u].sent = receipt[u].quantity
    THEN {receipt[u].key} ELSE Key \ KeysInUse

ReceiveBody(u, k) ==
    [op |-> "receive", order |-> view[u].id, key |-> k, version |-> view[u].doc.version,
     quantity |-> receipt[u].quantity, delivery |-> receipt[u].delivery]

SubmitReceive(u, t) ==
    /\ receipt[u] # NoReceipt /\ receipt[u].quantity # None
    /\ \E k \in KeysFor(u) :
         /\ receipt' = [receipt EXCEPT ![u].key = k, ![u].sent = receipt[u].quantity]
         /\ Ask(u, t, ReceiveBody(u, k))
    /\ UNCHANGED << documents, view, told, strayed >>

\* The answer never came: the page keeps the receipt and its key.
GiveUp(u) ==
    /\ waiting[u] # Null
    /\ waiting' = [waiting EXCEPT ![u] = Null]
    /\ UNCHANGED << documents, view, receipt, told, strayed, req, snap, missed >>

-----------------------------------------------------------------------------
\* Answers.  They reach the page that still waits for t, if any.

Waits(u, t) == waiting[u] = t
Awaited(t) == \E u \in User : Waits(u, t)
StopWaiting(t) == waiting' = [u \in User |-> IF Waits(u, t) THEN Null ELSE waiting[u]]

\* Success: the page shows the order as get(id) reads it after the commit.
AnswerWith(t, o, doc) ==
    /\ view' = [u \in User |-> IF Waits(u, t) THEN [id |-> o, doc |-> doc] ELSE view[u]]
    /\ StopWaiting(t)

AnswerRecorded(t, o, doc) ==
    /\ AnswerWith(t, o, doc)
    /\ told' = [told EXCEPT ![req[t].delivery] = IF Awaited(t) THEN "recorded" ELSE @]
    /\ receipt' = [u \in User |-> IF Waits(u, t) THEN NoReceipt ELSE receipt[u]]

\* A 409 to a receive: the page reloads the order and says that the receipt was
\* not recorded; if the reload fails it keeps the dialog, with a new attempt.
AnswerNotRecorded(t) ==
    \E reload \in BOOLEAN :
        /\ StopWaiting(t)
        /\ view' = [u \in User |-> IF Waits(u, t) /\ reload
                       THEN [id |-> req[t].order, doc |-> order[req[t].order]] ELSE view[u]]
        /\ told' = [told EXCEPT ![req[t].delivery] =
                       IF Awaited(t) /\ reload THEN "not recorded" ELSE @]
        /\ receipt' = [u \in User |-> IF ~Waits(u, t) THEN receipt[u]
                                      ELSE IF reload THEN NoReceipt
                                      ELSE [receipt[u] EXCEPT !.key = Null]]

-----------------------------------------------------------------------------
\* The service

OrderUnlocked(o) == {}
OrderLock(o) == {<< "order", o >>}
\* assertActive and assertExists bump the supplier's receiptVersion.
SupplierLock(s) == {<< "supplier", s >>}

\* The filter of every write to an order: the version the page showed.
AtVersionOrNot(doc, version) == TRUE
AtVersion(doc, version) == doc.version = version

CommitCreate(t) ==
    LET r == req[t] IN
    /\ r.op = "create"
    /\ snap[t].supplier[r.supplier] = "ACTIVE" /\ snap[t].order[r.order].status = "NONE"
    /\ Commit(t, OrderLock(r.order) \cup SupplierLock(r.supplier))
    /\ order' = [order EXCEPT ![r.order] =
           [NoOrder EXCEPT !.status = "DRAFT", !.supplier = r.supplier, !.ordered = r.lines]]
    /\ AnswerWith(t, r.order, order'[r.order])
    /\ UNCHANGED << supplier, restocked, receipt, told, strayed >>

\* Writes order r.order with version filter, and raises its version.
Write(t, statuses, locks, doc) ==
    LET r == req[t] IN
    /\ snap[t].order[r.order].status \in statuses
    /\ AtVersion(snap[t].order[r.order], r.version)
    /\ order[r.order].version < MaxVersion
    /\ Commit(t, OrderLock(r.order) \cup locks)
    /\ order' = [order EXCEPT ![r.order] = [doc EXCEPT !.version = @ + 1]]

CommitUpdate(t) ==
    LET r == req[t] IN
    /\ r.op = "update" /\ snap[t].supplier[r.supplier] = "ACTIVE"
    /\ Write(t, {"DRAFT"}, SupplierLock(r.supplier),
             [snap[t].order[r.order] EXCEPT !.supplier = r.supplier, !.ordered = r.lines])
    /\ AnswerWith(t, r.order, order'[r.order])
    /\ UNCHANGED << supplier, restocked, receipt, told, strayed >>

CommitSend(t) ==
    LET r == req[t]
        doc == snap[t].order[r.order]
    IN  /\ r.op = "send" /\ doc.supplier # Null /\ snap[t].supplier[doc.supplier] = "ACTIVE"
        /\ Write(t, {"DRAFT"}, SupplierLock(doc.supplier), [doc EXCEPT !.status = "SENT"])
        /\ AnswerWith(t, r.order, order'[r.order])
        /\ UNCHANGED << supplier, restocked, receipt, told, strayed >>

CommitCancel(t) ==
    LET r == req[t]
        doc == snap[t].order[r.order]
    IN  /\ r.op = "cancel"
        /\ Write(t, {"DRAFT"} \cup Open, {},
                 [doc EXCEPT !.status = "CANCELLED", !.closedShort = doc.received # None])
        /\ AnswerWith(t, r.order, order'[r.order])
        /\ UNCHANGED << supplier, restocked, receipt, told, strayed >>

NextStatusOnArrival(ordered, received) ==
    IF \A l \in Line : received[l] > 0
    THEN "RECEIVED" ELSE "PARTIALLY_RECEIVED"
NextStatus(ordered, received) ==
    IF \A l \in Line : received[l] >= ordered[l] THEN "RECEIVED" ELSE "PARTIALLY_RECEIVED"

ReceiptsOf(doc, key) == {r \in doc.receipts : r.key = key}
\* The attempt was recorded before, with the same body.
ReplayedNever(doc, r) == FALSE
Replayed(doc, r) ==
    \E p \in ReceiptsOf(doc, r.key) : p.version = r.version /\ p.quantity = r.quantity

Receivable(doc, r) ==
    /\ ReceiptsOf(doc, r.key) = {} /\ doc.status \in Open
    /\ \A l \in Line : r.quantity[l] <= doc.ordered[l] - doc.received[l]

\* The restock of the goods is part of the same transaction.
CommitReceive(t) ==
    LET r == req[t]
        doc == snap[t].order[r.order]
        received == [l \in Line |-> doc.received[l] + r.quantity[l]]
    IN  /\ r.op = "receive"
        /\ ~Replayed(doc, r) /\ Receivable(doc, r)
        /\ Write(t, Open, SupplierLock(doc.supplier),
                 [doc EXCEPT !.received = received,
                     !.status = NextStatus(doc.ordered, received),
                     !.receipts = @ \cup {[key |-> r.key, version |-> r.version,
                                           quantity |-> r.quantity, delivery |-> r.delivery]}])
        /\ restocked' = [restocked EXCEPT ![r.order] = [l \in Line |-> @[l] + r.quantity[l]]]
        /\ AnswerRecorded(t, r.order, order'[r.order])
        /\ UNCHANGED << supplier, strayed >>

ReplayReceive(t) ==
    LET r == req[t] IN
    /\ r.op = "receive" /\ Replayed(snap[t].order[r.order], r)
    /\ Commit(t, {})
    /\ AnswerRecorded(t, r.order, order[r.order])
    /\ UNCHANGED << documents, strayed >>

\* Conflicts: a stale version, an order that is no longer open, a key that was
\* used for another receipt.
RefuseReceive(t) ==
    LET r == req[t]
        doc == snap[t].order[r.order]
    IN  /\ r.op = "receive" /\ ~Replayed(doc, r)
        /\ ~(Receivable(doc, r) /\ AtVersion(doc, r.version))
        /\ Abort(t)
        /\ AnswerNotRecorded(t)
        /\ UNCHANGED << documents, strayed >>

\* Any other request may be refused (a conflict, an archived product); the page
\* reloads the order after a conflict with send or cancel.
RefuseOther(t) ==
    LET r == req[t] IN
    /\ r.op \in {"create", "update", "send", "cancel"}
    /\ Abort(t)
    /\ \/ AnswerWith(t, r.order, order[r.order]) /\ r.op \in {"send", "cancel"}
       \/ StopWaiting(t)
          /\ UNCHANGED view
    /\ UNCHANGED << documents, receipt, told, strayed >>

\* A receive is refused before it reaches the service.
RefusedBefore(t) ==
    /\ "refused" \in Habits /\ req[t].op = "receive"
    /\ Abort(t)
    /\ receipt' = [u \in User |-> IF Waits(u, t) THEN [receipt[u] EXCEPT !.key = Null]
                                  ELSE receipt[u]]
    /\ strayed' = IF Awaited(t) THEN strayed \cup {req[t].delivery} ELSE strayed
    /\ StopWaiting(t)
    /\ UNCHANGED << documents, view, told >>

\* The request, or the process that runs it, is lost; the page stops waiting.
Lose(t) ==
    /\ Abort(t)
    /\ StopWaiting(t)
    /\ UNCHANGED << documents, view, receipt, told, strayed >>
Rerun(t) == Retry(t, Current) /\ UNCHANGED << documents, page >>

\* Suppliers are archived and restored while orders are open; one is deleted
\* only if no order names it.  remove locks it, then looks for orders.
ArchiveSupplier(t) ==
    \E s \in Supplier, state \in {"ACTIVE", "ARCHIVED"} :
        /\ supplier[s] # "GONE" /\ supplier[s] # state
        /\ supplier' = [supplier EXCEPT ![s] = state]
        /\ missed' = [u \in Txn |-> IF Running(u) THEN missed[u] \cup {<< "supplier", s >>}
                                    ELSE {}]
        /\ UNCHANGED << order, restocked, page, req, snap >>

AskRemove(t) ==
    \E s \in Supplier : /\ Begin(t, [op |-> "remove", supplier |-> s], Current)
                        /\ UNCHANGED << documents, page >>

CommitRemove(t) ==
    LET s == req[t].supplier IN
    /\ req[t].op = "remove" /\ snap[t].supplier[s] # "GONE"
    /\ \A o \in Order : snap[t].order[o].supplier # s
    /\ Commit(t, SupplierLock(s))
    /\ supplier' = [supplier EXCEPT ![s] = "GONE"]
    /\ UNCHANGED << order, restocked, page >>

UserStep(u) ==
    \/ OpenOrder(u) \/ CloseEditor(u) \/ OpenReceive(u) \/ EditReceipt(u) \/ CloseReceive(u) \/ GiveUp(u)
    \/ \E t \in Txn : SaveDraft(u, t) \/ Transition(u, t) \/ SubmitReceive(u, t)

Serve(t) ==
    \/ CommitCreate(t) \/ CommitUpdate(t) \/ CommitSend(t) \/ CommitCancel(t)
    \/ CommitReceive(t) \/ ReplayReceive(t) \/ RefuseReceive(t) \/ RefuseOther(t)
    \/ RefusedBefore(t) \/ Lose(t) \/ Rerun(t)
    \/ ArchiveSupplier(t) \/ AskRemove(t) \/ CommitRemove(t)

Next == (\E u \in User : UserStep(u)) \/ (\E t \in Txn : Serve(t))

Spec == Init /\ [][Next]_vars

-----------------------------------------------------------------------------
\* Properties

Receipts(o, d) == {r \in order[o].receipts : r.delivery = d}
Recorded(d) == UNION {{o} \X Receipts(o, d) : o \in Order}

\* The documents and the pages keep their shapes, and a page is busy only while
\* its request runs.
TypeOK ==
    /\ order \in [Order -> OrderDoc]
    /\ supplier \in [Supplier -> {"ACTIVE", "ARCHIVED", "GONE"}]
    /\ waiting \in [User -> Txn \cup {Null}]
    /\ \A u \in User : waiting[u] # Null => req[waiting[u]] # Idle
    /\ \A u \in User : view[u] \in Shown \cup {Null}
    /\ \A u \in User : receipt[u] = NoReceipt \/ (view[u] # Null /\ receipt[u].delivery \in Delivery)

\* A delivery is received at most once, whatever is lost, repeated or raced,
\* as long as its user repeats an attempt unchanged until it is answered.
ReceivedOnce == \A d \in Delivery \ strayed : Cardinality(Recorded(d)) <= 1

\* Of such a delivery the page says "not recorded" only if it is not, and of
\* any delivery "recorded" only if it is.
ToldTheTruth ==
    \A d \in Delivery : /\ told[d] = "recorded" => Recorded(d) # {}
                        /\ told[d] = "not recorded" /\ d \notin strayed => Recorded(d) = {}

\* The units of line l in a set of receipts.
ReceiptTotal(receipts, l) ==
    SumFunctionOnSet([r \in receipts |-> r.quantity[l]], receipts)

\* What an order counts as received is what its receipts add up to and what
\* came into stock, and never more than was ordered.
ReceiptsAddUp ==
    \A o \in Order, l \in Line :
        /\ order[o].received[l] = ReceiptTotal(order[o].receipts, l)
        /\ order[o].received[l] = restocked[o][l]
        /\ order[o].received[l] <= order[o].ordered[l]

\* The status says how much is outstanding, and a cancelled order whether goods
\* had arrived, although cancel and receive may race.
StatusTellsReceipts ==
    \A o \in Order :
        LET doc == order[o] IN
        /\ doc.status = "RECEIVED" => doc.received = doc.ordered
        /\ doc.status \in {"DRAFT", "SENT"} => doc.received = None
        /\ doc.status = "PARTIALLY_RECEIVED" => doc.received \notin {None, doc.ordered}
        /\ doc.status = "CANCELLED" => (doc.closedShort <=> doc.received # None)

\* No order names a supplier that was deleted.
SuppliersStay == \A o \in Order : order[o].status # "NONE" => supplier[order[o].supplier] # "GONE"

\* An order names no deleted supplier, and its receipts, its stock and its
\* status tell the same story (purchase-order.service.ts).
OrdersAddUp == TypeOK /\ SuppliersStay /\ ReceiptsAddUp /\ StatusTellsReceipts

\* Once sent, an order's lines and supplier are locked, and once closed
\* nothing of it changes, whatever a stale page asks for.
SentIsLocked ==
    [][\A o \in Order :
         /\ order[o].status \notin {"NONE", "DRAFT"} =>
              << order'[o].ordered, order'[o].supplier >> = << order[o].ordered, order[o].supplier >>
         /\ order[o].status \in {"RECEIVED", "CANCELLED"} => order'[o] = order[o]]_vars

\* No write is lost: an order changes only under a page that showed it as it was.
WritesSeeTheOrder ==
    [][\A o \in Order, t \in Txn :
         (order'[o] # order[o] /\ req[t] # Idle /\ req'[t] = Idle /\ req[t].op # "create") =>
            req[t].version = order[o].version]_vars
=============================================================================
