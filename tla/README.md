# Grocery POS: formal models and proofs

TLA+ models of the point-of-sale system in `src/` (a NestJS API over MongoDB and
a Vue client that can sell offline), the TLC runs that check them on small
instances, and TLAPS proofs of the theorems that matter most, for every size of
the system. Paths below are relative to `src/apps/api/src/` unless they begin with
`client/`, which stands for `src/apps/client/src/`.

1. The system, 2. Modules, 3. Runs, 4. Proofs, 5. Disagreements found,
6. What is not modelled, 7. Plan.

## 1. The system

Almost every state change of the API is one MongoDB transaction, run by
`runInTransaction` (`common/utils/db.ts`). Transactions have snapshot isolation:
each reads the database as it was when it began, and commits only if nobody has
since written a document (or unique index key) that it writes itself. Reads are
not protected. The code therefore *bumps* documents it depends on (`saleCount`,
`reversalCount`, `offlineLeaseLock`, `saleVersion`, `overrideApprovalLock`, ...),
so that a concurrent change of them becomes a write conflict. Whether each
operation bumps all it must is the main question on the server: tests do not
reach it.

On the client JavaScript runs one handler at a time, up to its next `await`. What
interleaves is the network: answers come late, in any order or never, after the
user has typed on, changed the page, logged out, or another tab has written the
same storage. Whether each handler compares what it must after the `await` is
the main question there.

| Component | State | Operations | Interacts with | What must hold |
|---|---|---|---|---|
| Cash shifts (`shift/`) | shift documents: status, movements, Z-read, counters | open, cash in / drop, close, force close | sales and reversals write the shift; close reads sales and leases | one open shift per cashier; the Z-read counts every sale and movement; a closed shift never changes |
| Sales and reversals (`sales/`) | sales with status, tenders, paying shift; idempotency key | sell, void, refund | shift, inventory, approvals | a checkout is recorded once however often it is sent; a reversal pays its cash once, from one drawer |
| Offline leases and uploads (`offline/`) | leases per terminal and login; signed catalogue | lease, catalogue, release, sync, reconcile | shift (lock), sales, inventory, client | a shift its cashier closed has no terminal selling into it; an upload is in the Z-read or the addendum |
| Stock, batches, movement ledger (`inventory-man/`, `stock-movement/`) | stock per product, batches with expiry, a ledger row per change | sell, return, restock, adjust, reconcile, switch tracking | sales, purchase orders, stock counts | stock equals the sum of batches and the last balance; nothing is oversold online |
| Purchase orders (`purchase-order/`) | orders with ordered and received quantities, receipts | create, edit, send, cancel, receive | inventory, suppliers, the page | goods are received once; nobody overwrites what they did not see |
| Stock counts (`stock-count/`) | expected and counted quantities | create, count, submit, approve | inventory, approvals, the page | movements between count and approval are kept |
| Manager approvals (`auth/override/`) | PINs, grants | set PIN, issue, consume | sales, drawer, users | a grant is used once, for what it was given for |
| Sessions (`auth/`) | refresh tokens, cookies | login, rotate, logout, revoke | users | one successor per token; no session outlives a revocation |
| Users (`user/`) | users, roles | create, update, deactivate, reset or change a password | sessions, approvals | an active admin remains |
| Products, settings (`product/`, `settings/`) | catalogue documents, barcode counter, store settings | CRUD, generate barcode | inventory, shift, leases | barcodes are unique; the timezone does not change under an open shift |
| Reports (`reports/`) | none | add up sales by day | sales | every sale and reversal is counted once, on its day |
| Migrations (`migrations/`) | marker documents, progress | claim, migrate, resume | all stores | a crash and a rerun never do a document twice |
| Register (`client/stores/cart.ts`, `components/User/Sales`) | ticket, parked tickets, checkout attempt, shared by tabs | ring up, check out, park, resume | sales over a lossy network | a retry keeps its key; no ticket is lost or sold twice |
| Offline terminal (`client/stores/offline.ts`, `offline/`) | IndexedDB outbox, lease, price list | prepare, queue, upload, close | leases and sync | cash taken offline is uploaded exactly once |
| Pages (`client/views`, `router/`, `axios.ts`) | drafts, dialogs, cached user | type, pick, save, navigate | everything by HTTP | no late answer reaches another ticket, dialog, user or page |

What is hard to test: interleavings of requests of several users; the driver
rerunning a callback after a conflict; a committed answer that is lost; uploads
that arrive during or after a close; several tabs of one terminal; answers that
come back in another order; crashes between storing and clearing. `PROJECT.json`
lists each such hazard at its line, with the properties about it.

## 2. Modules

    ShiftDocs            documents of a shift, and pure helpers (Z-read, paying drawer)
      CashLedger         what is promised: each operation in one step
        ShiftLedger      how the code does it: transactions on snapshots
    SnapshotTxn          begin / commit / conflict / retry, as runInTransaction has them
    StockBook            what stock promises: each operation in one step
      Stock              how the code does it
    Checkout             a register and the server over a lossy network
    RegisterTabs         tickets shared by the tabs of a browser
    PurchaseOrders, StockCounts, Accounts, Sessions        other parts of the API
    OfflineClient, OfflineCatalog                          the offline terminal
    SessionClient, Access                                  requests and routes
    SellScreen, ShiftScreen, SaleReturns                   the cashier's pages
    Settings, ProductSearch, RestockDraft, ProductEntry    pages behind the counter
    Amounts, Till, Reports                                 money and days
    LedgerBackfill, DecodeEntities                         migrations
    SetSums                                                lemmas about sums over sets
    *_proofs                                               the theorems
    MC*                                                    instances for TLC

ShiftLedger, Stock, PurchaseOrders, StockCounts, Accounts and Settings use
SnapshotTxn. `map` in `PROJECT.json` gives the lines of every definition.

**SnapshotTxn** is one transaction manager for all services: `req[t]` is the
request, `snap[t]` the database it reads, `missed[t]` the documents and index
keys that others committed since. `Commit(t, writes)` needs `missed[t]` and
`writes` disjoint, which is MongoDB's first-committer-wins rule. `Retry` is
`withTransaction` running the callback again; `Abort` is a thrown error or the
death of the process. Conflicts are detected at commit; MongoDB detects some at
the write, which only makes a transaction end earlier.

### The API

**ShiftDocs, CashLedger, ShiftLedger** (`shift/`, `sales/`, `offline/`). Money is
abstracted to what the control flow tells apart: whether a sale left net cash in
the drawer. A Z-read is the collections its sums range over, so that "this sale is
not in the Z-read" is visible as such; the sums are Till's. CashLedger has every
operation as one atomic step on current documents. ShiftLedger is the code:
`ArriveOpen` and `ArriveSale` have the lookups made before the transaction, each
`Commit...` is one service method with all it calls; its guards read `snap[t]`,
and the set given to `Commit` has every document written (`SaleWrites`,
`CloseWrites`, ... are operators of their own, because the properties turn on
them). Stock, products and the settings document, which only add reasons to
refuse, are left out; `Refuse` may always happen.

| Action | Code |
|---|---|
| `CommitOpen`, `CommitDrawer` | `ShiftService.open`, `recordDrawer` |
| `CommitSell` | `SalesService.recordSale` with `chargeSale` |
| `CommitReverseForCash`, `CommitReverseNoCash` | `SalesService.reverse` with `visibleReversalSale` and `payOutReversal` |
| `CommitCloseOwn`, `CommitCloseById` | `closeOwn`, `closeById` with `close` and `computeZRead` |
| `CommitIssueLease`, `CommitRelease` | `OfflineService.lease`, `release` |
| `CommitSyncOpen`, `CommitSyncLate` | `sync` for the cashier and (`admin`) `reconcile` |
| `Rerun`, `Refuse` | `withTransaction`'s retry; any refusal |

**StockBook, Stock** (`inventory-man/`, `product/`). The inventory row, the batches
and the last balance of the ledger of each product. `CommitRestock`, `CommitSell`,
`CommitReverse`, `CommitAdjust`, `CommitSync` (an offline upload, which may leave a
shortfall or owe a lot) and `CommitEdit` (a price, a switch of expiry tracking,
archiving) are whole transactions; `Midnight` expires lots. A request moves one
product: a request of several lines sums them per product and does the same for
each.

**PurchaseOrders** (`purchase-order/`, `supplier/`, `client/views/User/PurchaseOrders`).
Server transactions (`CommitCreate`, `CommitUpdate`, `CommitSend`, `CommitCancel`,
`CommitReceive` with `ReplayReceive`, `CommitRemove` of a supplier) and the page:
what it shows of an order (`view`), the receive dialog (`receipt`) with its
idempotency key, and what the user was told (`told`). A delivery is what the dialog
is filled in for. `strayed` is history: the deliveries whose user edited or
reopened the dialog after sending it, or whose attempt was refused before it
reached the service while an earlier answer was missing. The key cannot cover
those, and `ReceivedOnce` promises nothing about them.

**StockCounts** (`stock-count/`, `client/views/User/StockCounts`). A count is opened
against the stock of the moment, filled in, saved under a version, submitted,
approved and posted as differences, while goods move. **Accounts** (`user/`,
`auth/override/`): accounts, PINs and approvals; passwords and PINs are
generations; an approval is issued by reads outside a transaction
(`VerifyPin`, `ReadRequester`, `StoreGrant`) and consumed inside the transaction of
the action it is for (`CommitApproved`). **Sessions** (`auth/`): no transaction is
used; rotation is find, create, delete, and between its statements other requests
run, the database fails or the API dies. `given` and `ended` are history.

**Settings** (`settings/`, `client/stores/settings.ts`) has the settings document
against shifts and leases that took its timezone with them, and a terminal's
last-known copy with the settings page over it. **Reports**
reads sales one after another through a cursor while sales go on, and adds up each
at its day; days are ranges of instants of a zone whose offset changes once.
**Amounts** is the arithmetic of the register and the server as operators, and
**Till** one register's tickets, checkouts, sales, reversals and Z-read over it.
**LedgerBackfill** and **DecodeEntities** are the two data migrations that can be
interrupted: runs claim a marker, may die at any point, and leave what they did to
the next run.

### The client

**Checkout** composes the ticket and its checkout attempt (`cart.ts`,
`sale-submission.ts`) with `SalesService.sell`. `conn[r]` is a request on its way:
`arrived`, `recording` after the first lookup of its key, `failed`, `answered`. The
register waits for at most one, but one it gave up on goes on, so that requests
with the same key overlap. `Scan`, `Edit`, `RemoveLastLine`, `Void` are the
ticket; `Submit` is `submit` up to the request, with `keyFor`; `Receive...`,
`TimeOut` and `GiveUp` the rest of it; `LookUp`, `Record`, `Fail`, `LookUpAgain`
are `sell`; `Drop` and `Lose` the network; `Reverse` and `ToggleShift` what others
do meanwhile. `shown`, `made`, `emptied` (the keys that outlived a ticket emptied
line by line) and the field `for` are history. That the transaction sells atomically
is ShiftLedger's business.

**RegisterTabs** (`cart.ts`): each tab works on a copy of its cashier's basket, saves
every change to localStorage and hears of other tabs' writes later. After a failed
write `reconcileParked` keeps an old snapshot of the parked tickets, so that
`ParkedKept` is promised, and checked, only where writes succeed.
**SellScreen** (`Sell.vue`, `product-search.ts`): scan box, live search, lookups,
Undo and the checkout that locks the ticket. **ShiftScreen** (`stores/shift.ts`, the
layout and the dialogs): opening, drawer, closing and logging out over requests
that the server works out at one moment and answers at another. **SaleReturns**
(`Sales/Index.vue`): the list, a sale's details, and its reversal with the manager's
approval.

**OfflineClient** (`stores/offline.ts`, `offline/database.ts`): tabs that share
IndexedDB prepare, queue, upload and close. An action is what a tab does between
two awaits, one IndexedDB transaction, or one request handled by the server.
`lockout` is history: whether the lock on enqueueing that a close of the shift sets
is set, or was lifted again. **OfflineCatalog**: the price list, walked by the time
of the last write, a page at a time; that time is taken before the writer's
transaction commits. `overtaken` is history: the rows committed behind the cursor.
**SessionClient** (`axios.ts`): requests whose access token has expired share one
refresh. **Access** (`router/index.ts`, the permission tables): who may open which
page, through every hop of a navigation; that a role changed elsewhere is noticed
only after a reload or a 401 is part of the model.

**ProductSearch, RestockDraft** (`views/Restock`, `useProductMatches.ts`) and
**ProductEntry** (`views/User/Products`, `product.service.ts` with its barcode
counter) are drafts whose dialogs wait for answers while they are closed, reopened
and retyped. `Patient` says that users wait for a dialog's own request before
closing it; what happens otherwise is under Disagreements.

## 3. What the runs check

Twelve runs, one MC module each save two. Components that share no state are
checked in one run by **scenarios**: each behaviour plays out one component in one
setting, chosen in the initial state, while the others stay as they start. In
MCBackOffice, MCMoney and MCLive `v1, v2, ...` are the variables of the scenario's
component in the order in which it declares them; MCMoney's scenarios `days` and
`rows` use Reports' own variables. An INSTANCE gives each scenario its constants.
A combined property (`PagesHold`, `MoneyHolds`, ...) is the conjunction of the named
properties of the components, each under the scenario it is about; the comment on
every one says what code it is about.

| Run | Question | Instance | Distinct states |
|---|---|---|---|
| `shift_ledger` | Do interleaved sales, reversals, drawer movements, opens and closes act as if run alone? | 1 cashier, 2 shifts, 1 sale, 2 requests at a time, 1 drawer movement per shift | 212 000 |
| `shift_leases` | The same with leases and uploads | 1 shift, 1 terminal in 2 logins, 2 leases, 1 sale, 2 requests | 258 000 |
| `register` | Is a ticket charged once, the receipt true, and no ticket lost between tabs? | `checkout`: 2 customers, 2 contents, 2 payments, 2 requests, 2 keys, 2 faults; `parked`: 2 tabs, 2 tickets, 5 writes; `shared`: 2 tabs, 2 cashiers, 3 writes that may fail | 580 000 |
| `sell_pages` | Do late answers stay with their ticket, shift and cashier? | 6 scenarios: 2 products, 4 search texts, 2 scans; 1 or 2 cashiers and shifts, 2 or 3 requests | 680 000 |
| `stock` | Do inventory, batches and ledger agree, and act as one book? | `requests`: 2 requests on one unit and one lot; `prices`: the same without lots while the price is edited; `lots`: one at a time on 2 lots, 2 sizes, a midnight | 675 000 |
| `purchasing` | Are goods received once, and nothing overwritten unseen? | 2 users, 1 order of 2 units, 1 delivery, 2 keys, 2 requests; `receipts`, `fickle` (users change their minds), `drafts` | 404 000 |
| `accounts` | Does an admin remain, and do PINs, approvals and sessions follow the roles? | `pins`, `passwords`, `approvals`, `hiring`: 3 users, 2 requests, edits of 1 or 2 users; `tabs`, `kept`: 2 browsers, 3 tokens, every fault | 447 000 |
| `offline` | Is cash taken offline kept and uploaded once; is the price list complete? | 2 tabs, 1 ticket, 1 drop; `uploads`: 2 leases, an ADMIN's close, 1 reload (a crash between storing a sale and clearing its basket); `closing`: the cashier's close; `reopened`: 2 shifts, the sale in the second; `listed`, `sold`: 3 or 2 products, 3 instants, 1 or 2 leases | 1 900 000 |
| `back_office` | Do the pages behind the counter show and send what belongs to their request? | 13 scenarios of SaleReturns (2 sales, their details and drawers loaded twice), Settings, RestockDraft, ProductEntry (another request takes barcode counter values), Access and StockCounts | 1 200 000 |
| `money` | Do all figures agree to the centavo, and do migrations survive crashes? | 8 scenarios of Till, Reports, LedgerBackfill and DecodeEntities | 621 000 |
| `live` | Does everything that was begun come to an end? | 9 scenarios, no symmetry | 94 000 |
| `checkout_emptied` | And if a ticket is emptied line by line? (violated) | as `checkout`, 1 fault | |

The properties, by what would be lost without them:

- **Money in the drawer.** `ImplementsCashLedger` (refinement): every interleaving
  of transactions leaves the documents as some one-at-a-time order of the same
  operations would. `ZReadComplete`, `LateSalesReported`, `OneOpenShift`,
  `ClosedIsFinal`, `OwnCloseDrains` (after a cashier's own close no terminal has an
  active lease on the shift; a forced close deliberately leaves leases),
  `OneLeasePerTerminal`, `CashierReversesInOwnShift`. `SnapshotsHold` is the
  strengthening of the proof: an *unwritten open shift* stands for all its sales and
  leases, because every writer of those writes the shift.
- **One charge.** `ChargedOnce`: of two keys made for an unchanged ticket of one
  customer, the sale of the first has been reversed. `ReceiptIsRecorded`.
  `MixedOnlyIfEmptied`: the receipt of another customer's sale is given only under a
  key that outlived a ticket emptied line by line, which is the disagreement of
  `checkout_emptied`. `TabsHold` for the tickets the tabs share.
- **Goods.** `BooksBalance`, `LotsAccountedFor`, `FirstExpiringFirst`,
  `SoldOnCurrentTerms` and `ImplementsStockBook`; `ReceivedOnce`, `ToldTheTruth` (the
  dialog says recorded only of what is, and not recorded only of what never is by
  that attempt), `SentIsLocked`, `WritesSeeTheOrder`, `OrdersAddUp`; `CountsHold`.
- **People.** `AdminRemains`, `PinHoldersManage`, `PinSetByAdmin`, `PasswordProved`,
  `VoidedStaysUnused`, `SessionsHold`.
- **Offline.** `CashKept`, `UploadedStaysGone`. `OwnCloseLeavesNothing`: a sale of a
  shift its cashier closed waits in the outbox only if the lock was lifted, and it is
  lifted only after a lease of another shift was stored. `CatalogHolds`: a complete
  refresh misses only rows that another write overtook, and a ticket is charged as
  shown.
- **Pages and figures.** `RingHolds`, `ShiftHolds`, `PagesHold`, `MoneyHolds`.
- **Ends.** `LiveHolds`.

Deadlock is checked in the runs of ShiftLedger, Stock and PurchaseOrders, where some
request can always be made or refused. The others run into their bounds (writes,
keys, logins, instants), which their cfg says.

*Why the bounds are enough.* An anomaly of snapshot isolation needs two concurrent
transactions and the documents both depend on; two requests at a time and two shifts,
two lots or three accounts give every pair of operations on the same and on different
documents, and a third request in sequence is covered because requests start from
every reachable state. Every hazard of a retry needs two attempts, two overlapping
requests and one or two lost answers. Every hazard of a page needs two answers that
overtake one another, or one answer overtaken by something the user does. The bounds
are `Max...` constants; further ones are named in the MC modules (`OnlyVoids`:
refunds run the code of voids with another status; `SmallCase`, `OnePrice`, `NoLots`,
`FewEdits`, `NotReceived`, `InPlay`, `OneShift`, `OneLease`, `OfflineInSecond`,
`OncePerInstant`, `OneAtATime`, `OfDays`, `OfRows`). The proofs of section 4 are
without those. Symmetry is used only where model values are interchangeable, and not
in `live`.

*Fairness* is only in `live`, each component's own: the server gets on with a
request it has; axios delivers an answer or times out; the network comes back
(`NetUp`) and the timers of the offline store fire (`Reconnect`, `StartSync`);
Vue's router runs its guard; a cashier whose charge failed presses Retry; the
manager approves or cancels. Nothing is assumed of the network but that it does
not fail for ever (`MaxFaults`, `MaxDrops`, `MaxLost` bound losses), and of the
server nothing but an answer: it may refuse every time. Strong fairness is used
once, for the settings update that must find a transaction free.

Each property has a mutant in `PROJECT.json`: the model with one plausible bug (a
dropped bump, a comparison left out after an `await`) on which the property fails.

## 4. What is proved

For every value of the constants: any number of cashiers, shifts, sales, leases,
customers, keys, faults, users, orders, products, lots and concurrent requests.
Assumed are the named assumptions of the modules: `Null` is none of the ids and
records it stands beside, bounds are natural numbers, sets of inputs have the stated
types (`NullAssumption`, `CheckoutAssumption`, `AccountsAssumption`,
`OrderAssumption`, `PageAssumption`, `OfflineCatalogAssumption`,
`OfflineClientAssumption`, `StockAssumption`). TLC
evaluates them on every run of their module.

**ShiftLedger_proofs**, first part. `Consistent` is inductive for the atomic ledger
(`LedgerConsistent`, `LedgerTypeOK`, `LedgerZReadComplete`, `LedgerFinal`). It has to
be strengthened by `References`: a sale reversed while its own shift is open was
paid by that shift, and references lead to documents that exist. Without the first,
closing could store a Z-read with a void that some other drawer paid.

Second part, the transactions. `LedgerInvariant`: `Spec => []Invariant`, where
`Invariant` is `Consistent`, `TypeOK`, `SnapshotsHold` and `SnapshotsSound`. A lemma
for each operation shows that, given the invariant and that its write set avoids
`missed[t]`, its step *is* the atomic step of CashLedger: what it read and did not
write is still true. A lemma on commits shows that a step whose changes are covered
by its write set keeps the other requests' snapshots good. `Serializable` (`Spec =>
ImplementsCashLedger`) follows from the same lemmas, and from the invariant
`ZReadNeverMisses`, `ReversalsSettle`, `ReversalsPayOnce`, `OwnCloseHasNoLease`,
`OneShiftOpen`, `OneLeaseEach`, `LateSalesCounted`, `SnapshotsAreCurrent`,
`ShiftTypeOK`; `FinalDocuments` and `CashierReversals` are action properties.

**Checkout_proofs.** `ChargedOnce` alone is not inductive: it needs that the saved
attempt has the last key made and its lines (`AttemptIsLast`), that sales and
requests carry the lines their key was made for (`SalesAsMade`, `RequestsAsMade`),
that an answer on its way tells what is recorded and, if it reports a reversal, that
the sale *is* reversed for good (`Tells`), and that a ticket without attempt has had
none or a reversed one (`NewKeyNeeded`). From `CheckoutInvariant` follow
`NoDoubleCharge`, `ReceiptsAreTrue` and `RecordedSalesStand`. `NextTicketIsNew`
(`MixedOnlyIfEmptied`) adds `Theirs`: an attempt, a request or a sale whose key did not
outlive an emptied ticket is of the customer the key was made for.

**Accounts_proofs.** A request decides on a snapshot that may be old; a document
that nobody wrote since is as the snapshot has it (`Fresh`), and every account a
decision depends on is in the write set of the commit, if need be by a lock bump.
With it `AdminRemains` and `PinHoldersManage` are inductive (`Invariance`,
`AdminAlwaysRemains`, `PinsStayWithManagers`), and `PinsSetByAdmins` and
`PasswordsAreProved` are step properties. A second invariant over it (`Grants`): a
running action that is to consume an approval has it in its write set, so that it
is used at most once (`ApprovalsUsedOnce`), and an approval voided by an edit of its
approver's or requester's account is never used (`VoidedApprovals`).

**PurchaseOrders_proofs.** An order only *advances*: a write raises its version,
keeps its receipts, and changes nothing else of a sent one. Every copy, in a page
or in the snapshot of a transaction, is one of its earlier states (`Past`), the
present one if the versions agree. `IInv` has six parts: the documents and those
copies (`Base`), what pages hold (`Pages`), that each request fits the copy it was
sent from (`Sendings`, `Waitings`), that a key stands for one attempt (`Keyed`), and
`Deliveries`: all requests for a delivery that has not strayed carry one key and one
version, so that the first to commit leaves the others with a version no write
accepts and a replay that finds its receipt. From it follow `DeliveredOnce`,
`PagesTellTheTruth` and the step properties `OrdersLocked` and `WritesKnow`.
`OrdersHold` (`OrdersAddUp`) needs of the documents and of every copy of them that
what is received is the sum over the receipts (`AddUp`, a part of `Base`): a receipt
is committed only onto the copy it was computed from, which has no receipt of its
key, so that it adds its quantities exactly once (`OneMoreAddsUp`). `TypeCorrect`
needs `PageTypes` besides, with the assumption that `Null` is no page
(`PageAssumption`). TLC found the parts to hold on the run's instance before they
were proved.

**OfflineClient_proofs.** A sale that was queued is *kept*: in the outbox, or
recorded by the server. `Invariance` shows that whatever an upload carries or was
answered about is kept, that a positive answer tells of a recorded sale, and that a
sale still being queued is not kept, so that no upload and no ADMIN can have recorded
it meanwhile; from it follow `CashIsKept`, `UploadedStays` and `TypeCorrect`, for any
number of tabs, tickets, shifts, leases, drops and reloads. `OwnCloseIsClean`
(`OwnCloseLeavesNothing`), for any number of them too, follows a shift's lock: while
it is set, no sale of the shift is in the outbox or can still be queued (`LockHolds`),
since the lock is set only over an empty outbox and a tab queues only under the stored
lease; and a tab that releases, a lease that was released and a shift closed by its
cashier all come after it was set (`LockedFirst`, `CloseHolds`). A lease that a tab or
a sale knows of was granted (`KnownGranted`). The lock is lifted only by storing a
late answer, and while the stored lease is of the locked shift that is refused: what
remains is the case in which another shift's was stored in between, `LockedOut`
below. TLC explored `IInv` and the parts of the close on the run's instance before
they were proved.

**OfflineCatalog_proofs.** What the cursor of the price list has passed is stored as
it is on the server (`Passed`), save overtaken rows. It is inductive because a page
takes the products after the cursor from the front (`PageIsFront`, by counting
predecessors) and because a row that is written gets a stamp beyond the cursor or is
overtaken. A page that is not full has every product after the cursor
(`ShortPageIsLast`), so that a complete refresh leaves nothing stale but rows that
were overtaken: `RefreshMissesNothing` has `CaughtUp`, for any number of products,
pages of any size, writes that overlap in any way and refreshes broken off anywhere.
That a row is overtaken only by another write, stamped no earlier and committed
first, is `OvertakenByAnother`: the stamp a commit carries is behind the cursor only
if the cursor passed a row committed with a later one. `ChargesAsShown` and
`TypeCorrect` are the other two. That 0, which stands for "not for sale offline", is
no price is what the server checks of every price it signs.

**Stock_proofs.** Every request that moves a product's stock bumps the product's
`saleVersion`. So what it read of the product, its stock and the sale, and which lots
there are of the product, is true when it commits (`Fresh`), however many requests
began before or commit meanwhile. With it are inductive: what a sale took came from
lots of its product and adds up to its quantity, or from no lot (`SalesFit`), lots
belong to tracked products (`LotsBelong`), and the ledger's last balance is the
stock, in the database and in every snapshot (`LedgerAgrees`, so that `record` never
finds that the ledger does not reconcile: `LedgerNeverThrows`). The step properties
`SoldOnTerms` (`SoldOnCurrentTerms`), `NeverOversold` and `SalesStayRecorded` follow.

What the lots add up to is inductive over that. Each commit that moves goods is one
*movement* (`Moved`): n more units of a product, `gain[b]` of them in batch b, and
the gains of a tracked product add up to n. One lemma shows that a movement keeps the
sums (`MovedKeeps`); one lemma for each operation shows that it is a movement: a sale
takes its allocation from the lots, a reversal puts it back, or into a quarantined
lot if it had none, a restock opens one lot, an offline upload opens one that owes
what was sold. From it follow `LotsAddUp` (`BooksBalance`), `EveryUnitAccountedFor`
(`LotsAccountedFor`) and `StockImplementsBook`: a movement of a product *is* `PutIn`,
`TakeOut` or `TakeOffline` of StockBook, a change of tracking is `Switch`, and every
other step a stutter. `OldestLotFirst` (`FirstExpiringFirst`) follows from what an
allocation is: it takes from a lot only if it empties the lots that expire earlier,
and those are in the snapshot as they are at the commit. TLC explored the parts of
`IInv`, and the step properties that no run checks, on the run's instance before they
were proved.

**SetSums** has the lemmas on sums that Stock and PurchaseOrders need: a sum does not
depend on the order in which the members are taken (`SumRemove`), sums of sums
(`SumAdd`), of parts (`SumPart`, `SumMore`). They are shown by induction over the
subsets of a finite set, along the library's well-founded orderings (`SetInduction`).

*Only model-checked*, and why: liveness and `ENABLED` (outside this prover); what
RECURSIVE operators and folds over sequences compute (Till, Amounts, Reports:
`MoneyHolds`), since an operator that is a parameter of an induction theorem cannot
be instantiated by the installed provers; sums over finite sets can be, because
their inductive property can be given as a set of sets (SetSums). `CatalogHolds` is
the conjunction, over two instances, of what the theorems on OfflineCatalog show for
all; the combined properties of the pages, of sessions and of stock counts
(`TabsHold`, `RingHolds`, `ShiftHolds`, `PagesHold`, `CountsHold`, `SessionsHold`) are
next in the plan; and that the mutants break each property.

## 5. Disagreements found

Each is under `findings`, with the line it bites at and the comment, test or
README line it contradicts. `checkout_emptied` has a run of its own: a ticket that is
emptied by removing its lines keeps its checkout attempt, so that, after a lost
answer, the next customer's identical ticket is answered with the first one's
sale. For the others the property is a definition of the component's module, kept
beside the ones that hold; no run checks it where it fails.

| Module | Property | What the code does |
|---|---|---|
| PurchaseOrders | `ToldTheTruth` (with `"refused"` in `Habits`) | a retry refused with 401 or 429 drops the key of an attempt that was recorded |
| SessionClient | `LossLogsOut` | the second lost session of a page is not logged out |
| OfflineClient | `ReleasedForClose` | a lease request already sent is served after the release for a close |
| OfflineClient | `LockedOut` | a lease answered late puts a closed shift's lease back |
| OfflineClient | `BlockedCanBeRecorded` | after a reload between outbox and basket the key can be sold online first, and the queued sale stays blocked |
| OfflineCatalog | `ArchivedAreGone` | a row whose commit comes after a later stamp was fetched is never fetched |
| RegisterTabs | `ScanNotClearedUnsold` | a sale's answer clears the ticket the next cashier began |
| SellScreen | `MultiplierOnce`, `OwnTicket` | a second scan is multiplied too; a search rings up on the next ticket |
| ShiftScreen | `DroppedWhenClosed` | a late `GET /shifts/current` drops an open shift |
| Till | `MirrorsServer` | cash typed above the server's limit is sent, and refused |
| SaleReturns | `RequiredWhenNeeded` | a slow answer about drawers overwrites that of the sale shown |
| Settings | `NoBlindOverwrite` (checked in `zones`, where no request fails) | defaults are saved over a timezone the page never showed |
| RestockDraft | `EnterPicksTyped`, `DefaultIsOwn`, `ZeroCostConfirmed` | Enter picks an earlier query's match; one product's cost stays for the next; a cancelled check adds a row |
| ProductEntry | `OnlySentCleared` | a cancelled check's row is cleared unsaved |

The drafts' `ZeroCostConfirmed` and `OnlySentCleared` fail only when a user cancels a
dialog while its check runs; the passing runs check them with `Patient = TRUE`, users
who wait.

## 6. What is not modelled

CSP reports, rate limits (they only refuse), HTTP validation and error wording,
audit rows (one insert in each operation's own transaction), categories and
suppliers beyond their references, lists and lookups that read only, the
one-transaction category migration, the dashboard's stock figures, CSV, pages and
toasts, the build. Within modelled parts: typed-amount parsing and a discount's
reason (Till); quantities, batch numbers and categories of drafts (RestockDraft);
`POST /restocks` has no idempotency key, so that a lost answer and a retry add stock
twice, which nothing in the code promises otherwise; clocks ahead of the server's,
and days whose midnight falls back across a date (Reports); running
`--apply` of the decoding migration again beside live sales, which leaves an
incomplete marker as the repository's README warns (DecodeEntities,
LedgerBackfill); a second cashier's outbox in the same browser (OfflineClient); a
checkout form that stays open over a price refresh does not check its limit
again (Till); a lost-then-retained drawer choice after a failed reload, which the
server refuses (SaleReturns); a closing count does not name its shift
(ShiftScreen), and a cashier whose mount request failed may stay on the Sell page
without a shift.

## 7. Plan

Done: every component of section 1 as a module, the runs, and the proofs above.
Left, in this order:

1. Sessions: `ExchangedOnce` and `EndedStaysEnded`. StockCounts: `SubmittedIsFrozen`,
   `WritesSeeTheCount`, along the lines of PurchaseOrders.
2. RegisterTabs: `OwnTickets`. SessionClient: `NoneLeftWaiting`.
3. Stock: requests of several lines as one transaction, now that a movement is one
   lemma.
