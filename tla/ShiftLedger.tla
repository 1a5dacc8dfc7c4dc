---------------------------- MODULE ShiftLedger ----------------------------
(***************************************************************************)
(* Cash shifts, sales, reversals, drawer movements, closes and offline     *)
(* leases as the API runs them: each request is one MongoDB transaction    *)
(* that reads a snapshot and commits its writes.  Up to |Txn| requests are *)
(* in progress at once, from any number of cashiers and admins.            *)
(*                                                                         *)
(* Each operation is the action in which its transaction commits.  Its     *)
(* guards read snap[t], as the code does; the set given to Commit holds    *)
(* the documents the code writes, lock bumps included.  A cashier in that  *)
(* set stands for the entry of the unique index "one OPEN shift per        *)
(* cashier", a sale for its document and its idempotency key.              *)
(*                                                                         *)
(* Left out of the write sets: the settings document that open and lease   *)
(* also bump, products and stock.  They would only add conflicts.          *)
(***************************************************************************)
EXTENDS CashLedger

CONSTANTS
    Txn,
    MaxMoves     \* bound on the movements of a shift: cash ins and drops
                 \* are refused beyond it (the code has no such bound)

ASSUME MaxMovesAssumption == MaxMoves \in Nat

VARIABLES req, snap, missed

INSTANCE SnapshotTxn

vars == << docs, txnVars >>

Current == [shift |-> shift, sale |-> sale, lease |-> lease]

Init == LedgerInit /\ TxnInit

-----------------------------------------------------------------------------
\* Requests

AskOpen(c)              == [op |-> "open", cashier |-> c]
AskDrawer(c)            == [op |-> "drawer", cashier |-> c]
AskSale(c, s, cash)     == [op |-> "sell", cashier |-> c, sale |-> s, cash |-> cash]
AskReversal(by, s, as, named) ==       \* by = Null: an admin
    [op |-> "reverse", by |-> by, sale |-> s, as |-> as, named |-> named]
AskCloseOwn(c)          == [op |-> "closeOwn", cashier |-> c]
AskCloseById(sh)        == [op |-> "closeById", shift |-> sh]
AskLease(c, tm, sid) ==
    [op |-> "lease", cashier |-> c, terminal |-> tm, sid |-> sid]
AskRelease(l)           == [op |-> "release", lease |-> l]
AskSync(l, s, admin)    == [op |-> "sync", lease |-> l, sale |-> s, admin |-> admin]

Arrive(t, request) == Begin(t, request, Current) /\ UNCHANGED docs

\* open looks for an open shift before its transaction starts.
ArriveOpen(t) ==
    \E c \in Cashier :
        /\ \A sh \in Shift : ~OpenFor(shift, sh, c)
        /\ Arrive(t, AskOpen(c))

\* sell and sync look their idempotency key up before their transaction
\* starts, and answer a recorded one with the stored receipt.
ArriveSale(t) ==
    \E s \in Sale :
        /\ sale[s].status = "NONE"
        /\ \/ \E c \in Cashier, cash \in BOOLEAN : Arrive(t, AskSale(c, s, cash))
           \/ \E l \in Lease, admin \in BOOLEAN :
                 lease[l].status # "NONE" /\ Arrive(t, AskSync(l, s, admin))

ArriveOther(t) ==
    \/ \E c \in Cashier : Arrive(t, AskDrawer(c)) \/ Arrive(t, AskCloseOwn(c))
    \/ \E by \in Cashier \cup {Null}, s \in Sale, as \in Reversed,
          named \in {sh \in Shift : shift[sh].status # "NONE"} \cup {Null} :
         /\ sale[s].status # "NONE"
         /\ Arrive(t, AskReversal(by, s, as, named))
    \/ \E sh \in Shift : shift[sh].status # "NONE" /\ Arrive(t, AskCloseById(sh))
    \/ \E c \in Cashier, tm \in Terminal, sid \in Session :
         Arrive(t, AskLease(c, tm, sid))
    \/ \E l \in Lease : lease[l].status # "NONE" /\ Arrive(t, AskRelease(l))

-----------------------------------------------------------------------------
\* Write sets: the documents and unique-index keys an operation writes

\* A new OPEN shift claims its cashier's entry in the unique index.
OpenWritesNoIndex(c, sh) == {sh}
OpenWrites(c, sh) == {sh, c}

\* recordDrawer pushes a movement onto the shift.
DrawerWritesNothing(sh) == {}
DrawerWrites(sh) == {sh}

\* chargeSale bumps the shift's saleCount; the sale is inserted.
SaleWritesUncharged(sh, s) == {s}
SaleWrites(sh, s) == {sh, s}

\* payOutReversal pushes a movement onto the paying shift, and the reversed
\* sale is written.  Mutants: only one of the two is.
PayoutWritesSaleOnly(s, sh) == {s}
PayoutWrites(s, sh) == {s, sh}

\* No drawer pays, but an open shift's reversalCount is bumped, since its
\* Z-read reports the sale's status.
NoCashWritesUnlocked(database, s) == {s}
NoCashWrites(database, s) ==
    {s} \cup {sh \in Shift : sh = database.sale[s].shift
                             /\ IsOpen(database.shift, sh)}

\* Closing writes the shift, which leaves the index of open shifts.
CloseWrites(sh, c) == {sh, c}

\* lease bumps the shift's offlineLeaseLock, ends the leases it supersedes and
\* inserts a new one unless it gives an active one back.
LeaseWritesUnlocked(sh, lost, fresh) == lost \cup fresh
LeaseWrites(sh, lost, fresh) == {sh} \cup lost \cup fresh

\* release bumps the offlineLeaseLock of the lease's shift, open or closed.
ReleaseWrites(l, sh) == {l, sh}

\* sync bumps the lease's syncLock and the shift's saleCount (if it is closed,
\* its lateOfflineCount) and inserts the sale.  Mutant: the shift is not written.
SyncWritesUncounted(sh, l, s) == {l, s}
SyncWrites(sh, l, s) == {sh, l, s}

-----------------------------------------------------------------------------
\* Operations, each as its transaction commits

CommitOpen(t) ==
    \E c \in Cashier, sh \in Shift :
        /\ req[t] = AskOpen(c)
        /\ \A other \in Shift : ~OpenFor(snap[t].shift, other, c)
        /\ snap[t].shift[sh].status = "NONE"
        /\ Commit(t, OpenWrites(c, sh))
        /\ shift' = [shift EXCEPT ![sh] = NewShift(c)]
        /\ UNCHANGED << sale, lease >>

CommitDrawer(t) ==
    \E c \in Cashier, sh \in Shift :
        /\ req[t] = AskDrawer(c)
        /\ OpenFor(snap[t].shift, sh, c)
        /\ Len(snap[t].shift[sh].movements) < MaxMoves
        /\ Commit(t, DrawerWrites(sh))
        /\ shift' = [shift EXCEPT ![sh].movements = Append(@, DrawerMove)]
        /\ UNCHANGED << sale, lease >>

CommitSell(t) ==
    \E c \in Cashier, s \in Sale, cash \in BOOLEAN, sh \in Shift :
        /\ req[t] = AskSale(c, s, cash)
        /\ OpenFor(snap[t].shift, sh, c)
        /\ snap[t].sale[s].status = "NONE"
        /\ Commit(t, SaleWrites(sh, s))
        /\ sale' = [sale EXCEPT ![s] = NewSale(c, sh, cash, FALSE)]
        /\ UNCHANGED << shift, lease >>

\* A cashier reverses only sales of their own open shift and names no other
\* drawer; an admin reverses any sale.
MayReverse(database, by, s, named) ==
    by # Null => /\ named = Null
                 /\ database.sale[s].cashier = by
                 /\ \E sh \in Shift : /\ OpenFor(database.shift, sh, by)
                                      /\ database.sale[s].shift = sh

CommitReverseForCash(t) ==
    \E by \in Cashier \cup {Null}, s \in Sale, as \in Reversed,
       named \in Shift \cup {Null} :
        /\ req[t] = AskReversal(by, s, as, named)
        /\ MayReverse(snap[t], by, s, named)
        /\ Reversible(snap[t].sale[s]) /\ snap[t].sale[s].cash
        /\ \E sh \in PayoutShifts(snap[t].shift, snap[t].sale[s].shift, named) :
             /\ Commit(t, PayoutWrites(s, sh))
             /\ sale' = [sale EXCEPT ![s].status = as, ![s].payoutShift = sh]
             /\ shift' = [shift EXCEPT ![sh].movements = Append(@, Payout(s))]
        /\ UNCHANGED lease

CommitReverseNoCash(t) ==
    \E by \in Cashier \cup {Null}, s \in Sale, as \in Reversed,
       named \in Shift \cup {Null} :
        /\ req[t] = AskReversal(by, s, as, named)
        /\ MayReverse(snap[t], by, s, named)
        /\ Reversible(snap[t].sale[s]) /\ ~snap[t].sale[s].cash
        /\ Commit(t, NoCashWrites(snap[t], s))
        /\ sale' = [sale EXCEPT ![s].status = as]
        /\ UNCHANGED << shift, lease >>

\* close computes the Z-read from the snapshot and flips the status.
CloseShift(t, sh, by) ==
    /\ Commit(t, CloseWrites(sh, shift[sh].cashier))
    /\ shift' = [shift EXCEPT ![sh].status = "CLOSED", ![sh].closedBy = by,
                              ![sh].zRead = ZReadOf(snap[t].shift, snap[t].sale, sh)]
    /\ UNCHANGED << sale, lease >>

CommitCloseOwn(t) ==
    \E c \in Cashier, sh \in Shift :
        /\ req[t] = AskCloseOwn(c)
        /\ OpenFor(snap[t].shift, sh, c)
        /\ ActiveLeasesOf(snap[t].lease, sh) = {}
        /\ CloseShift(t, sh, "cashier")

\* An admin's close does not look at leases and leaves them as they are.
CommitCloseById(t) ==
    \E sh \in Shift :
        /\ req[t] = AskCloseById(sh)
        /\ IsOpen(snap[t].shift, sh)
        /\ CloseShift(t, sh, "admin")

\* The terminal's leases under other login sessions, which issuing ends.
SupersededNone(leases, sh, tm, sid) == {}
Superseded(leases, sh, tm, sid) ==
    {l \in ActiveLeasesOf(leases, sh) : leases[l].terminal = tm /\ leases[l].sid # sid}

\* A terminal that already holds an active lease for this session is given it
\* back.
CommitIssueLease(t) ==
    \E c \in Cashier, tm \in Terminal, sid \in Session, sh \in Shift :
        LET held == {l \in ActiveLeasesOf(snap[t].lease, sh) :
                       snap[t].lease[l].terminal = tm /\ snap[t].lease[l].sid = sid}
            lost == Superseded(snap[t].lease, sh, tm, sid)
        IN  /\ req[t] = AskLease(c, tm, sid)
            /\ OpenFor(snap[t].shift, sh, c)
            /\ \E l \in IF held # {} THEN held
                      ELSE {m \in Lease : snap[t].lease[m].status = "NONE"} :
                 /\ Commit(t, LeaseWrites(sh, lost, {l} \ held))
                 /\ lease' = [m \in Lease |->
                      IF m \in lost THEN [lease[m] EXCEPT !.status = "INACTIVE"]
                      ELSE IF m \in {l} \ held
                      THEN [status |-> "ACTIVE", shift |-> sh, terminal |-> tm, sid |-> sid]
                      ELSE lease[m]]
            /\ UNCHANGED << shift, sale >>

CommitRelease(t) ==
    \E l \in Lease :
        /\ req[t] = AskRelease(l)
        /\ snap[t].lease[l].status # "NONE"
        /\ Commit(t, ReleaseWrites(l, snap[t].lease[l].shift))
        /\ lease' = [lease EXCEPT ![l].status = "INACTIVE"]
        /\ UNCHANGED << shift, sale >>

\* Upload while the shift is open; the cashier's own upload needs the lease to
\* be active, an admin's does not.
CommitSyncOpen(t) ==
    \E l \in Lease, s \in Sale, admin \in BOOLEAN :
        LET sh == snap[t].lease[l].shift IN
        /\ req[t] = AskSync(l, s, admin)
        /\ IsOpen(snap[t].shift, sh)
        /\ snap[t].lease[l].status \in IF admin THEN {"ACTIVE", "INACTIVE"} ELSE {"ACTIVE"}
        /\ snap[t].sale[s].status = "NONE"
        /\ Commit(t, SyncWrites(sh, l, s))
        /\ sale' = [sale EXCEPT ![s] = NewSale(shift[sh].cashier, sh, TRUE, FALSE)]
        /\ UNCHANGED << shift, lease >>

\* Only an admin uploads into a closed shift; its lateOfflineCount goes up.
CommitSyncLate(t) ==
    \E l \in Lease, s \in Sale :
        LET sh == snap[t].lease[l].shift IN
        /\ req[t] = AskSync(l, s, TRUE)
        /\ snap[t].lease[l].status # "NONE"
        /\ snap[t].shift[sh].status = "CLOSED"
        /\ snap[t].sale[s].status = "NONE"
        /\ Commit(t, SyncWrites(sh, l, s))
        /\ sale' = [sale EXCEPT ![s] = NewSale(shift[sh].cashier, sh, TRUE, TRUE)]
        /\ shift' = LateMark(shift, sh)
        /\ UNCHANGED lease

Rerun(t) == Retry(t, Current) /\ UNCHANGED docs
Refuse(t) == Abort(t) /\ UNCHANGED docs

Handle(t) ==
    \/ ArriveOpen(t) \/ ArriveSale(t) \/ ArriveOther(t)
    \/ CommitOpen(t) \/ CommitDrawer(t) \/ CommitSell(t)
    \/ CommitReverseForCash(t) \/ CommitReverseNoCash(t)
    \/ CommitCloseOwn(t) \/ CommitCloseById(t)
    \/ CommitIssueLease(t) \/ CommitRelease(t)
    \/ CommitSyncOpen(t) \/ CommitSyncLate(t)
    \/ Rerun(t) \/ Refuse(t)

Next == \E t \in Txn : Handle(t)

Spec == Init /\ [][Next]_vars

-----------------------------------------------------------------------------
\* Properties.  The invariants of CashLedger, over these documents.

\* The documents keep their schemas' shapes, and a running request reads a
\* database of them.
TypeOK == DocsOK /\ TxnOK(Database)

\* The requests a cashier reverses sale s with.
CashierReversal(c, s) ==
    {AskReversal(c, s, as, named) : as \in Reversed, named \in Shift \cup {Null}}

\* A cashier's reversal lands while the sale's shift is still open and is the
\* cashier's own, although visibleReversalSale only read that shift.
CashierReversesInOwnShift ==
    [][\A t \in Txn, c \in Cashier, s \in Sale :
         (req[t] \in CashierReversal(c, s) /\ sale'[s].status # sale[s].status
            /\ req'[t] = Idle)
         => sale[s].shift \in Shift /\ OpenFor(shift, sale[s].shift, c)]_vars

\* What a running request may rely on although its snapshot d is old: no
\* document goes back, ...
Grown(d) ==
    /\ \A sh \in Shift : d.shift[sh].status # "NONE" =>
         /\ shift[sh].status # "NONE" /\ shift[sh].cashier = d.shift[sh].cashier
         /\ d.shift[sh].status = "CLOSED" => shift[sh].status = "CLOSED"
    /\ \A s \in Sale : d.sale[s].status # "NONE" =>
         sale[s].status # "NONE" /\ sale[s].shift = d.sale[s].shift
    /\ \A l \in Lease : d.lease[l].status # "NONE" =>
         lease[l].status # "NONE" /\ lease[l].shift = d.lease[l].shift

\* ... documents nobody wrote since (m: those somebody did) are current, ...
Unchanged(d, m) ==
    /\ \A sh \in Shift \ m : d.shift[sh] = shift[sh]
    /\ \A s \in Sale \ m : d.sale[s] = sale[s]
    /\ \A l \in Lease \ m : d.lease[l] = lease[l]

\* ... and an open shift, or a cashier's index entry, nobody wrote stands for
\* all its sales, all its active leases, the cashier's open shift.
Locked(d, m) ==
    /\ \A sh \in Shift \ m : d.shift[sh].status = "OPEN" =>
         /\ \A s \in Sale : sh \in {d.sale[s].shift, sale[s].shift}
                            => d.sale[s] = sale[s]
         /\ \A l \in ActiveLeasesOf(lease, sh) : d.lease[l] = lease[l]
    /\ \A c \in Cashier \ m, sh \in Shift :
         OpenFor(shift, sh, c) => OpenFor(d.shift, sh, c)

\* Every read that an operation's guards or its Z-read depend on is, by the time
\* it commits, still what the documents say.
SnapshotsHold ==
    \A t \in Txn : Running(t) =>
        Grown(snap[t]) /\ Unchanged(snap[t], missed[t]) /\ Locked(snap[t], missed[t])

\* A snapshot was a state of the ledger: sales and leases refer to shifts that
\* exist and a terminal holds one active lease per shift in it.
Sound(d) ==
    /\ \A s \in Sale : \A sh \in Shift :
         d.sale[s].shift = sh => d.shift[sh].status # "NONE"
    /\ \A sh \in Shift : \A l, m \in ActiveLeasesOf(d.lease, sh) :
         d.lease[l].terminal = d.lease[m].terminal => l = m
    /\ \A l \in Lease : d.lease[l].status # "NONE" => d.lease[l].shift \in Shift

\* Every running request reads such a snapshot.
SnapshotsSound == \A t \in Txn : Running(t) => Sound(snap[t])

\* Transactions that interleave leave the documents as if each had run alone,
\* in the order of their commits: every commit is one step of CashLedger.
ImplementsCashLedger == LedgerSpec

\* The inductive invariant: documents, snapshots, and what ties them together.
Invariant == Consistent /\ TypeOK /\ SnapshotsHold /\ SnapshotsSound
=============================================================================
