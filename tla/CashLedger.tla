----------------------------- MODULE CashLedger -----------------------------
(***************************************************************************)
(* What the cash ledger promises: every operation on shifts, sales and     *)
(* offline leases happens in one step, on the current documents.  There    *)
(* are no transactions, no snapshots and no conflicts here; ShiftLedger,   *)
(* which models the code's transactions, is shown to implement this.       *)
(***************************************************************************)
EXTENDS ShiftDocs

VARIABLES shift, sale, lease

docs == << shift, sale, lease >>

LedgerInit ==
    /\ shift = [sh \in Shift |-> NoShiftDoc]
    /\ sale \in [Sale -> SaleDoc]
    /\ \A s \in Sale : IF s \in Legacy
                       THEN \E c \in Cashier, cash \in BOOLEAN :
                              sale[s] = NewSale(c, Null, cash, FALSE)
                       ELSE sale[s] = NoSaleDoc
    /\ lease = [l \in Lease |-> NoLeaseDoc]

OpenShift(c, sh) ==
    /\ \A other \in Shift : ~OpenFor(shift, other, c)
    /\ shift[sh].status = "NONE"
    /\ shift' = [shift EXCEPT ![sh] = NewShift(c)]
    /\ UNCHANGED << sale, lease >>

Drawer(c, sh) ==
    /\ OpenFor(shift, sh, c)
    /\ shift' = [shift EXCEPT ![sh].movements = Append(@, DrawerMove)]
    /\ UNCHANGED << sale, lease >>

Sell(c, sh, s, cash) ==
    /\ OpenFor(shift, sh, c)
    /\ sale[s].status = "NONE"
    /\ sale' = [sale EXCEPT ![s] = NewSale(c, sh, cash, FALSE)]
    /\ UNCHANGED << shift, lease >>

ReverseForCash(s, as, named) ==
    /\ Reversible(sale[s]) /\ sale[s].cash
    /\ \E sh \in PayoutShifts(shift, sale[s].shift, named) :
         /\ sale' = [sale EXCEPT ![s].status = as, ![s].payoutShift = sh]
         /\ shift' = [shift EXCEPT ![sh].movements = Append(@, Payout(s))]
    /\ UNCHANGED lease

ReverseNoCash(s, as) ==
    /\ Reversible(sale[s]) /\ ~sale[s].cash
    /\ sale' = [sale EXCEPT ![s].status = as]
    /\ UNCHANGED << shift, lease >>

Close(sh, by) ==
    /\ shift[sh].status = "OPEN"
    /\ by = "cashier" => ActiveLeasesOf(lease, sh) = {}
    /\ shift' = [shift EXCEPT ![sh].status = "CLOSED", ![sh].closedBy = by,
                              ![sh].zRead = ZReadOf(shift, sale, sh)]
    /\ UNCHANGED << sale, lease >>

\* A terminal that has a lease under another login session loses that one.
IssueLease(sh, l, terminal, sid) ==
    /\ shift[sh].status = "OPEN"
    /\ lease[l].status = "NONE"
    /\ \A m \in ActiveLeasesOf(lease, sh) :
         ~(lease[m].terminal = terminal /\ lease[m].sid = sid)
    /\ lease' = [m \in Lease |->
                   IF m = l
                   THEN [status |-> "ACTIVE", shift |-> sh,
                         terminal |-> terminal, sid |-> sid]
                   ELSE IF m \in ActiveLeasesOf(lease, sh) /\ lease[m].terminal = terminal
                   THEN [lease[m] EXCEPT !.status = "INACTIVE"]
                   ELSE lease[m]]
    /\ UNCHANGED << shift, sale >>

ReleaseLease(l) ==
    /\ lease[l].status # "NONE"
    /\ lease' = [lease EXCEPT ![l].status = "INACTIVE"]
    /\ UNCHANGED << shift, sale >>

\* A cash sale rung up offline under lease l is uploaded while its shift is
\* open.
SyncOpen(l, s) ==
    /\ lease[l].status # "NONE"
    /\ IsOpen(shift, lease[l].shift)
    /\ sale[s].status = "NONE"
    /\ sale' = [sale EXCEPT ![s] = NewSale(shift[lease[l].shift].cashier,
                                           lease[l].shift, TRUE, FALSE)]
    /\ UNCHANGED << shift, lease >>

\* An admin uploads it after the shift was closed: the stored Z-read stays as
\* it is and the sale is reported in the shift's offline addendum.
SyncLate(l, s) ==
    /\ lease[l].status # "NONE"
    /\ shift[lease[l].shift].status = "CLOSED"
    /\ sale[s].status = "NONE"
    /\ sale' = [sale EXCEPT ![s] = NewSale(shift[lease[l].shift].cashier,
                                           lease[l].shift, TRUE, TRUE)]
    /\ shift' = LateMark(shift, lease[l].shift)
    /\ UNCHANGED lease

LedgerNext ==
    \/ \E c \in Cashier, sh \in Shift : OpenShift(c, sh) \/ Drawer(c, sh)
    \/ \E c \in Cashier, sh \in Shift, s \in Sale, cash \in BOOLEAN :
         Sell(c, sh, s, cash)
    \/ \E s \in Sale, as \in Reversed :
         \/ \E named \in Shift \cup {Null} : ReverseForCash(s, as, named)
         \/ ReverseNoCash(s, as)
    \/ \E sh \in Shift, by \in {"cashier", "admin"} : Close(sh, by)
    \/ \E sh \in Shift, l \in Lease, terminal \in Terminal, sid \in Session :
         IssueLease(sh, l, terminal, sid)
    \/ \E l \in Lease : ReleaseLease(l)
    \/ \E l \in Lease, s \in Sale : SyncOpen(l, s) \/ SyncLate(l, s)

LedgerSpec == LedgerInit /\ [][LedgerNext]_docs

-----------------------------------------------------------------------------

\* The documents have the shape their schemas give them.
DocsOK ==
    /\ shift \in [Shift -> ShiftDoc]
    /\ sale  \in [Sale -> SaleDoc]
    /\ lease \in [Lease -> LeaseDoc]

\* A cashier has at most one open shift (the unique partial index, together
\* with the lookup in open).
OneOpenShift ==
    \A c \in Cashier : \A sh1, sh2 \in Shift :
        OpenFor(shift, sh1, c) /\ OpenFor(shift, sh2, c) => sh1 = sh2

\* The Z-read of a closed shift counts every sale rung into the shift and
\* every movement of its drawer, and no other: only sales uploaded after the
\* close are missing from it.
ZReadComplete ==
    \A sh \in Shift : shift[sh].status = "CLOSED" =>
        /\ shift[sh].zRead.sales =
             {s \in SalesOf(sale, sh) : ~sale[s].lateOffline}
        /\ shift[sh].zRead.movements = shift[sh].movements

PaysFor(sh, s) == {i \in DOMAIN shift[sh].movements :
                     shift[sh].movements[i] = Payout(s)}

\* In a closed shift's Z-read, the sales it reports voided or refunded are
\* those whose cash its own drawer paid back: a cash sale reversed after the
\* close stays in the figures and is paid from another drawer.
ZReadSettled ==
    \A sh \in Shift : shift[sh].status = "CLOSED" =>
        LET z == shift[sh].zRead IN
        \A s \in z.sales : sale[s].cash =>
            (s \in z.voids \cup z.refunds <=> PaysFor(sh, s) # {})

\* The net cash of a reversed sale leaves exactly one drawer, exactly once,
\* and the sale names that drawer; no other sale's cash is ever paid back.
PaidBackOnce ==
    \A s \in Sale :
        LET owed == sale[s].status \in Reversed /\ sale[s].cash IN
        /\ owed => sale[s].payoutShift \in Shift
        /\ \A sh \in Shift :
             IF owed /\ sale[s].payoutShift = sh
             THEN \E i \in DOMAIN shift[sh].movements : PaysFor(sh, s) = {i}
             ELSE PaysFor(sh, s) = {}

\* A sale that reached a shift after its close is announced by the shift's
\* offline addendum: lateOfflineCount is what makes withOfflineAddendum look.
LateSalesReported ==
    \A s \in Sale : sale[s].lateOffline =>
        /\ sale[s].shift \in Shift
        /\ shift[sale[s].shift].status = "CLOSED"
        /\ shift[sale[s].shift].addendum

\* A shift its cashier closed has no terminal left that could still ring up
\* offline sales into it, nor gets one later.
OwnCloseDrains ==
    \A sh \in Shift : shift[sh].status = "CLOSED" /\ shift[sh].closedBy = "cashier"
                       => ActiveLeasesOf(lease, sh) = {}

\* A terminal holds one active lease per shift: a new login session takes
\* over from the earlier one.
OneLeasePerTerminal ==
    \A sh \in Shift : \A l, m \in ActiveLeasesOf(lease, sh) :
        lease[l].terminal = lease[m].terminal => l = m

\* What the invariants above rest on: references lead to documents that
\* exist, a sale reversed while its own shift is open was paid by that shift,
\* and a sale not yet recorded leaves no trace.
References ==
    /\ \A s \in Sale : sale[s].status = "NONE" =>
         sale[s].shift = Null /\ sale[s].payoutShift = Null /\ ~sale[s].lateOffline
    /\ \A s \in Sale : \A sh \in Shift :
         sh \in {sale[s].shift, sale[s].payoutShift} => shift[sh].status # "NONE"
    /\ \A l \in Lease : lease[l].status # "NONE" =>
         lease[l].shift \in Shift /\ shift[lease[l].shift].status # "NONE"
    /\ \A s \in Sale : \A sh \in Shift :
         /\ shift[sh].status = "OPEN" /\ sale[s].shift = sh
         /\ sale[s].status \in Reversed /\ sale[s].cash
         => sale[s].payoutShift = sh

\* All of the above: the inductive invariant of the operations on shifts, sales
\* and leases.
Consistent ==
    /\ DocsOK
    /\ References
    /\ LateSalesReported
    /\ OneOpenShift
    /\ ZReadComplete
    /\ PaidBackOnce
    /\ ZReadSettled
    /\ OwnCloseDrains
    /\ OneLeasePerTerminal

KeepsClosed ==
    \A sh \in Shift : shift[sh].status = "CLOSED" =>
        shift'[sh] = [shift[sh] EXCEPT
                        !.addendum = shift[sh].addendum \/ shift'[sh].addendum]

KeepsReversed ==
    \A s \in Sale : sale[s].status \in Reversed => sale'[s] = sale[s]

\* No operation changes a closed shift or its stored Z-read; only late offline
\* sales leave their mark (every write to a shift is filtered on status OPEN).
ClosedIsFinal   == [][KeepsClosed]_docs

\* A voided or refunded sale is never written again: reverse claims the sale
\* with a filter that excludes reversed ones.
ReversedIsFinal == [][KeepsReversed]_docs
=============================================================================
