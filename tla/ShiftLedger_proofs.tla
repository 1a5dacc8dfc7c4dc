------------------------- MODULE ShiftLedger_proofs -------------------------
(***************************************************************************)
(* Concurrent transactions on the cash ledger are serializable in the      *)
(* order of their commits: ShiftLedger implements CashLedger, whatever the *)
(* number of requests, cashiers, shifts, sales, leases and terminals.      *)
(*                                                                         *)
(* A request's snapshot may be old.  The argument is what each operation   *)
(* writes: it always writes the open shift (and the cashier's index entry) *)
(* whose sales, leases or openness it changes.  So a snapshot's open shift *)
(* that nobody wrote since is current, together with everything the code   *)
(* reads of it without writing (SnapshotsHold).                            *)
(*                                                                         *)
(* The first part is about CashLedger alone: what its atomic steps keep    *)
(* (Consistent).  The second shows that the code's steps are such steps.   *)
(***************************************************************************)
EXTENDS ShiftLedger, TLAPS

USE NullAssumption

-----------------------------------------------------------------------------
\* The atomic ledger

\* The documents an operation inserts are well formed.
LEMMA NewDocs ==
    /\ NoShiftDoc \in ShiftDoc /\ NoSaleDoc \in SaleDoc /\ NoLeaseDoc \in LeaseDoc
    /\ \A c \in Cashier : NewShift(c) \in ShiftDoc
    /\ \A c \in Cashier \cup {Null}, sh \in Shift \cup {Null},
          cash \in BOOLEAN, late \in BOOLEAN : NewSale(c, sh, cash, late) \in SaleDoc
  <1>1. << >> \in Seq(Movement)
    OBVIOUS
  <1>2. NoZRead \in ZReads
    BY <1>1 DEF NoZRead, ZReads
  <1>3. QED
    BY <1>1, <1>2 DEF NoShiftDoc, NoSaleDoc, NoLeaseDoc, NewShift, NewSale, ShiftDoc,
                      SaleDoc, LeaseDoc, Reversed

\* A Z-read of well-formed documents is well formed.
LEMMA ZReadType ==
    ASSUME DocsOK, NEW sh \in Shift
    PROVE  ZReadOf(shift, sale, sh) \in ZReads
  BY DEF DocsOK, ShiftDoc, ZReads, ZReadOf, SalesOf

LEMMA MovementType ==
    /\ DrawerMove \in Movement
    /\ \A s \in Sale : Payout(s) \in Movement /\ Payout(s) # DrawerMove
  BY DEF Movement, DrawerMove, Payout

\* What an update of one field leaves of a document.
LEMMA MovementEdit ==
    ASSUME NEW d \in ShiftDoc, NEW m \in Movement
    PROVE  [d EXCEPT !.movements = Append(d.movements, m)] \in ShiftDoc
  <1>1. Append(d.movements, m) \in Seq(Movement)
    BY DEF ShiftDoc
  <1>2. QED
    BY <1>1 DEF ShiftDoc

LEMMA CloseEdit ==
    ASSUME NEW d \in ShiftDoc, NEW z \in ZReads, NEW by \in {"cashier", "admin"}
    PROVE  [d EXCEPT !.status = "CLOSED", !.closedBy = by, !.zRead = z] \in ShiftDoc
  BY DEF ShiftDoc

LEMMA AddendumEdit ==
    ASSUME NEW d \in ShiftDoc
    PROVE  [d EXCEPT !.addendum = TRUE] \in ShiftDoc
  BY DEF ShiftDoc

LEMMA StatusEdit ==
    ASSUME NEW d \in SaleDoc, NEW as \in Reversed
    PROVE  [d EXCEPT !.status = as] \in SaleDoc
  BY DEF SaleDoc

LEMMA PayoutEdit ==
    ASSUME NEW d \in SaleDoc, NEW as \in Reversed, NEW sh \in Shift
    PROVE  [d EXCEPT !.status = as, !.payoutShift = sh] \in SaleDoc
  BY DEF SaleDoc

LEMMA LeaseEdit ==
    ASSUME NEW d \in LeaseDoc
    PROVE  [d EXCEPT !.status = "INACTIVE"] \in LeaseDoc
  BY DEF LeaseDoc

\* What a reversal does: it marks one sale, leaves every sale in its shift, and
\* touches no shift but an open one, whose movements alone it changes.
Marks(s, as) ==
    /\ \A x \in Sale : /\ sale'[x].shift = sale[x].shift
                       /\ sale'[x].cash = sale[x].cash
                       /\ sale'[x].lateOffline = sale[x].lateOffline
                       /\ (sale'[x].status = "NONE") = (sale[x].status = "NONE")
    /\ \A x \in Sale \ {s} : sale'[x] = sale[x]
    /\ sale[s].status = "COMPLETED" /\ sale'[s].status = as
    /\ \A sh \in Shift : /\ shift'[sh].status = shift[sh].status
                         /\ shift'[sh].cashier = shift[sh].cashier
                         /\ shift'[sh].zRead = shift[sh].zRead
                         /\ shift'[sh].closedBy = shift[sh].closedBy
                         /\ shift'[sh].addendum = shift[sh].addendum
                         /\ shift[sh].status # "OPEN" => shift'[sh] = shift[sh]
    /\ lease' = lease

LEMMA CashMarks ==
    ASSUME DocsOK, NEW s \in Sale, NEW as \in Reversed, NEW named \in Shift \cup {Null},
           ReverseForCash(s, as, named)
    PROVE  Marks(s, as)
  <1>0. sale[s] \in SaleDoc
    BY DEF DocsOK
  <1>1. PICK paying \in PayoutShifts(shift, sale[s].shift, named) :
          /\ sale' = [sale EXCEPT ![s].status = as, ![s].payoutShift = paying]
          /\ shift' = [shift EXCEPT ![paying].movements = Append(@, Payout(s))]
    BY DEF ReverseForCash
  <1>2. paying \in Shift /\ shift[paying].status = "OPEN"
    BY DEF PayoutShifts, IsOpen
  <1>3. sale[s].status = "COMPLETED" /\ lease' = lease
    BY <1>0 DEF ReverseForCash, Reversible, SaleDoc
  <1>4. /\ sale'[s] = [sale[s] EXCEPT !.status = as, !.payoutShift = paying]
        /\ \A x \in Sale \ {s} : sale'[x] = sale[x]
    BY <1>1 DEF DocsOK
  <1>5. /\ shift'[paying] = [shift[paying] EXCEPT !.movements = Append(@, Payout(s))]
        /\ \A sh \in Shift \ {paying} : shift'[sh] = shift[sh]
    BY <1>1, <1>2 DEF DocsOK
  <1>6. shift[paying] \in ShiftDoc
    BY <1>2 DEF DocsOK
  <1>7. \A x \in Sale : /\ sale'[x].shift = sale[x].shift
                        /\ sale'[x].cash = sale[x].cash
                        /\ sale'[x].lateOffline = sale[x].lateOffline
    BY <1>0, <1>4 DEF SaleDoc
  <1>8. sale'[s].status = as
    BY <1>0, <1>4 DEF SaleDoc
  <1>9. \A sh \in Shift : /\ shift'[sh].status = shift[sh].status
                          /\ shift'[sh].cashier = shift[sh].cashier
                          /\ shift'[sh].zRead = shift[sh].zRead
                          /\ shift'[sh].closedBy = shift[sh].closedBy
                          /\ shift'[sh].addendum = shift[sh].addendum
                          /\ shift[sh].status # "OPEN" => shift'[sh] = shift[sh]
    BY <1>2, <1>5, <1>6 DEF ShiftDoc
  <1>10. \A x \in Sale : (sale'[x].status = "NONE") = (sale[x].status = "NONE")
    BY <1>3, <1>4, <1>8 DEF Reversed
  <1>11. QED
    BY <1>3, <1>4, <1>7, <1>8, <1>9, <1>10 DEF Marks

LEMMA NoCashMarks ==
    ASSUME DocsOK, NEW s \in Sale, NEW as \in Reversed, ReverseNoCash(s, as)
    PROVE  Marks(s, as)
  <1>0. sale[s] \in SaleDoc
    BY DEF DocsOK
  <1>1. /\ sale'[s] = [sale[s] EXCEPT !.status = as]
        /\ \A x \in Sale \ {s} : sale'[x] = sale[x]
        /\ sale[s].status = "COMPLETED" /\ shift' = shift /\ lease' = lease
    BY <1>0 DEF ReverseNoCash, Reversible, DocsOK, SaleDoc
  <1>2. sale'[s].status = as /\ as # "NONE"
    BY <1>0, <1>1 DEF SaleDoc, Reversed
  <1>3. QED
    BY <1>0, <1>1, <1>2 DEF Marks, SaleDoc

LEMMA InitConsistent == LedgerInit => Consistent
  <1> SUFFICES ASSUME LedgerInit PROVE Consistent
    OBVIOUS
  <1>0. \A s \in Sale : /\ sale[s].shift = Null /\ sale[s].payoutShift = Null
                        /\ sale[s].status \in {"NONE", "COMPLETED"}
                        /\ ~sale[s].lateOffline
    BY DEF LedgerInit, NewSale, NoSaleDoc
  <1>1. DocsOK
    BY NewDocs DEF LedgerInit, DocsOK
  <1>2. References
    BY <1>0 DEF LedgerInit, References, Reversed, NewSale, NoLeaseDoc, NoShiftDoc, NewShift
  <1>3. LateSalesReported /\ OneOpenShift /\ ZReadComplete /\ ZReadSettled
        /\ OwnCloseDrains /\ OneLeasePerTerminal
    BY <1>0 DEF LedgerInit, LateSalesReported, OneOpenShift, ZReadComplete, ZReadSettled,
                OwnCloseDrains, OneLeasePerTerminal, ActiveLeasesOf, OpenFor,
                NoShiftDoc, NewShift, NoLeaseDoc
  <1>4. PaidBackOnce
    BY <1>0 DEF LedgerInit, PaidBackOnce, PaysFor, Reversed, NoShiftDoc, NewShift
  <1>5. QED
    BY <1>1, <1>2, <1>3, <1>4 DEF Consistent

\* Every operation keeps the documents well formed.
LEMMA TypeStep ==
    ASSUME DocsOK, References, LedgerNext
    PROVE  DocsOK'
  <1>1. ASSUME NEW c \in Cashier, NEW sh \in Shift, OpenShift(c, sh)
        PROVE  DocsOK'
    BY <1>1, NewDocs DEF DocsOK, OpenShift
  <1>2. ASSUME NEW c \in Cashier, NEW sh \in Shift, Drawer(c, sh)
        PROVE  DocsOK'
    BY <1>2, MovementEdit, MovementType DEF DocsOK, Drawer
  <1>3. ASSUME NEW c \in Cashier, NEW sh \in Shift, NEW s \in Sale, NEW cash \in BOOLEAN,
               Sell(c, sh, s, cash)
        PROVE  DocsOK'
    BY <1>3, NewDocs DEF DocsOK, Sell
  <1>4. ASSUME NEW s \in Sale, NEW as \in Reversed, NEW named \in Shift \cup {Null},
               ReverseForCash(s, as, named)
        PROVE  DocsOK'
    <2>1. PICK paying \in PayoutShifts(shift, sale[s].shift, named) :
            /\ sale' = [sale EXCEPT ![s].status = as, ![s].payoutShift = paying]
            /\ shift' = [shift EXCEPT ![paying].movements = Append(@, Payout(s))]
      BY <1>4 DEF ReverseForCash
    <2>2. paying \in Shift
      BY DEF PayoutShifts, IsOpen
    <2>3. sale' \in [Sale -> SaleDoc]
      BY <2>1, <2>2, PayoutEdit DEF DocsOK
    <2>4. shift' \in [Shift -> ShiftDoc]
      BY <2>1, <2>2, MovementEdit, MovementType DEF DocsOK
    <2>5. QED
      BY <1>4, <2>3, <2>4 DEF DocsOK, ReverseForCash
  <1>5. ASSUME NEW s \in Sale, NEW as \in Reversed, ReverseNoCash(s, as)
        PROVE  DocsOK'
    BY <1>5, StatusEdit DEF DocsOK, ReverseNoCash
  <1>6. ASSUME NEW sh \in Shift, NEW by \in {"cashier", "admin"}, Close(sh, by)
        PROVE  DocsOK'
    BY <1>6, CloseEdit, ZReadType DEF DocsOK, Close
  <1>7. ASSUME NEW sh \in Shift, NEW l \in Lease, NEW terminal \in Terminal,
               NEW sid \in Session, IssueLease(sh, l, terminal, sid)
        PROVE  DocsOK'
    <2>1. [status |-> "ACTIVE", shift |-> sh, terminal |-> terminal, sid |-> sid]
            \in LeaseDoc
      BY DEF LeaseDoc
    <2>2. QED
      BY <1>7, <2>1, LeaseEdit DEF DocsOK, IssueLease
  <1>8. ASSUME NEW l \in Lease, ReleaseLease(l)
        PROVE  DocsOK'
    BY <1>8, LeaseEdit DEF DocsOK, ReleaseLease
  <1>9. ASSUME NEW l \in Lease, NEW s \in Sale, SyncOpen(l, s)
        PROVE  DocsOK'
    BY <1>9, NewDocs DEF DocsOK, SyncOpen, IsOpen, ShiftDoc
  <1>10. ASSUME NEW l \in Lease, NEW s \in Sale, SyncLate(l, s)
        PROVE  DocsOK'
    <2>1. lease[l].shift \in Shift
      BY <1>10 DEF SyncLate, LateMark, References
    <2>2. shift[lease[l].shift].cashier \in Cashier \cup {Null}
      BY <2>1 DEF DocsOK, ShiftDoc
    <2>3. QED
      BY <1>10, <2>1, <2>2, NewDocs, AddendumEdit DEF DocsOK, SyncLate, LateMark
  <1>11. QED
    BY <1>1, <1>2, <1>3, <1>4, <1>5, <1>6, <1>7, <1>8, <1>9, <1>10 DEF LedgerNext

\* Every operation keeps references intact.
LEMMA ReferencesStep ==
    ASSUME DocsOK, References, DocsOK', LedgerNext
    PROVE  References'
  <1>1. ASSUME NEW c \in Cashier, NEW sh \in Shift, OpenShift(c, sh)
        PROVE  References'
    BY <1>1 DEF DocsOK, OpenShift, References, NoSaleDoc, ShiftDoc, SaleDoc,
       Reversed, NewShift
  <1>2. ASSUME NEW c \in Cashier, NEW sh \in Shift, Drawer(c, sh)
        PROVE  References'
    BY <1>2 DEF DocsOK, Drawer, References, NoSaleDoc, ShiftDoc, SaleDoc, Reversed,
       OpenFor
  <1>3. ASSUME NEW c \in Cashier, NEW sh \in Shift, NEW s \in Sale, NEW cash \in BOOLEAN,
               Sell(c, sh, s, cash)
        PROVE  References'
    BY <1>3 DEF DocsOK, Sell, References, NoSaleDoc, ShiftDoc, SaleDoc, Reversed,
       OpenFor, NewSale
  <1>4. ASSUME NEW s \in Sale, NEW as \in Reversed, NEW named \in Shift \cup {Null},
               ReverseForCash(s, as, named)
        PROVE  References'
    <2>1. PICK paying \in PayoutShifts(shift, sale[s].shift, named) :
            sale' = [sale EXCEPT ![s].status = as, ![s].payoutShift = paying]
      BY <1>4 DEF ReverseForCash
    <2>2. /\ paying \in Shift /\ shift[paying].status = "OPEN"
          /\ \A sh \in Shift : sale[s].shift = sh /\ shift[sh].status = "OPEN"
                               => paying = sh
      BY DEF PayoutShifts, IsOpen
    <2>3. /\ sale'[s].payoutShift = paying
          /\ \A x \in Sale : sale[x] \in SaleDoc
      BY <2>1 DEF DocsOK, SaleDoc
    <2>4. Marks(s, as)
      BY <1>4, CashMarks
    <2>5. \A x \in Sale : sale'[x].status = "NONE" =>
            sale'[x].shift = Null /\ sale'[x].payoutShift = Null /\ ~sale'[x].lateOffline
      BY <2>4 DEF References, Marks
    <2>6. \A x \in Sale, sh \in Shift :
            sh \in {sale'[x].shift, sale'[x].payoutShift} => shift'[sh].status # "NONE"
      BY <2>2, <2>3, <2>4 DEF References, Marks
    <2>7. \A x \in Sale, sh \in Shift :
            /\ shift'[sh].status = "OPEN" /\ sale'[x].shift = sh
            /\ sale'[x].status \in Reversed /\ sale'[x].cash
            => sale'[x].payoutShift = sh
      BY <2>2, <2>3, <2>4 DEF References, Marks
    <2>8. QED
      BY <2>4, <2>5, <2>6, <2>7 DEF References, Marks
  <1>5. ASSUME NEW s \in Sale, NEW as \in Reversed, ReverseNoCash(s, as)
        PROVE  References'
    <2>1. sale'[s].payoutShift = sale[s].payoutShift /\ ~sale[s].cash
      BY <1>5 DEF ReverseNoCash, DocsOK, SaleDoc
    <2>2. Marks(s, as)
      BY <1>5, NoCashMarks
    <2>3. \A x \in Sale : sale'[x].status = "NONE" =>
            sale'[x].shift = Null /\ sale'[x].payoutShift = Null /\ ~sale'[x].lateOffline
      BY <2>1, <2>2 DEF References, Marks
    <2>4. \A x \in Sale, sh \in Shift :
            sh \in {sale'[x].shift, sale'[x].payoutShift} => shift'[sh].status # "NONE"
      BY <2>1, <2>2 DEF References, Marks
    <2>5. \A x \in Sale, sh \in Shift :
            /\ shift'[sh].status = "OPEN" /\ sale'[x].shift = sh
            /\ sale'[x].status \in Reversed /\ sale'[x].cash
            => sale'[x].payoutShift = sh
      BY <2>1, <2>2 DEF References, Marks
    <2>6. QED
      BY <2>2, <2>3, <2>4, <2>5 DEF References, Marks
  <1>6. ASSUME NEW sh \in Shift, NEW by \in {"cashier", "admin"}, Close(sh, by)
        PROVE  References'
    BY <1>6 DEF DocsOK, Close, References, NoSaleDoc, ShiftDoc, SaleDoc, Reversed
  <1>7. ASSUME NEW sh \in Shift, NEW l \in Lease, NEW terminal \in Terminal,
               NEW sid \in Session, IssueLease(sh, l, terminal, sid)
        PROVE  References'
    BY <1>7 DEF DocsOK, IssueLease, References, NoSaleDoc, ShiftDoc, SaleDoc,
       Reversed, ActiveLeasesOf
  <1>8. ASSUME NEW l \in Lease, ReleaseLease(l)
        PROVE  References'
    BY <1>8 DEF DocsOK, ReleaseLease, References, NoSaleDoc, ShiftDoc, SaleDoc,
       Reversed
  <1>9. ASSUME NEW l \in Lease, NEW s \in Sale, SyncOpen(l, s)
        PROVE  References'
    BY <1>9 DEF DocsOK, SyncOpen, References, NoSaleDoc, ShiftDoc, SaleDoc,
       Reversed, IsOpen, NewSale
  <1>10. ASSUME NEW l \in Lease, NEW s \in Sale, SyncLate(l, s)
        PROVE  References'
    BY <1>10 DEF DocsOK, SyncLate, LateMark, References, NoSaleDoc, ShiftDoc, SaleDoc,
       Reversed, NewSale
  <1>11. QED
    BY <1>1, <1>2, <1>3, <1>4, <1>5, <1>6, <1>7, <1>8, <1>9, <1>10 DEF LedgerNext

\* Late sales stay announced.
LEMMA LateStep ==
    ASSUME DocsOK, References, LateSalesReported, LedgerNext
    PROVE  LateSalesReported'
  <1>1. ASSUME NEW c \in Cashier, NEW sh \in Shift, OpenShift(c, sh)
        PROVE  LateSalesReported'
    BY <1>1 DEF DocsOK, OpenShift, References, LateSalesReported, ShiftDoc, SaleDoc,
       NoSaleDoc, NewShift
  <1>2. ASSUME NEW c \in Cashier, NEW sh \in Shift, Drawer(c, sh)
        PROVE  LateSalesReported'
    BY <1>2 DEF DocsOK, Drawer, References, LateSalesReported, ShiftDoc, SaleDoc,
       NoSaleDoc, OpenFor
  <1>3. ASSUME NEW c \in Cashier, NEW sh \in Shift, NEW s \in Sale, NEW cash \in BOOLEAN,
               Sell(c, sh, s, cash)
        PROVE  LateSalesReported'
    BY <1>3 DEF DocsOK, Sell, References, LateSalesReported, ShiftDoc, SaleDoc,
       NoSaleDoc, OpenFor, NewSale
  <1>4. ASSUME NEW s \in Sale, NEW as \in Reversed, NEW named \in Shift \cup {Null},
               ReverseForCash(s, as, named)
        PROVE  LateSalesReported'
    BY <1>4 DEF DocsOK, ReverseForCash, References, LateSalesReported, ShiftDoc,
       SaleDoc, NoSaleDoc, PayoutShifts, IsOpen, Reversible
  <1>5. ASSUME NEW s \in Sale, NEW as \in Reversed, ReverseNoCash(s, as)
        PROVE  LateSalesReported'
    BY <1>5 DEF DocsOK, ReverseNoCash, References, LateSalesReported, ShiftDoc,
       SaleDoc, NoSaleDoc, Reversible
  <1>6. ASSUME NEW sh \in Shift, NEW by \in {"cashier", "admin"}, Close(sh, by)
        PROVE  LateSalesReported'
    BY <1>6 DEF DocsOK, Close, References, LateSalesReported, ShiftDoc, SaleDoc,
       NoSaleDoc
  <1>7. ASSUME NEW sh \in Shift, NEW l \in Lease, NEW terminal \in Terminal,
               NEW sid \in Session, IssueLease(sh, l, terminal, sid)
        PROVE  LateSalesReported'
    BY <1>7 DEF DocsOK, IssueLease, References, LateSalesReported, ShiftDoc,
       SaleDoc, NoSaleDoc, ActiveLeasesOf
  <1>8. ASSUME NEW l \in Lease, ReleaseLease(l)
        PROVE  LateSalesReported'
    BY <1>8 DEF DocsOK, ReleaseLease, References, LateSalesReported, ShiftDoc,
       SaleDoc, NoSaleDoc
  <1>9. ASSUME NEW l \in Lease, NEW s \in Sale, SyncOpen(l, s)
        PROVE  LateSalesReported'
    BY <1>9 DEF DocsOK, SyncOpen, References, LateSalesReported, ShiftDoc, SaleDoc,
       NoSaleDoc, IsOpen, NewSale
  <1>10. ASSUME NEW l \in Lease, NEW s \in Sale, SyncLate(l, s)
        PROVE  LateSalesReported'
    BY <1>10 DEF DocsOK, SyncLate, LateMark, References, LateSalesReported, ShiftDoc, SaleDoc,
       NoSaleDoc, NewSale
  <1>11. QED
    BY <1>1, <1>2, <1>3, <1>4, <1>5, <1>6, <1>7, <1>8, <1>9, <1>10 DEF LedgerNext

\* A cashier's second shift opens only after the first closed.
LEMMA OneOpenStep ==
    ASSUME DocsOK, OneOpenShift, LedgerNext
    PROVE  OneOpenShift'
  <1>1. ASSUME NEW c \in Cashier, NEW sh \in Shift, OpenShift(c, sh)
        PROVE  OneOpenShift'
    BY <1>1 DEF DocsOK, OpenShift, OneOpenShift, OpenFor, ShiftDoc, NewShift
  <1>2. ASSUME NEW c \in Cashier, NEW sh \in Shift, Drawer(c, sh)
        PROVE  OneOpenShift'
    BY <1>2 DEF DocsOK, Drawer, OneOpenShift, OpenFor, ShiftDoc
  <1>3. ASSUME NEW c \in Cashier, NEW sh \in Shift, NEW s \in Sale, NEW cash \in BOOLEAN,
               Sell(c, sh, s, cash)
        PROVE  OneOpenShift'
    BY <1>3 DEF DocsOK, Sell, OneOpenShift, OpenFor, ShiftDoc, NewSale
  <1>4. ASSUME NEW s \in Sale, NEW as \in Reversed, NEW named \in Shift \cup {Null},
               ReverseForCash(s, as, named)
        PROVE  OneOpenShift'
    BY <1>4 DEF DocsOK, ReverseForCash, OneOpenShift, OpenFor, ShiftDoc,
       PayoutShifts, IsOpen, Reversible
  <1>5. ASSUME NEW s \in Sale, NEW as \in Reversed, ReverseNoCash(s, as)
        PROVE  OneOpenShift'
    BY <1>5 DEF DocsOK, ReverseNoCash, OneOpenShift, OpenFor, ShiftDoc, Reversible
  <1>6. ASSUME NEW sh \in Shift, NEW by \in {"cashier", "admin"}, Close(sh, by)
        PROVE  OneOpenShift'
    BY <1>6 DEF DocsOK, Close, OneOpenShift, OpenFor, ShiftDoc
  <1>7. ASSUME NEW sh \in Shift, NEW l \in Lease, NEW terminal \in Terminal,
               NEW sid \in Session, IssueLease(sh, l, terminal, sid)
        PROVE  OneOpenShift'
    BY <1>7 DEF DocsOK, IssueLease, OneOpenShift, OpenFor, ShiftDoc, ActiveLeasesOf
  <1>8. ASSUME NEW l \in Lease, ReleaseLease(l)
        PROVE  OneOpenShift'
    BY <1>8 DEF DocsOK, ReleaseLease, OneOpenShift, OpenFor, ShiftDoc
  <1>9. ASSUME NEW l \in Lease, NEW s \in Sale, SyncOpen(l, s)
        PROVE  OneOpenShift'
    BY <1>9 DEF DocsOK, SyncOpen, OneOpenShift, OpenFor, ShiftDoc, IsOpen, NewSale
  <1>10. ASSUME NEW l \in Lease, NEW s \in Sale, SyncLate(l, s)
        PROVE  OneOpenShift'
    BY <1>10 DEF DocsOK, SyncLate, LateMark, OneOpenShift, OpenFor, ShiftDoc, NewSale
  <1>11. QED
    BY <1>1, <1>2, <1>3, <1>4, <1>5, <1>6, <1>7, <1>8, <1>9, <1>10 DEF LedgerNext

\* A Z-read keeps counting all but the late sales.
LEMMA ZReadStep ==
    ASSUME DocsOK, References, LateSalesReported, ZReadComplete, LedgerNext
    PROVE  ZReadComplete'
  <1>1. ASSUME NEW c \in Cashier, NEW sh \in Shift, OpenShift(c, sh)
        PROVE  ZReadComplete'
    BY <1>1 DEF DocsOK, OpenShift, References, LateSalesReported, ZReadComplete,
       SalesOf, ZReadOf, ShiftDoc, SaleDoc, Reversed, NoSaleDoc, NewShift
  <1>2. ASSUME NEW c \in Cashier, NEW sh \in Shift, Drawer(c, sh)
        PROVE  ZReadComplete'
    BY <1>2 DEF DocsOK, Drawer, References, LateSalesReported, ZReadComplete,
       SalesOf, ZReadOf, ShiftDoc, SaleDoc, Reversed, NoSaleDoc, OpenFor
  <1>3. ASSUME NEW c \in Cashier, NEW sh \in Shift, NEW s \in Sale, NEW cash \in BOOLEAN,
               Sell(c, sh, s, cash)
        PROVE  ZReadComplete'
    BY <1>3 DEF DocsOK, Sell, References, LateSalesReported, ZReadComplete, SalesOf,
       ZReadOf, ShiftDoc, SaleDoc, Reversed, NoSaleDoc, OpenFor, NewSale
  <1>4. ASSUME NEW s \in Sale, NEW as \in Reversed, NEW named \in Shift \cup {Null},
               ReverseForCash(s, as, named)
        PROVE  ZReadComplete'
    <2>1. Marks(s, as)
      BY <1>4, CashMarks
    <2>2. \A sh \in Shift : SalesOf(sale, sh)' = SalesOf(sale, sh)
      BY <2>1 DEF Marks, SalesOf
    <2>3. \A sh \in Shift : {x \in SalesOf(sale, sh) : ~sale[x].lateOffline}'
                           = {x \in SalesOf(sale, sh) : ~sale[x].lateOffline}
      BY <2>1, <2>2 DEF Marks, SalesOf
    <2>4. QED
      BY <2>1, <2>3 DEF Marks, ZReadComplete
  <1>5. ASSUME NEW s \in Sale, NEW as \in Reversed, ReverseNoCash(s, as)
        PROVE  ZReadComplete'
    <2>1. Marks(s, as)
      BY <1>5, NoCashMarks
    <2>2. \A sh \in Shift : SalesOf(sale, sh)' = SalesOf(sale, sh)
      BY <2>1 DEF Marks, SalesOf
    <2>3. \A sh \in Shift : {x \in SalesOf(sale, sh) : ~sale[x].lateOffline}'
                           = {x \in SalesOf(sale, sh) : ~sale[x].lateOffline}
      BY <2>1, <2>2 DEF Marks, SalesOf
    <2>4. QED
      BY <2>1, <2>3 DEF Marks, ZReadComplete
  <1>6. ASSUME NEW sh \in Shift, NEW by \in {"cashier", "admin"}, Close(sh, by)
        PROVE  ZReadComplete'
    BY <1>6 DEF DocsOK, Close, References, LateSalesReported, ZReadComplete,
       SalesOf, ZReadOf, ShiftDoc, SaleDoc, Reversed, NoSaleDoc
  <1>7. ASSUME NEW sh \in Shift, NEW l \in Lease, NEW terminal \in Terminal,
               NEW sid \in Session, IssueLease(sh, l, terminal, sid)
        PROVE  ZReadComplete'
    BY <1>7 DEF DocsOK, IssueLease, References, LateSalesReported, ZReadComplete,
       SalesOf, ZReadOf, ShiftDoc, SaleDoc, Reversed, NoSaleDoc, ActiveLeasesOf
  <1>8. ASSUME NEW l \in Lease, ReleaseLease(l)
        PROVE  ZReadComplete'
    BY <1>8 DEF DocsOK, ReleaseLease, References, LateSalesReported, ZReadComplete,
       SalesOf, ZReadOf, ShiftDoc, SaleDoc, Reversed, NoSaleDoc
  <1>9. ASSUME NEW l \in Lease, NEW s \in Sale, SyncOpen(l, s)
        PROVE  ZReadComplete'
    BY <1>9 DEF DocsOK, SyncOpen, References, LateSalesReported, ZReadComplete,
       SalesOf, ZReadOf, ShiftDoc, SaleDoc, Reversed, NoSaleDoc, IsOpen, NewSale
  <1>10. ASSUME NEW l \in Lease, NEW s \in Sale, SyncLate(l, s)
        PROVE  ZReadComplete'
    BY <1>10 DEF DocsOK, SyncLate, LateMark, References, LateSalesReported, ZReadComplete,
       SalesOf, ZReadOf, ShiftDoc, SaleDoc, Reversed, NoSaleDoc, NewSale
  <1>11. QED
    BY <1>1, <1>2, <1>3, <1>4, <1>5, <1>6, <1>7, <1>8, <1>9, <1>10 DEF LedgerNext

\* Leases are issued only into open shifts.
LEMMA DrainsStep ==
    ASSUME DocsOK, References, OwnCloseDrains, LedgerNext
    PROVE  OwnCloseDrains'
  <1>1. ASSUME NEW c \in Cashier, NEW sh \in Shift, OpenShift(c, sh)
        PROVE  OwnCloseDrains'
    BY <1>1 DEF DocsOK, OpenShift, OwnCloseDrains, ActiveLeasesOf, References,
       ShiftDoc, LeaseDoc, NewShift
  <1>2. ASSUME NEW c \in Cashier, NEW sh \in Shift, Drawer(c, sh)
        PROVE  OwnCloseDrains'
    BY <1>2 DEF DocsOK, Drawer, OwnCloseDrains, ActiveLeasesOf, References,
       ShiftDoc, LeaseDoc, OpenFor
  <1>3. ASSUME NEW c \in Cashier, NEW sh \in Shift, NEW s \in Sale, NEW cash \in BOOLEAN,
               Sell(c, sh, s, cash)
        PROVE  OwnCloseDrains'
    BY <1>3 DEF DocsOK, Sell, OwnCloseDrains, ActiveLeasesOf, References, ShiftDoc,
       LeaseDoc, OpenFor, NewSale
  <1>4. ASSUME NEW s \in Sale, NEW as \in Reversed, NEW named \in Shift \cup {Null},
               ReverseForCash(s, as, named)
        PROVE  OwnCloseDrains'
    <2>1. Marks(s, as)
      BY <1>4, CashMarks
    <2>2. QED
      BY <2>1 DEF Marks, OwnCloseDrains, ActiveLeasesOf
  <1>5. ASSUME NEW s \in Sale, NEW as \in Reversed, ReverseNoCash(s, as)
        PROVE  OwnCloseDrains'
    <2>1. Marks(s, as)
      BY <1>5, NoCashMarks
    <2>2. QED
      BY <2>1 DEF Marks, OwnCloseDrains, ActiveLeasesOf
  <1>6. ASSUME NEW sh \in Shift, NEW by \in {"cashier", "admin"}, Close(sh, by)
        PROVE  OwnCloseDrains'
    BY <1>6 DEF DocsOK, Close, OwnCloseDrains, ActiveLeasesOf, References, ShiftDoc,
       LeaseDoc
  <1>7. ASSUME NEW sh \in Shift, NEW l \in Lease, NEW terminal \in Terminal,
               NEW sid \in Session, IssueLease(sh, l, terminal, sid)
        PROVE  OwnCloseDrains'
    BY <1>7 DEF DocsOK, IssueLease, OwnCloseDrains, ActiveLeasesOf, References,
       ShiftDoc, LeaseDoc
  <1>8. ASSUME NEW l \in Lease, ReleaseLease(l)
        PROVE  OwnCloseDrains'
    BY <1>8 DEF DocsOK, ReleaseLease, OwnCloseDrains, ActiveLeasesOf, References,
       ShiftDoc, LeaseDoc
  <1>9. ASSUME NEW l \in Lease, NEW s \in Sale, SyncOpen(l, s)
        PROVE  OwnCloseDrains'
    BY <1>9 DEF DocsOK, SyncOpen, OwnCloseDrains, ActiveLeasesOf, References,
       ShiftDoc, LeaseDoc, IsOpen, NewSale
  <1>10. ASSUME NEW l \in Lease, NEW s \in Sale, SyncLate(l, s)
        PROVE  OwnCloseDrains'
    BY <1>10 DEF DocsOK, SyncLate, LateMark, OwnCloseDrains, ActiveLeasesOf, References,
       ShiftDoc, LeaseDoc, NewSale
  <1>11. QED
    BY <1>1, <1>2, <1>3, <1>4, <1>5, <1>6, <1>7, <1>8, <1>9, <1>10 DEF LedgerNext

\* A new lease supersedes the terminal's earlier one.
LEMMA TerminalStep ==
    ASSUME DocsOK, OneLeasePerTerminal, LedgerNext
    PROVE  OneLeasePerTerminal'
  <1>1. ASSUME NEW c \in Cashier, NEW sh \in Shift, OpenShift(c, sh)
        PROVE  OneLeasePerTerminal'
    BY <1>1 DEF DocsOK, OpenShift, OneLeasePerTerminal, ActiveLeasesOf, LeaseDoc,
       NewShift
  <1>2. ASSUME NEW c \in Cashier, NEW sh \in Shift, Drawer(c, sh)
        PROVE  OneLeasePerTerminal'
    BY <1>2 DEF DocsOK, Drawer, OneLeasePerTerminal, ActiveLeasesOf, LeaseDoc,
       OpenFor
  <1>3. ASSUME NEW c \in Cashier, NEW sh \in Shift, NEW s \in Sale, NEW cash \in BOOLEAN,
               Sell(c, sh, s, cash)
        PROVE  OneLeasePerTerminal'
    BY <1>3 DEF DocsOK, Sell, OneLeasePerTerminal, ActiveLeasesOf, LeaseDoc,
       OpenFor, NewSale
  <1>4. ASSUME NEW s \in Sale, NEW as \in Reversed, NEW named \in Shift \cup {Null},
               ReverseForCash(s, as, named)
        PROVE  OneLeasePerTerminal'
    <2>1. Marks(s, as)
      BY <1>4, CashMarks
    <2>2. QED
      BY <2>1 DEF Marks, OneLeasePerTerminal, ActiveLeasesOf
  <1>5. ASSUME NEW s \in Sale, NEW as \in Reversed, ReverseNoCash(s, as)
        PROVE  OneLeasePerTerminal'
    <2>1. Marks(s, as)
      BY <1>5, NoCashMarks
    <2>2. QED
      BY <2>1 DEF Marks, OneLeasePerTerminal, ActiveLeasesOf
  <1>6. ASSUME NEW sh \in Shift, NEW by \in {"cashier", "admin"}, Close(sh, by)
        PROVE  OneLeasePerTerminal'
    BY <1>6 DEF DocsOK, Close, OneLeasePerTerminal, ActiveLeasesOf, LeaseDoc
  <1>7. ASSUME NEW sh \in Shift, NEW l \in Lease, NEW terminal \in Terminal,
               NEW sid \in Session, IssueLease(sh, l, terminal, sid)
        PROVE  OneLeasePerTerminal'
    BY <1>7 DEF DocsOK, IssueLease, OneLeasePerTerminal, ActiveLeasesOf, LeaseDoc
  <1>8. ASSUME NEW l \in Lease, ReleaseLease(l)
        PROVE  OneLeasePerTerminal'
    BY <1>8 DEF DocsOK, ReleaseLease, OneLeasePerTerminal, ActiveLeasesOf, LeaseDoc
  <1>9. ASSUME NEW l \in Lease, NEW s \in Sale, SyncOpen(l, s)
        PROVE  OneLeasePerTerminal'
    BY <1>9 DEF DocsOK, SyncOpen, OneLeasePerTerminal, ActiveLeasesOf, LeaseDoc,
       IsOpen, NewSale
  <1>10. ASSUME NEW l \in Lease, NEW s \in Sale, SyncLate(l, s)
        PROVE  OneLeasePerTerminal'
    BY <1>10 DEF DocsOK, SyncLate, LateMark, OneLeasePerTerminal, ActiveLeasesOf, LeaseDoc,
       NewSale
  <1>11. QED
    BY <1>1, <1>2, <1>3, <1>4, <1>5, <1>6, <1>7, <1>8, <1>9, <1>10 DEF LedgerNext

\* A drawer pays for a sale in the step that reverses it, and never again.
LEMMA PaidStep ==
    ASSUME DocsOK, References, PaidBackOnce, LedgerNext
    PROVE  PaidBackOnce'
  <1>1. ASSUME NEW c \in Cashier, NEW sh \in Shift, OpenShift(c, sh)
        PROVE  PaidBackOnce'
    <2>1. \A s \in Sale : sale[s].payoutShift # sh
      BY <1>1 DEF OpenShift, References
    <2>2. \A s \in Sale : PaysFor(sh, s)' = {}
      BY <1>1 DEF OpenShift, NewShift, PaysFor, DocsOK
    <2>3. \A s \in Sale, other \in Shift \ {sh} : PaysFor(other, s)' = PaysFor(other, s)
      BY <1>1 DEF OpenShift, PaysFor, DocsOK
    <2>4. \A other \in Shift \ {sh} : shift'[other] = shift[other]
      BY <1>1 DEF OpenShift, DocsOK
    <2>5. QED
      BY <1>1, <2>1, <2>2, <2>3, <2>4 DEF OpenShift, PaidBackOnce
  <1>2. ASSUME NEW c \in Cashier, NEW sh \in Shift, Drawer(c, sh)
        PROVE  PaidBackOnce'
    <2>1. shift[sh].movements \in Seq(Movement)
      BY DEF DocsOK, ShiftDoc
    <2>2. shift'[sh].movements = Append(shift[sh].movements, DrawerMove)
      BY <1>2 DEF Drawer, DocsOK, ShiftDoc
    <2>3. \A s \in Sale : PaysFor(sh, s)' = PaysFor(sh, s)
      BY <2>1, <2>2, MovementType DEF PaysFor
    <2>4. \A s \in Sale, other \in Shift \ {sh} : PaysFor(other, s)' = PaysFor(other, s)
      BY <1>2 DEF Drawer, PaysFor, DocsOK
    <2>5. \A s \in Sale, other \in Shift : PaysFor(other, s) \subseteq DOMAIN shift[other].movements
      BY DEF PaysFor
    <2>6. \A s \in Sale, other \in Shift : PaysFor(other, s)' \subseteq DOMAIN shift'[other].movements
      BY DEF PaysFor
    <2>7. sale' = sale
      BY <1>2 DEF Drawer
    <2>8. QED
      BY <2>3, <2>4, <2>6, <2>7 DEF PaidBackOnce
  <1>3. ASSUME NEW c \in Cashier, NEW sh \in Shift, NEW s \in Sale, NEW cash \in BOOLEAN,
               Sell(c, sh, s, cash)
        PROVE  PaidBackOnce'
    <2>1. shift' = shift /\ sale[s].status = "NONE"
      BY <1>3 DEF Sell
    <2>2. \A x \in Sale \ {s} : sale'[x] = sale[x]
      BY <1>3 DEF Sell, DocsOK
    <2>3. sale'[s].status = "COMPLETED"
      BY <1>3 DEF Sell, DocsOK, NewSale
    <2>4. \A x \in Sale, sh2 \in Shift : PaysFor(sh2, x)' = PaysFor(sh2, x)
      BY <2>1 DEF PaysFor
    <2>5. \A sh2 \in Shift : PaysFor(sh2, s) = {}
      BY <2>1 DEF PaidBackOnce, Reversed
    <2>6. QED
      BY <2>1, <2>2, <2>3, <2>4, <2>5 DEF PaidBackOnce, Reversed
  <1>4. ASSUME NEW s \in Sale, NEW as \in Reversed, NEW named \in Shift \cup {Null},
               ReverseForCash(s, as, named)
        PROVE  PaidBackOnce'
    <2>0. Marks(s, as)
      BY <1>4, CashMarks
    <2>1. PICK paying \in PayoutShifts(shift, sale[s].shift, named) :
            /\ sale' = [sale EXCEPT ![s].status = as, ![s].payoutShift = paying]
            /\ shift' = [shift EXCEPT ![paying].movements = Append(@, Payout(s))]
      BY <1>4 DEF ReverseForCash
    <2>2. paying \in Shift /\ sale[s].cash
      BY <1>4 DEF PayoutShifts, IsOpen, ReverseForCash
    <2>3. sale'[s].payoutShift = paying
      BY <2>1 DEF DocsOK, SaleDoc
    <2>4. /\ shift[paying].movements \in Seq(Movement)
          /\ shift'[paying].movements = Append(shift[paying].movements, Payout(s))
          /\ \A other \in Shift \ {paying} : shift'[other] = shift[other]
      BY <2>1, <2>2 DEF DocsOK, ShiftDoc
    <2>5. \A sh \in Shift : PaysFor(sh, s) = {}
      BY <2>0 DEF PaidBackOnce, Marks, Reversed
    <2>6. PaysFor(paying, s)' = {Len(shift[paying].movements) + 1}
      <3>1. \A i \in 1 .. Len(shift[paying].movements) :
              shift[paying].movements[i] # Payout(s)
        BY <2>2, <2>4, <2>5 DEF PaysFor
      <3>2. QED
        BY <2>4, <3>1 DEF PaysFor
    <2>7. \A x \in Sale \ {s} : PaysFor(paying, x)' = PaysFor(paying, x)
      BY <2>4 DEF PaysFor, Payout
    <2>8. \A x \in Sale, sh \in Shift \ {paying} : PaysFor(sh, x)' = PaysFor(sh, x)
      BY <2>4 DEF PaysFor
    <2>9. Len(shift[paying].movements) + 1 \in DOMAIN shift'[paying].movements
      BY <2>4
    <2>10. \A x \in Sale, sh \in Shift : PaysFor(sh, x)' \subseteq DOMAIN shift'[sh].movements
      BY DEF PaysFor
    <2>11. QED
      <3>1. ASSUME NEW x \in Sale, NEW sh \in Shift
            PROVE  IF sale'[x].status \in Reversed /\ sale'[x].cash /\ sale'[x].payoutShift = sh
                   THEN \E i \in DOMAIN shift'[sh].movements : PaysFor(sh, x)' = {i}
                   ELSE PaysFor(sh, x)' = {}
        <4>1. CASE x = s
          BY <4>1, <2>0, <2>2, <2>3, <2>5, <2>6, <2>8, <2>9 DEF Marks
        <4>2. CASE x # s
          BY <4>2, <2>0, <2>7, <2>8, <2>10 DEF Marks, PaidBackOnce
        <4>3. QED
          BY <4>1, <4>2
      <3>2. \A x \in Sale : sale'[x].status \in Reversed /\ sale'[x].cash
                            => sale'[x].payoutShift \in Shift
        BY <2>0, <2>2, <2>3 DEF Marks, PaidBackOnce
      <3>3. QED
        BY <3>1, <3>2 DEF PaidBackOnce
  <1>5. ASSUME NEW s \in Sale, NEW as \in Reversed, ReverseNoCash(s, as)
        PROVE  PaidBackOnce'
    <2>1. Marks(s, as) /\ shift' = shift /\ ~sale[s].cash
      BY <1>5, NoCashMarks DEF ReverseNoCash
    <2>2. \A x \in Sale, sh \in Shift : PaysFor(sh, x)' = PaysFor(sh, x)
      BY <2>1 DEF PaysFor
    <2>3. QED
      BY <2>1, <2>2 DEF PaidBackOnce, Marks
  <1>6. ASSUME NEW sh \in Shift, NEW by \in {"cashier", "admin"}, Close(sh, by)
        PROVE  PaidBackOnce'
    <2>1. \A other \in Shift : shift'[other].movements = shift[other].movements
      BY <1>6 DEF Close, DocsOK, ShiftDoc
    <2>2. \A s \in Sale, other \in Shift : PaysFor(other, s)' = PaysFor(other, s)
      BY <2>1 DEF PaysFor
    <2>3. sale' = sale
      BY <1>6 DEF Close
    <2>4. QED
      BY <2>1, <2>2, <2>3 DEF PaidBackOnce
  <1>7. ASSUME NEW sh \in Shift, NEW l \in Lease, NEW terminal \in Terminal,
               NEW sid \in Session, IssueLease(sh, l, terminal, sid)
        PROVE  PaidBackOnce'
    BY <1>7 DEF DocsOK, IssueLease, PaidBackOnce, PaysFor, ShiftDoc, SaleDoc,
       Reversed, References, ActiveLeasesOf
  <1>8. ASSUME NEW l \in Lease, ReleaseLease(l)
        PROVE  PaidBackOnce'
    <2>1. sale' = sale /\ shift' = shift
      BY <1>8 DEF ReleaseLease
    <2>2. QED
      BY <2>1 DEF PaidBackOnce, PaysFor
  <1>9. ASSUME NEW l \in Lease, NEW s \in Sale, SyncOpen(l, s)
        PROVE  PaidBackOnce'
    <2>1. shift' = shift /\ sale[s].status = "NONE"
      BY <1>9 DEF SyncOpen
    <2>2. \A x \in Sale \ {s} : sale'[x] = sale[x]
      BY <1>9 DEF SyncOpen, DocsOK
    <2>3. sale'[s].status = "COMPLETED"
      BY <1>9 DEF SyncOpen, DocsOK, NewSale
    <2>4. \A x \in Sale, sh2 \in Shift : PaysFor(sh2, x)' = PaysFor(sh2, x)
      BY <2>1 DEF PaysFor
    <2>5. \A sh2 \in Shift : PaysFor(sh2, s) = {}
      BY <2>1 DEF PaidBackOnce, Reversed
    <2>6. QED
      BY <2>1, <2>2, <2>3, <2>4, <2>5 DEF PaidBackOnce, Reversed
  <1>10. ASSUME NEW l \in Lease, NEW s \in Sale, SyncLate(l, s)
        PROVE  PaidBackOnce'
    <2>1. lease[l].shift \in Shift /\ sale[s].status = "NONE"
      BY <1>10 DEF SyncLate, LateMark, References
    <2>2. \A x \in Sale \ {s} : sale'[x] = sale[x]
      BY <1>10 DEF SyncLate, LateMark, DocsOK
    <2>3. sale'[s].status = "COMPLETED"
      BY <1>10 DEF SyncLate, LateMark, DocsOK, NewSale
    <2>4. \A sh \in Shift : shift'[sh].movements = shift[sh].movements
      BY <1>10, <2>1 DEF SyncLate, LateMark, DocsOK, ShiftDoc
    <2>5. \A x \in Sale, sh \in Shift : PaysFor(sh, x)' = PaysFor(sh, x)
      BY <2>4 DEF PaysFor
    <2>6. \A sh \in Shift : PaysFor(sh, s) = {}
      BY <2>1 DEF PaidBackOnce, Reversed
    <2>7. QED
      BY <2>2, <2>3, <2>4, <2>5, <2>6 DEF PaidBackOnce, Reversed
  <1>11. QED
    BY <1>1, <1>2, <1>3, <1>4, <1>5, <1>6, <1>7, <1>8, <1>9, <1>10 DEF LedgerNext

\* No operation changes a closed shift, but for its addendum.
LEMMA ClosedStep ==
    ASSUME DocsOK, References, LedgerNext
    PROVE  KeepsClosed
  <1>1. ASSUME NEW c \in Cashier, NEW sh \in Shift, OpenShift(c, sh)
        PROVE  KeepsClosed
    BY <1>1 DEF DocsOK, OpenShift, KeepsClosed, ShiftDoc, NewShift
  <1>2. ASSUME NEW c \in Cashier, NEW sh \in Shift, Drawer(c, sh)
        PROVE  KeepsClosed
    BY <1>2 DEF DocsOK, Drawer, KeepsClosed, ShiftDoc, OpenFor
  <1>3. ASSUME NEW c \in Cashier, NEW sh \in Shift, NEW s \in Sale, NEW cash \in BOOLEAN,
               Sell(c, sh, s, cash)
        PROVE  KeepsClosed
    BY <1>3 DEF DocsOK, Sell, KeepsClosed, ShiftDoc, OpenFor, NewSale
  <1>4. ASSUME NEW s \in Sale, NEW as \in Reversed, NEW named \in Shift \cup {Null},
               ReverseForCash(s, as, named)
        PROVE  KeepsClosed
    <2>1. Marks(s, as)
      BY <1>4, CashMarks
    <2>2. QED
      BY <2>1 DEF Marks, KeepsClosed, DocsOK, ShiftDoc
  <1>5. ASSUME NEW s \in Sale, NEW as \in Reversed, ReverseNoCash(s, as)
        PROVE  KeepsClosed
    <2>1. Marks(s, as)
      BY <1>5, NoCashMarks
    <2>2. QED
      BY <2>1 DEF Marks, KeepsClosed, DocsOK, ShiftDoc
  <1>6. ASSUME NEW sh \in Shift, NEW by \in {"cashier", "admin"}, Close(sh, by)
        PROVE  KeepsClosed
    BY <1>6 DEF DocsOK, Close, KeepsClosed, ShiftDoc
  <1>7. ASSUME NEW sh \in Shift, NEW l \in Lease, NEW terminal \in Terminal,
               NEW sid \in Session, IssueLease(sh, l, terminal, sid)
        PROVE  KeepsClosed
    BY <1>7 DEF DocsOK, IssueLease, KeepsClosed, ShiftDoc, ActiveLeasesOf
  <1>8. ASSUME NEW l \in Lease, ReleaseLease(l)
        PROVE  KeepsClosed
    BY <1>8 DEF DocsOK, ReleaseLease, KeepsClosed, ShiftDoc
  <1>9. ASSUME NEW l \in Lease, NEW s \in Sale, SyncOpen(l, s)
        PROVE  KeepsClosed
    BY <1>9 DEF DocsOK, SyncOpen, KeepsClosed, ShiftDoc, IsOpen, NewSale
  <1>10. ASSUME NEW l \in Lease, NEW s \in Sale, SyncLate(l, s)
        PROVE  KeepsClosed
    BY <1>10 DEF DocsOK, SyncLate, LateMark, KeepsClosed, ShiftDoc, NewSale
  <1>11. QED
    BY <1>1, <1>2, <1>3, <1>4, <1>5, <1>6, <1>7, <1>8, <1>9, <1>10 DEF LedgerNext

\* No operation changes a reversed sale.
LEMMA ReversedStep ==
    ASSUME DocsOK, LedgerNext
    PROVE  KeepsReversed
  <1>1. ASSUME NEW c \in Cashier, NEW sh \in Shift, OpenShift(c, sh)
        PROVE  KeepsReversed
    BY <1>1 DEF DocsOK, OpenShift, KeepsReversed, Reversed, NewShift
  <1>2. ASSUME NEW c \in Cashier, NEW sh \in Shift, Drawer(c, sh)
        PROVE  KeepsReversed
    BY <1>2 DEF DocsOK, Drawer, KeepsReversed, Reversed, OpenFor
  <1>3. ASSUME NEW c \in Cashier, NEW sh \in Shift, NEW s \in Sale, NEW cash \in BOOLEAN,
               Sell(c, sh, s, cash)
        PROVE  KeepsReversed
    BY <1>3 DEF DocsOK, Sell, KeepsReversed, Reversed, OpenFor, NewSale
  <1>4. ASSUME NEW s \in Sale, NEW as \in Reversed, NEW named \in Shift \cup {Null},
               ReverseForCash(s, as, named)
        PROVE  KeepsReversed
    <2>1. Marks(s, as)
      BY <1>4, CashMarks
    <2>2. QED
      BY <2>1 DEF Marks, KeepsReversed, Reversed
  <1>5. ASSUME NEW s \in Sale, NEW as \in Reversed, ReverseNoCash(s, as)
        PROVE  KeepsReversed
    <2>1. Marks(s, as)
      BY <1>5, NoCashMarks
    <2>2. QED
      BY <2>1 DEF Marks, KeepsReversed, Reversed
  <1>6. ASSUME NEW sh \in Shift, NEW by \in {"cashier", "admin"}, Close(sh, by)
        PROVE  KeepsReversed
    BY <1>6 DEF DocsOK, Close, KeepsReversed, Reversed
  <1>7. ASSUME NEW sh \in Shift, NEW l \in Lease, NEW terminal \in Terminal,
               NEW sid \in Session, IssueLease(sh, l, terminal, sid)
        PROVE  KeepsReversed
    BY <1>7 DEF DocsOK, IssueLease, KeepsReversed, Reversed, ActiveLeasesOf
  <1>8. ASSUME NEW l \in Lease, ReleaseLease(l)
        PROVE  KeepsReversed
    BY <1>8 DEF DocsOK, ReleaseLease, KeepsReversed, Reversed
  <1>9. ASSUME NEW l \in Lease, NEW s \in Sale, SyncOpen(l, s)
        PROVE  KeepsReversed
    BY <1>9 DEF DocsOK, SyncOpen, KeepsReversed, Reversed, IsOpen, NewSale
  <1>10. ASSUME NEW l \in Lease, NEW s \in Sale, SyncLate(l, s)
        PROVE  KeepsReversed
    BY <1>10 DEF DocsOK, SyncLate, LateMark, KeepsReversed, Reversed, NewSale
  <1>11. QED
    BY <1>1, <1>2, <1>3, <1>4, <1>5, <1>6, <1>7, <1>8, <1>9, <1>10 DEF LedgerNext

\* A closed shift's figures stay settled through any step that closes no shift
\* and leaves the tenders of recorded sales alone.
LEMMA SettledKept ==
    ASSUME ZReadSettled, ZReadComplete, KeepsClosed, DocsOK,
           \A x \in Sale : sale[x].status # "NONE" => sale'[x].cash = sale[x].cash,
           \A sh \in Shift : shift'[sh].status = "CLOSED" => shift[sh].status = "CLOSED"
    PROVE  ZReadSettled'
  <1> SUFFICES ASSUME NEW sh \in Shift, shift'[sh].status = "CLOSED",
                      NEW s \in shift'[sh].zRead.sales, sale'[s].cash
               PROVE  s \in shift'[sh].zRead.voids \cup shift'[sh].zRead.refunds
                      <=> PaysFor(sh, s)' # {}
    BY DEF ZReadSettled
  <1>1. shift[sh].status = "CLOSED" /\ shift[sh] \in ShiftDoc
    BY DEF DocsOK
  <1>2. shift'[sh].zRead = shift[sh].zRead /\ shift'[sh].movements = shift[sh].movements
    BY <1>1 DEF KeepsClosed, ShiftDoc
  <1>3. s \in Sale /\ sale[s].status # "NONE"
    BY <1>1, <1>2 DEF ZReadComplete, SalesOf
  <1>4. PaysFor(sh, s)' = PaysFor(sh, s)
    BY <1>2 DEF PaysFor
  <1>5. QED
    BY <1>1, <1>2, <1>3, <1>4 DEF ZReadSettled

\* Closing settles the reversals of its own sales, and nothing unsettles them.
LEMMA SettledStep ==
    ASSUME DocsOK, References, PaidBackOnce, ZReadComplete,
           ZReadSettled, KeepsClosed, LedgerNext
    PROVE  ZReadSettled'
  <1>1. ASSUME NEW c \in Cashier, NEW sh \in Shift, OpenShift(c, sh)
        PROVE  ZReadSettled'
    <2>2. \A x \in Sale : sale[x].status # "NONE" => sale'[x].cash = sale[x].cash
      BY <1>1 DEF OpenShift, NewShift, DocsOK, ShiftDoc
    <2>3. \A other \in Shift : shift'[other].status = "CLOSED" => shift[other].status = "CLOSED"
      BY <1>1 DEF OpenShift, NewShift, DocsOK, ShiftDoc
    <2>4. QED
      BY <2>2, <2>3, SettledKept
  <1>2. ASSUME NEW c \in Cashier, NEW sh \in Shift, Drawer(c, sh)
        PROVE  ZReadSettled'
    <2>2. \A x \in Sale : sale[x].status # "NONE" => sale'[x].cash = sale[x].cash
      BY <1>2 DEF Drawer, OpenFor, DocsOK, ShiftDoc
    <2>3. \A other \in Shift : shift'[other].status = "CLOSED" => shift[other].status = "CLOSED"
      BY <1>2 DEF Drawer, OpenFor, DocsOK, ShiftDoc
    <2>4. QED
      BY <2>2, <2>3, SettledKept
  <1>3. ASSUME NEW c \in Cashier, NEW sh \in Shift, NEW s \in Sale, NEW cash \in BOOLEAN,
               Sell(c, sh, s, cash)
        PROVE  ZReadSettled'
    <2>2. \A x \in Sale : sale[x].status # "NONE" => sale'[x].cash = sale[x].cash
      BY <1>3 DEF Sell, OpenFor, NewSale, DocsOK, ShiftDoc
    <2>3. \A other \in Shift : shift'[other].status = "CLOSED" => shift[other].status = "CLOSED"
      BY <1>3 DEF Sell, OpenFor, NewSale, DocsOK, ShiftDoc
    <2>4. QED
      BY <2>2, <2>3, SettledKept
  <1>4. ASSUME NEW s \in Sale, NEW as \in Reversed, NEW named \in Shift \cup {Null},
               ReverseForCash(s, as, named)
        PROVE  ZReadSettled'
    <2>1. Marks(s, as)
      BY <1>4, CashMarks
    <2>2. \A x \in Sale : sale[x].status # "NONE" => sale'[x].cash = sale[x].cash
      BY <2>1 DEF Marks
    <2>3. \A other \in Shift : shift'[other].status = "CLOSED" => shift[other].status = "CLOSED"
      BY <2>1 DEF Marks
    <2>4. QED
      BY <2>2, <2>3, SettledKept
  <1>5. ASSUME NEW s \in Sale, NEW as \in Reversed, ReverseNoCash(s, as)
        PROVE  ZReadSettled'
    <2>1. Marks(s, as)
      BY <1>5, NoCashMarks
    <2>2. \A x \in Sale : sale[x].status # "NONE" => sale'[x].cash = sale[x].cash
      BY <2>1 DEF Marks
    <2>3. \A other \in Shift : shift'[other].status = "CLOSED" => shift[other].status = "CLOSED"
      BY <2>1 DEF Marks
    <2>4. QED
      BY <2>2, <2>3, SettledKept
  <1>6. ASSUME NEW sh \in Shift, NEW by \in {"cashier", "admin"}, Close(sh, by)
        PROVE  ZReadSettled'
    <2>0. /\ shift[sh] \in ShiftDoc /\ shift[sh].status = "OPEN" /\ sale' = sale
          /\ shift'[sh].zRead = ZReadOf(shift, sale, sh)
          /\ shift'[sh].movements = shift[sh].movements
          /\ \A other \in Shift \ {sh} : shift'[other] = shift[other]
      BY <1>6 DEF Close, DocsOK, ShiftDoc
    <2>1. ASSUME NEW s \in SalesOf(sale, sh), sale[s].cash
          PROVE  sale[s].status \in Reversed <=> PaysFor(sh, s) # {}
      BY <2>0, <2>1 DEF SalesOf, References, PaidBackOnce
    <2>2. \A s \in ZReadOf(shift, sale, sh).sales :
             /\ s \in SalesOf(sale, sh)
             /\ s \in ZReadOf(shift, sale, sh).voids \cup ZReadOf(shift, sale, sh).refunds
                <=> sale[s].status \in Reversed
      BY DEF ZReadOf, Reversed
    <2>3. \A s \in Sale, other \in Shift : PaysFor(other, s)' = PaysFor(other, s)
      BY <2>0 DEF PaysFor
    <2>4. \A s \in SalesOf(sale, sh) : s \in Sale
      BY DEF SalesOf
    <2>5. ASSUME NEW s \in Sale, NEW other \in Shift, shift[other].status = "CLOSED"
          PROVE  s \in shift[other].zRead.sales /\ sale[s].cash =>
                   (s \in shift[other].zRead.voids \cup shift[other].zRead.refunds
                    <=> PaysFor(other, s) # {})
      BY <2>5 DEF ZReadSettled
    <2>6. \A other \in Shift : shift[other].status = "CLOSED" =>
             \A s \in shift[other].zRead.sales : s \in Sale
      BY DEF ZReadComplete, SalesOf
    <2>7. QED
      BY <2>0, <2>1, <2>2, <2>3, <2>4, <2>5, <2>6 DEF ZReadSettled
  <1>7. ASSUME NEW sh \in Shift, NEW l \in Lease, NEW terminal \in Terminal,
               NEW sid \in Session, IssueLease(sh, l, terminal, sid)
        PROVE  ZReadSettled'
    <2>2. \A x \in Sale : sale[x].status # "NONE" => sale'[x].cash = sale[x].cash
      BY <1>7 DEF IssueLease, DocsOK, ShiftDoc
    <2>3. \A other \in Shift : shift'[other].status = "CLOSED" => shift[other].status = "CLOSED"
      BY <1>7 DEF IssueLease, DocsOK, ShiftDoc
    <2>4. QED
      BY <2>2, <2>3, SettledKept
  <1>8. ASSUME NEW l \in Lease, ReleaseLease(l)
        PROVE  ZReadSettled'
    <2>2. \A x \in Sale : sale[x].status # "NONE" => sale'[x].cash = sale[x].cash
      BY <1>8 DEF ReleaseLease, DocsOK, ShiftDoc
    <2>3. \A other \in Shift : shift'[other].status = "CLOSED" => shift[other].status = "CLOSED"
      BY <1>8 DEF ReleaseLease, DocsOK, ShiftDoc
    <2>4. QED
      BY <2>2, <2>3, SettledKept
  <1>9. ASSUME NEW l \in Lease, NEW s \in Sale, SyncOpen(l, s)
        PROVE  ZReadSettled'
    <2>2. \A x \in Sale : sale[x].status # "NONE" => sale'[x].cash = sale[x].cash
      BY <1>9 DEF SyncOpen, IsOpen, NewSale, DocsOK, ShiftDoc
    <2>3. \A other \in Shift : shift'[other].status = "CLOSED" => shift[other].status = "CLOSED"
      BY <1>9 DEF SyncOpen, IsOpen, NewSale, DocsOK, ShiftDoc
    <2>4. QED
      BY <2>2, <2>3, SettledKept
  <1>10. ASSUME NEW l \in Lease, NEW s \in Sale, SyncLate(l, s)
        PROVE  ZReadSettled'
    <2>1. lease[l].shift \in Shift
      BY <1>10 DEF SyncLate, LateMark, References
    <2>2. \A x \in Sale : sale[x].status # "NONE" => sale'[x].cash = sale[x].cash
      BY <1>10 DEF SyncLate, LateMark, NewSale, DocsOK
    <2>3. \A other \in Shift : shift'[other].status = "CLOSED" => shift[other].status = "CLOSED"
      BY <1>10, <2>1 DEF SyncLate, LateMark, DocsOK, ShiftDoc
    <2>4. QED
      BY <2>2, <2>3, SettledKept
  <1>11. QED
    BY <1>1, <1>2, <1>3, <1>4, <1>5, <1>6, <1>7, <1>8, <1>9, <1>10 DEF LedgerNext

LEMMA StepConsistent == Consistent /\ [LedgerNext]_docs => Consistent'
  <1> SUFFICES ASSUME Consistent, [LedgerNext]_docs PROVE Consistent'
    OBVIOUS
  <1>1. CASE LedgerNext
    BY <1>1, TypeStep, ReferencesStep, LateStep, OneOpenStep, ZReadStep, PaidStep,
       ClosedStep, SettledStep, DrainsStep, TerminalStep DEF Consistent
  <1>2. CASE UNCHANGED docs
    BY <1>2 DEF docs, Consistent, DocsOK, References, LateSalesReported, OneOpenShift,
                ZReadComplete, PaidBackOnce, PaysFor, ZReadSettled, OwnCloseDrains,
                OneLeasePerTerminal
  <1>3. QED
    BY <1>1, <1>2

\* Every reachable state of the ledger is consistent: the documents are well
\* formed, a cashier has one open shift, closed shifts' Z-reads are complete and
\* settled, reversed cash left exactly one drawer, late sales are announced,
\* shifts closed by their cashier have no live lease.
THEOREM LedgerConsistent == LedgerSpec => []Consistent
  BY InitConsistent, StepConsistent, PTL DEF LedgerSpec

\* The documents are always well formed.
THEOREM LedgerTypeOK == LedgerSpec => []DocsOK
  <1>1. Consistent => DocsOK
    BY DEF Consistent
  <1>2. QED
    BY <1>1, LedgerConsistent, PTL

\* The Z-read of a closed shift never misses or invents a sale or a movement.
THEOREM LedgerZReadComplete == LedgerSpec => []ZReadComplete
  <1>1. Consistent => ZReadComplete
    BY DEF Consistent
  <1>2. QED
    BY <1>1, LedgerConsistent, PTL

\* Closed shifts and reversed sales are final.
THEOREM LedgerFinal == LedgerSpec => ClosedIsFinal /\ ReversedIsFinal
  <1>1. Consistent /\ [LedgerNext]_docs => [KeepsClosed]_docs /\ [KeepsReversed]_docs
    BY ClosedStep, ReversedStep DEF Consistent
  <1>2. QED
    BY <1>1, LedgerConsistent, PTL DEF LedgerSpec, ClosedIsFinal, ReversedIsFinal

-----------------------------------------------------------------------------
\* Transactions on snapshots

\* A step's changes are announced by the documents and index entries it writes:
\* it grows the database, and leaves what it does not write, the sales and
\* leases of open shifts included, as it was.
Covers(W) ==
    /\ \A sh \in Shift : shift[sh].status # "NONE" =>
         /\ shift'[sh].status # "NONE" /\ shift'[sh].cashier = shift[sh].cashier
         /\ shift[sh].status = "CLOSED" => shift'[sh].status = "CLOSED"
    /\ \A s \in Sale : sale[s].status # "NONE" =>
         sale'[s].status # "NONE" /\ sale'[s].shift = sale[s].shift
    /\ \A l \in Lease : lease[l].status # "NONE" =>
         lease'[l].status # "NONE" /\ lease'[l].shift = lease[l].shift
    /\ \A sh \in Shift \ W : shift'[sh] = shift[sh]
    /\ \A s \in Sale \ W : sale'[s] = sale[s]
    /\ \A l \in Lease \ W : lease'[l] = lease[l]
    /\ \A sh \in Shift \ W : shift[sh].status = "OPEN" =>
         /\ \A s \in Sale : sh \in {sale[s].shift, sale'[s].shift} => sale'[s] = sale[s]
         /\ \A l \in ActiveLeasesOf(lease', sh) : lease'[l] = lease[l]
    /\ \A c \in Cashier \ W, sh \in Shift :
         OpenFor(shift', sh, c) => OpenFor(shift, sh, c)

\* What a committing request knows.
LEMMA Rely ==
    ASSUME Invariant, NEW t \in Txn, Running(t), NEW W, Commit(t, W)
    PROVE  /\ Grown(snap[t]) /\ snap[t] \in Database
           /\ \A sh \in Shift \cap W : snap[t].shift[sh] = shift[sh]
           /\ \A s \in Sale \cap W : snap[t].sale[s] = sale[s]
           /\ \A l \in Lease \cap W : snap[t].lease[l] = lease[l]
           /\ \A sh \in Shift \cap W : snap[t].shift[sh].status = "OPEN" =>
                /\ \A s \in Sale : sh \in {snap[t].sale[s].shift, sale[s].shift}
                                   => snap[t].sale[s] = sale[s]
                /\ \A l \in ActiveLeasesOf(lease, sh) : snap[t].lease[l] = lease[l]
           /\ \A c \in Cashier \cap W, sh \in Shift :
                OpenFor(shift, sh, c) => OpenFor(snap[t].shift, sh, c)
  BY DEF Invariant, TypeOK, TxnOK, SnapshotsHold, Unchanged, Locked, Commit

LEMMA SellStep ==
    ASSUME Invariant, NEW t \in Txn, CommitSell(t)
    PROVE  LedgerNext /\ \E W : Commit(t, W) /\ Covers(W)
  <1>1. PICK c \in Cashier, s \in Sale, cash \in BOOLEAN, sh \in Shift :
          /\ req[t] = AskSale(c, s, cash)
          /\ OpenFor(snap[t].shift, sh, c)
          /\ snap[t].sale[s].status = "NONE"
          /\ Commit(t, {sh, s})
          /\ sale' = [sale EXCEPT ![s] = NewSale(c, sh, cash, FALSE)]
          /\ UNCHANGED << shift, lease >>
    BY DEF CommitSell, SaleWrites
  <1>2. Running(t)
    BY <1>1 DEF AskSale, Running, Idle
  <1>3. OpenFor(shift, sh, c) /\ sale[s].status = "NONE"
    BY <1>1, <1>2, Rely DEF OpenFor
  <1>4. Sell(c, sh, s, cash)
    BY <1>1, <1>3 DEF Sell
  <1>5. DocsOK /\ sale[s].shift = Null
    BY <1>3 DEF Invariant, Consistent, References
  <1>6. Covers({sh, s})
    BY <1>1, <1>3, <1>5 DEF Covers, DocsOK, NewSale, OpenFor, ActiveLeasesOf
  <1>7. QED
    BY <1>1, <1>4, <1>6 DEF LedgerNext

LEMMA OpenStep ==
    ASSUME Invariant, NEW t \in Txn, CommitOpen(t)
    PROVE  LedgerNext /\ \E W : Commit(t, W) /\ Covers(W)
  <1>1. PICK c \in Cashier, sh \in Shift :
          /\ req[t] = AskOpen(c)
          /\ \A other \in Shift : ~OpenFor(snap[t].shift, other, c)
          /\ snap[t].shift[sh].status = "NONE"
          /\ Commit(t, {sh, c})
          /\ shift' = [shift EXCEPT ![sh] = NewShift(c)]
          /\ UNCHANGED << sale, lease >>
    BY DEF CommitOpen, OpenWrites
  <1>2. Running(t)
    BY <1>1 DEF AskOpen, Running, Idle
  <1>3. /\ shift[sh].status = "NONE"
        /\ \A other \in Shift : ~OpenFor(shift, other, c)
    BY <1>1, <1>2, Rely
  <1>4. OpenShift(c, sh)
    BY <1>1, <1>3 DEF OpenShift
  <1>5. DocsOK
    BY DEF Invariant, Consistent
  <1>6. Covers({sh, c})
    BY <1>1, <1>3, <1>5 DEF Covers, DocsOK, NewShift, OpenFor, ActiveLeasesOf
  <1>7. QED
    BY <1>1, <1>4, <1>6 DEF LedgerNext

LEMMA DrawerStep ==
    ASSUME Invariant, NEW t \in Txn, CommitDrawer(t)
    PROVE  LedgerNext /\ \E W : Commit(t, W) /\ Covers(W)
  <1>1. PICK c \in Cashier, sh \in Shift :
          /\ req[t] = AskDrawer(c)
          /\ OpenFor(snap[t].shift, sh, c)
          /\ Commit(t, {sh})
          /\ shift' = [shift EXCEPT ![sh].movements = Append(@, DrawerMove)]
          /\ UNCHANGED << sale, lease >>
    BY DEF CommitDrawer, DrawerWrites
  <1>2. Running(t)
    BY <1>1 DEF AskDrawer, Running, Idle
  <1>3. OpenFor(shift, sh, c)
    BY <1>1, <1>2, Rely DEF OpenFor
  <1>4. Drawer(c, sh)
    BY <1>1, <1>3 DEF Drawer
  <1>5. shift[sh] \in ShiftDoc /\ DocsOK
    BY DEF Invariant, Consistent, DocsOK
  <1>6. Covers({sh})
    BY <1>1, <1>3, <1>5 DEF Covers, DocsOK, ShiftDoc, OpenFor, ActiveLeasesOf
  <1>7. QED
    BY <1>1, <1>4, <1>6 DEF LedgerNext

\* A reversal's changes are announced by the sale, by the shift that pays and by
\* the sale's own shift while that one is open.
LEMMA MarksCover ==
    ASSUME NEW s \in Sale, NEW as \in Reversed, Marks(s, as), NEW W, s \in W,
           \A sh \in Shift \ W : shift'[sh] = shift[sh],
           \A sh \in Shift \ W : shift[sh].status = "OPEN" => sale[s].shift # sh
    PROVE  Covers(W)
  <1>1. \A x \in Sale : sale[x].status # "NONE" =>
          sale'[x].status # "NONE" /\ sale'[x].shift = sale[x].shift
    BY DEF Marks
  <1>2. \A x \in Sale \ W : sale'[x] = sale[x]
    BY DEF Marks
  <1>3. ASSUME NEW sh \in Shift \ W, shift[sh].status = "OPEN", NEW x \in Sale,
               sh \in {sale[x].shift, sale'[x].shift}
        PROVE  sale'[x] = sale[x]
    BY <1>3 DEF Marks
  <1>4. /\ \A l \in Lease : lease'[l] = lease[l]
        /\ \A sh \in Shift : ActiveLeasesOf(lease', sh) \subseteq Lease
    BY DEF Marks, ActiveLeasesOf
  <1>5. \A sh \in Shift : /\ shift'[sh].status = shift[sh].status
                          /\ shift'[sh].cashier = shift[sh].cashier
    BY DEF Marks
  <1>6. QED
    BY <1>1, <1>2, <1>3, <1>4, <1>5 DEF Covers, OpenFor

\* The drawer a reversal pays from is the one it would pay from had it run alone:
\* a shift that was closed, or was not there, in the snapshot is not open now.
LEMMA CashReversalStep ==
    ASSUME Invariant, NEW t \in Txn, CommitReverseForCash(t)
    PROVE  LedgerNext /\ \E W : Commit(t, W) /\ Covers(W)
  <1>1. PICK by \in Cashier \cup {Null}, s \in Sale, as \in Reversed,
             named \in Shift \cup {Null} :
          /\ req[t] = AskReversal(by, s, as, named)
          /\ Reversible(snap[t].sale[s]) /\ snap[t].sale[s].cash
          /\ \E sh \in PayoutShifts(snap[t].shift, snap[t].sale[s].shift, named) :
               /\ Commit(t, {s, sh})
               /\ sale' = [sale EXCEPT ![s].status = as, ![s].payoutShift = sh]
               /\ shift' = [shift EXCEPT ![sh].movements = Append(@, Payout(s))]
          /\ UNCHANGED lease
    BY DEF CommitReverseForCash, PayoutWrites
  <1>2. PICK sh \in PayoutShifts(snap[t].shift, snap[t].sale[s].shift, named) :
               /\ Commit(t, {s, sh})
               /\ sale' = [sale EXCEPT ![s].status = as, ![s].payoutShift = sh]
               /\ shift' = [shift EXCEPT ![sh].movements = Append(@, Payout(s))]
    BY <1>1
  <1>3. Running(t)
    BY <1>1 DEF AskReversal, Running, Idle
  <1>4. sh \in Shift /\ snap[t].shift[sh].status = "OPEN"
    BY DEF PayoutShifts, IsOpen
  <1>5. snap[t].sale[s] = sale[s] /\ shift[sh].status = "OPEN"
    BY <1>2, <1>3, <1>4, Rely
  <1>6. sh \in PayoutShifts(shift, sale[s].shift, named)
    <2>1. CASE IsOpen(snap[t].shift, sale[s].shift)
      BY <1>5, <2>1 DEF PayoutShifts, IsOpen
    <2>2. CASE ~IsOpen(snap[t].shift, sale[s].shift)
      <3>1. sh = named
        BY <1>5, <2>2 DEF PayoutShifts
      <3>2. ASSUME sale[s].shift \in Shift
            PROVE  shift[sale[s].shift].status = "CLOSED"
        <4>1. snap[t].shift[sale[s].shift].status \in {"NONE", "OPEN", "CLOSED"}
          BY <1>2, <1>3, <3>2, Rely DEF Database, ShiftDoc
        <4>2. snap[t].shift[sale[s].shift].status # "NONE"
          BY <1>3, <1>5, <3>2 DEF Invariant, SnapshotsSound, Sound
        <4>3. snap[t].shift[sale[s].shift].status = "CLOSED"
          BY <2>2, <3>2, <4>1, <4>2 DEF IsOpen
        <4>4. QED
          BY <1>2, <1>3, <3>2, <4>3, Rely DEF Grown
      <3>3. QED
        BY <1>4, <1>5, <3>1, <3>2 DEF PayoutShifts, IsOpen
    <2>3. QED
      BY <2>1, <2>2
  <1>7. ReverseForCash(s, as, named)
    BY <1>1, <1>2, <1>5, <1>6 DEF ReverseForCash
  <1>8. DocsOK /\ Marks(s, as)
    BY <1>7, CashMarks DEF Invariant, Consistent
  <1>9. \A other \in Shift \ {sh} : shift'[other] = shift[other]
    BY <1>2, <1>8 DEF DocsOK
  <1>10. \A other \in Shift \ {sh} : shift[other].status = "OPEN" => sale[s].shift # other
    BY <1>6 DEF PayoutShifts, IsOpen
  <1>11. Covers({s, sh})
    BY <1>8, <1>9, <1>10, MarksCover
  <1>12. QED
    BY <1>2, <1>7, <1>11 DEF LedgerNext

LEMMA NoCashReversalStep ==
    ASSUME Invariant, NEW t \in Txn, CommitReverseNoCash(t)
    PROVE  LedgerNext /\ \E W : Commit(t, W) /\ Covers(W)
  <1>1. PICK by \in Cashier \cup {Null}, s \in Sale, as \in Reversed,
             named \in Shift \cup {Null} :
          /\ req[t] = AskReversal(by, s, as, named)
          /\ Reversible(snap[t].sale[s]) /\ ~snap[t].sale[s].cash
          /\ Commit(t, NoCashWrites(snap[t], s))
          /\ sale' = [sale EXCEPT ![s].status = as]
          /\ UNCHANGED << shift, lease >>
    BY DEF CommitReverseNoCash
  <1> DEFINE W == NoCashWrites(snap[t], s)
  <1>2. Running(t) /\ s \in W
    BY <1>1 DEF AskReversal, Running, Idle, NoCashWrites
  <1>3. snap[t].sale[s] = sale[s]
    BY <1>1, <1>2, Rely
  <1>4. ReverseNoCash(s, as)
    BY <1>1, <1>3 DEF ReverseNoCash
  <1>5. DocsOK /\ Marks(s, as)
    BY <1>4, NoCashMarks DEF Invariant, Consistent
  <1>6. ASSUME NEW sh \in Shift \ W, shift[sh].status = "OPEN"
        PROVE  sale[s].shift # sh
    <2>1. SUFFICES ASSUME sale[s].shift = sh PROVE FALSE
      OBVIOUS
    <2>2. snap[t].shift[sh].status # "OPEN"
      BY <1>3, <1>6, <2>1 DEF NoCashWrites, IsOpen
    <2>3. snap[t].shift[sh].status \in {"NONE", "OPEN", "CLOSED"}
      BY <1>1, <1>2, Rely DEF Database, ShiftDoc
    <2>4. snap[t].shift[sh].status # "NONE"
      BY <1>2, <1>3, <2>1 DEF Invariant, SnapshotsSound, Sound
    <2>5. shift[sh].status = "CLOSED"
      BY <1>1, <1>2, <2>2, <2>3, <2>4, Rely DEF Grown
    <2>6. QED
      BY <1>6, <2>5
  <1>8. Covers(W)
    BY <1>1, <1>2, <1>5, <1>6, MarksCover
  <1>9. QED
    BY <1>1, <1>4, <1>8 DEF LedgerNext

\* Closing reads the shift's sales and leases without writing them; they are
\* current because the shift, which it does write, is.
LEMMA CloseShiftStep ==
    ASSUME Invariant, NEW t \in Txn, Running(t), NEW sh \in Shift,
           snap[t].shift[sh].status = "OPEN", NEW by \in {"cashier", "admin"},
           by = "cashier" => ActiveLeasesOf(snap[t].lease, sh) = {},
           CloseShift(t, sh, by)
    PROVE  LedgerNext /\ \E W : Commit(t, W) /\ Covers(W)
  <1> DEFINE W == {sh, shift[sh].cashier}
  <1>1. /\ Commit(t, W) /\ sh \in W
        /\ shift' = [shift EXCEPT ![sh].status = "CLOSED", ![sh].closedBy = by,
                       ![sh].zRead = ZReadOf(snap[t].shift, snap[t].sale, sh)]
        /\ UNCHANGED << sale, lease >>
    BY DEF CloseShift, CloseWrites
  <1>2. /\ snap[t].shift[sh] = shift[sh]
        /\ \A s \in Sale : sh \in {snap[t].sale[s].shift, sale[s].shift}
                           => snap[t].sale[s] = sale[s]
        /\ \A l \in ActiveLeasesOf(lease, sh) : snap[t].lease[l] = lease[l]
    BY <1>1, Rely
  <1>3. ZReadOf(snap[t].shift, snap[t].sale, sh) = ZReadOf(shift, sale, sh)
    <2>1. SalesOf(snap[t].sale, sh) = SalesOf(sale, sh)
      BY <1>2 DEF SalesOf
    <2>2. \A s \in SalesOf(sale, sh) : snap[t].sale[s] = sale[s]
      BY <1>2 DEF SalesOf
    <2>3. \A st : {s \in SalesOf(snap[t].sale, sh) : snap[t].sale[s].status = st}
                = {s \in SalesOf(sale, sh) : sale[s].status = st}
      BY <2>1, <2>2
    <2>4. QED
      BY <1>2, <2>1, <2>3 DEF ZReadOf
  <1>4. ActiveLeasesOf(lease, sh) \subseteq ActiveLeasesOf(snap[t].lease, sh)
    BY <1>2 DEF ActiveLeasesOf
  <1>5. Close(sh, by)
    BY <1>1, <1>2, <1>3, <1>4 DEF Close
  <1>6. shift[sh] \in ShiftDoc /\ DocsOK
    BY DEF Invariant, Consistent, DocsOK
  <1>7. Covers(W)
    BY <1>1, <1>2, <1>6 DEF Covers, DocsOK, ShiftDoc, OpenFor, ActiveLeasesOf
  <1>8. QED
    BY <1>1, <1>5, <1>7 DEF LedgerNext

LEMMA CloseStep ==
    ASSUME Invariant, NEW t \in Txn, CommitCloseOwn(t) \/ CommitCloseById(t)
    PROVE  LedgerNext /\ \E W : Commit(t, W) /\ Covers(W)
  <1>1. CASE CommitCloseOwn(t)
    <2>1. PICK c \in Cashier, sh \in Shift :
            /\ req[t] = AskCloseOwn(c)
            /\ OpenFor(snap[t].shift, sh, c)
            /\ ActiveLeasesOf(snap[t].lease, sh) = {}
            /\ CloseShift(t, sh, "cashier")
      BY <1>1 DEF CommitCloseOwn
    <2>2. Running(t)
      BY <2>1 DEF AskCloseOwn, Running, Idle
    <2>3. QED
      BY <2>1, <2>2, CloseShiftStep DEF OpenFor
  <1>2. CASE CommitCloseById(t)
    <2>1. PICK sh \in Shift :
            /\ req[t] = AskCloseById(sh)
            /\ IsOpen(snap[t].shift, sh)
            /\ CloseShift(t, sh, "admin")
      BY <1>2 DEF CommitCloseById
    <2>2. Running(t)
      BY <2>1 DEF AskCloseById, Running, Idle
    <2>3. QED
      BY <2>1, <2>2, CloseShiftStep DEF IsOpen
  <1>3. QED
    BY <1>1, <1>2

LEMMA ReleaseStep ==
    ASSUME Invariant, NEW t \in Txn, CommitRelease(t)
    PROVE  LedgerNext /\ \E W : Commit(t, W) /\ Covers(W)
  <1>1. PICK l \in Lease :
          /\ req[t] = AskRelease(l)
          /\ snap[t].lease[l].status # "NONE"
          /\ Commit(t, {l, snap[t].lease[l].shift})
          /\ lease' = [lease EXCEPT ![l].status = "INACTIVE"]
          /\ UNCHANGED << shift, sale >>
    BY DEF CommitRelease, ReleaseWrites
  <1>2. Running(t)
    BY <1>1 DEF AskRelease, Running, Idle
  <1>3. snap[t].lease[l] = lease[l]
    BY <1>1, <1>2, Rely
  <1>4. ReleaseLease(l)
    BY <1>1, <1>3 DEF ReleaseLease
  <1>5. lease[l] \in LeaseDoc /\ DocsOK
    BY DEF Invariant, Consistent, DocsOK
  <1>6. lease'[l] = [lease[l] EXCEPT !.status = "INACTIVE"]
        /\ \A m \in Lease \ {l} : lease'[m] = lease[m]
    BY <1>1, <1>5 DEF DocsOK
  <1>7. lease'[l].status = "INACTIVE" /\ lease'[l].shift = lease[l].shift
    BY <1>5, <1>6 DEF LeaseDoc
  <1>8. Covers({l, snap[t].lease[l].shift})
    BY <1>1, <1>6, <1>7 DEF Covers, OpenFor, ActiveLeasesOf
  <1>9. QED
    BY <1>1, <1>4, <1>8 DEF LedgerNext

LEMMA SyncOpenStep ==
    ASSUME Invariant, NEW t \in Txn, CommitSyncOpen(t)
    PROVE  LedgerNext /\ \E W : Commit(t, W) /\ Covers(W)
  <1>1. PICK l \in Lease, s \in Sale, admin \in BOOLEAN :
          /\ req[t] = AskSync(l, s, admin)
          /\ IsOpen(snap[t].shift, snap[t].lease[l].shift)
          /\ snap[t].lease[l].status \in IF admin THEN {"ACTIVE", "INACTIVE"}
                                                  ELSE {"ACTIVE"}
          /\ snap[t].sale[s].status = "NONE"
          /\ Commit(t, {snap[t].lease[l].shift, l, s})
          /\ sale' = [sale EXCEPT ![s] =
                        NewSale(shift[snap[t].lease[l].shift].cashier,
                                snap[t].lease[l].shift, TRUE, FALSE)]
          /\ UNCHANGED << shift, lease >>
    BY DEF CommitSyncOpen, SyncWrites
  <1> DEFINE sh == snap[t].lease[l].shift
  <1>2. Running(t)
    BY <1>1 DEF AskSync, Running, Idle
  <1>3. sh \in Shift /\ snap[t].shift[sh].status = "OPEN"
    BY <1>1 DEF IsOpen
  <1>4. /\ sale[s].status = "NONE" /\ shift[sh].status = "OPEN"
        /\ lease[l].shift = sh /\ lease[l].status # "NONE"
    BY <1>1, <1>2, <1>3, Rely
  <1>5. SyncOpen(l, s)
    BY <1>1, <1>3, <1>4 DEF SyncOpen, IsOpen
  <1>6. DocsOK /\ sale[s].shift = Null
    BY <1>4 DEF Invariant, Consistent, References
  <1>7. sale'[s].shift = sh /\ \A x \in Sale \ {s} : sale'[x] = sale[x]
    BY <1>1, <1>6 DEF DocsOK, NewSale
  <1>8. Covers({sh, l, s})
    BY <1>1, <1>4, <1>6, <1>7 DEF Covers, OpenFor, ActiveLeasesOf
  <1>9. QED
    BY <1>1, <1>5, <1>8 DEF LedgerNext

LEMMA SyncLateStep ==
    ASSUME Invariant, NEW t \in Txn, CommitSyncLate(t)
    PROVE  LedgerNext /\ \E W : Commit(t, W) /\ Covers(W)
  <1>1. PICK l \in Lease, s \in Sale :
          /\ req[t] = AskSync(l, s, TRUE)
          /\ snap[t].lease[l].status # "NONE"
          /\ snap[t].shift[snap[t].lease[l].shift].status = "CLOSED"
          /\ snap[t].sale[s].status = "NONE"
          /\ Commit(t, {snap[t].lease[l].shift, l, s})
          /\ sale' = [sale EXCEPT ![s] =
                        NewSale(shift[snap[t].lease[l].shift].cashier,
                                snap[t].lease[l].shift, TRUE, TRUE)]
          /\ shift' = LateMark(shift, snap[t].lease[l].shift)
          /\ UNCHANGED lease
    BY DEF CommitSyncLate, SyncWrites
  <1> DEFINE sh == snap[t].lease[l].shift
  <1>2. Running(t)
    BY <1>1 DEF AskSync, Running, Idle
  <1>3. sh \in Shift
    BY <1>1, <1>2 DEF Invariant, SnapshotsSound, Sound
  <1>4. /\ sale[s].status = "NONE" /\ shift[sh].status = "CLOSED"
        /\ lease[l].shift = sh /\ lease[l].status # "NONE"
    BY <1>1, <1>2, <1>3, Rely
  <1>5. SyncLate(l, s)
    BY <1>1, <1>3, <1>4 DEF SyncLate
  <1>6. DocsOK /\ sale[s].shift = Null /\ shift[sh] \in ShiftDoc
    BY <1>3, <1>4 DEF Invariant, Consistent, References, DocsOK
  <1>7. sale'[s].shift = sh /\ \A x \in Sale \ {s} : sale'[x] = sale[x]
    BY <1>1, <1>6 DEF DocsOK, NewSale
  <1>8. /\ shift'[sh].status = "CLOSED" /\ shift'[sh].cashier = shift[sh].cashier
        /\ \A other \in Shift \ {sh} : shift'[other] = shift[other]
    BY <1>1, <1>3, <1>4, <1>6 DEF DocsOK, ShiftDoc, LateMark
  <1>9. Covers({sh, l, s})
    BY <1>1, <1>4, <1>6, <1>7, <1>8 DEF Covers, OpenFor, ActiveLeasesOf
  <1>10. QED
    BY <1>1, <1>5, <1>9 DEF LedgerNext

\* Leases of a shift are read as one set; issuing writes only some of them, but
\* always the shift.
LEMMA LeaseStep ==
    ASSUME Invariant, NEW t \in Txn, CommitIssueLease(t)
    PROVE  (LedgerNext \/ UNCHANGED docs) /\ \E W : Commit(t, W) /\ Covers(W)
  <1> DEFINE Held(sh, tm, sid) ==
               {l \in ActiveLeasesOf(snap[t].lease, sh) :
                  snap[t].lease[l].terminal = tm /\ snap[t].lease[l].sid = sid}
             Lost(sh, tm, sid) ==
               {l \in ActiveLeasesOf(snap[t].lease, sh) :
                  snap[t].lease[l].terminal = tm /\ snap[t].lease[l].sid # sid}
  <1>1. PICK c \in Cashier, tm \in Terminal, sid \in Session, sh \in Shift :
          /\ req[t] = AskLease(c, tm, sid)
          /\ OpenFor(snap[t].shift, sh, c)
          /\ \E l \in IF Held(sh, tm, sid) # {} THEN Held(sh, tm, sid)
                    ELSE {m \in Lease : snap[t].lease[m].status = "NONE"} :
               /\ Commit(t, {sh} \cup Lost(sh, tm, sid) \cup ({l} \ Held(sh, tm, sid)))
               /\ lease' = [m \in Lease |->
                    IF m \in Lost(sh, tm, sid) THEN [lease[m] EXCEPT !.status = "INACTIVE"]
                    ELSE IF m \in {l} \ Held(sh, tm, sid)
                    THEN [status |-> "ACTIVE", shift |-> sh, terminal |-> tm, sid |-> sid]
                    ELSE lease[m]]
          /\ UNCHANGED << shift, sale >>
    BY DEF CommitIssueLease, LeaseWrites, Superseded
  <1> DEFINE held == Held(sh, tm, sid)
             lost == Lost(sh, tm, sid)
  <1>2. PICK l \in IF held # {} THEN held
                   ELSE {m \in Lease : snap[t].lease[m].status = "NONE"} :
               /\ Commit(t, {sh} \cup lost \cup ({l} \ held))
               /\ lease' = [m \in Lease |->
                    IF m \in lost THEN [lease[m] EXCEPT !.status = "INACTIVE"]
                    ELSE IF m \in {l} \ held
                    THEN [status |-> "ACTIVE", shift |-> sh, terminal |-> tm, sid |-> sid]
                    ELSE lease[m]]
    BY <1>1
  <1> DEFINE W == {sh} \cup lost \cup ({l} \ held)
  <1>3. Running(t) /\ Commit(t, W) /\ sh \in W
    BY <1>1, <1>2 DEF AskLease, Running, Idle
  <1>4. snap[t].shift[sh].status = "OPEN"
    BY <1>1 DEF OpenFor
  <1>5. /\ shift[sh].status = "OPEN"
        /\ \A m \in ActiveLeasesOf(lease, sh) : snap[t].lease[m] = lease[m]
        /\ \A m \in Lease \cap W : snap[t].lease[m] = lease[m]
    BY <1>3, <1>4, Rely
  <1>6. DocsOK /\ held \subseteq Lease /\ lost \subseteq Lease
    BY DEF Invariant, Consistent, ActiveLeasesOf
  <1>7. CASE held # {}
    <2>1. l \in held
      BY <1>7
    <2>2. ASSUME NEW m \in lost PROVE FALSE
      <3>1. m \in ActiveLeasesOf(snap[t].lease, sh) /\ l \in ActiveLeasesOf(snap[t].lease, sh)
            /\ snap[t].lease[l].terminal = snap[t].lease[m].terminal
            /\ snap[t].lease[l].sid # snap[t].lease[m].sid
        BY <2>1
      <3>2. QED
        BY <1>3, <3>1 DEF Invariant, SnapshotsSound, Sound
    <2>3. lease' = [m \in Lease |-> lease[m]]
      BY <1>2, <2>1, <2>2
    <2>4. UNCHANGED docs
      BY <1>1, <1>6, <2>3 DEF DocsOK, docs
    <2>5. Covers(W)
      BY <2>4 DEF Covers, docs, ActiveLeasesOf, OpenFor
    <2>6. QED
      BY <1>3, <2>4, <2>5
  <1>8. CASE held = {}
    <2>1. l \in Lease /\ l \in W /\ l \notin lost
          /\ lease[l].status = "NONE"
      BY <1>5, <1>8 DEF ActiveLeasesOf
    <2>2. lost = {m \in ActiveLeasesOf(lease, sh) : lease[m].terminal = tm}
      <3>1. ASSUME NEW m \in lost
            PROVE  m \in ActiveLeasesOf(lease, sh) /\ lease[m].terminal = tm
        <4>1. m \in Lease \cap W
          BY <1>6
        <4>2. QED
          BY <1>5, <4>1 DEF ActiveLeasesOf
      <3>2. ASSUME NEW m \in ActiveLeasesOf(lease, sh), lease[m].terminal = tm
            PROVE  m \in lost
        <4>1. m \in ActiveLeasesOf(snap[t].lease, sh) /\ snap[t].lease[m].terminal = tm
          BY <1>5, <3>2 DEF ActiveLeasesOf
        <4>2. QED
          BY <1>8, <4>1
      <3>3. QED
        BY <3>1, <3>2
    <2>3. \A m \in ActiveLeasesOf(lease, sh) :
            ~(lease[m].terminal = tm /\ lease[m].sid = sid)
      <3>1. ASSUME NEW m \in ActiveLeasesOf(lease, sh),
                   lease[m].terminal = tm, lease[m].sid = sid
            PROVE  m \in held
        BY <1>5, <3>1 DEF ActiveLeasesOf
      <3>2. QED
        BY <1>8, <3>1
    <2>4. lease' = [m \in Lease |->
                     IF m = l
                     THEN [status |-> "ACTIVE", shift |-> sh, terminal |-> tm, sid |-> sid]
                     ELSE IF m \in ActiveLeasesOf(lease, sh) /\ lease[m].terminal = tm
                     THEN [lease[m] EXCEPT !.status = "INACTIVE"]
                     ELSE lease[m]]
      BY <1>2, <1>8, <2>1, <2>2
    <2>5. IssueLease(sh, l, tm, sid)
      BY <1>1, <1>5, <2>1, <2>3, <2>4 DEF IssueLease
    <2>6. ASSUME NEW m \in Lease, lease[m].status # "NONE"
          PROVE  /\ lease'[m].status # "NONE" /\ lease'[m].shift = lease[m].shift
                 /\ lease'[m].status = "ACTIVE" => lease'[m] = lease[m]
                 /\ m \notin lost => lease'[m] = lease[m]
      <3>1. lease[m] \in LeaseDoc /\ m # l
        BY <1>6, <2>1, <2>6 DEF DocsOK
      <3>2. lease'[m] = IF m \in lost THEN [lease[m] EXCEPT !.status = "INACTIVE"]
                        ELSE lease[m]
        BY <2>4, <2>2, <3>1
      <3>3. QED
        BY <2>6, <3>1, <3>2 DEF LeaseDoc
    <2>7. ASSUME NEW m \in Lease \ W PROVE lease'[m] = lease[m]
      BY <1>2, <2>7, <1>8
    <2>8. ASSUME NEW other \in Shift \ W, NEW m \in ActiveLeasesOf(lease', other)
          PROVE  lease'[m] = lease[m]
      <3>1. CASE m = l
        <4>1. lease'[l].shift = sh
          BY <2>1, <2>4
        <4>2. QED
          BY <3>1, <4>1, <2>8 DEF ActiveLeasesOf
      <3>2. CASE m # l
        <4>1. m \in Lease /\ lease'[m].status = "ACTIVE"
          BY DEF ActiveLeasesOf
        <4>2. m \notin lost
          <5>1. ASSUME m \in lost PROVE lease'[m].status = "INACTIVE"
            BY <2>2, <2>6, <3>2, <4>1, <5>1, <1>6, <2>4 DEF DocsOK, LeaseDoc
          <5>2. QED
            BY <4>1, <5>1
        <4>3. QED
          BY <2>7, <3>2, <4>1, <4>2, <1>2
      <3>3. QED
        BY <3>1, <3>2
    <2>9. Covers(W)
      BY <1>1, <2>6, <2>7, <2>8 DEF Covers, OpenFor
    <2>10. LedgerNext
      BY <1>1, <2>1, <2>5 DEF LedgerNext
    <2>11. QED
      BY <1>3, <2>9, <2>10
  <1>9. QED
    BY <1>7, <1>8

-----------------------------------------------------------------------------
\* The invariant is inductive.

\* A commit invalidates nothing a request still running relies on: what it
\* changes it has written, so that the request has missed it.
LEMMA CommitKeeps ==
    ASSUME Invariant, NEW t \in Txn, NEW W, Commit(t, W), Covers(W)
    PROVE  TxnOK(Database)' /\ SnapshotsHold' /\ SnapshotsSound'
  <1>1. /\ DOMAIN req = Txn /\ DOMAIN snap = Txn /\ DOMAIN missed = Txn
        /\ \A u \in Txn : IF Running(u) THEN snap[u] \in Database ELSE missed[u] = {}
    BY DEF Invariant, TypeOK, TxnOK
  <1>2. /\ req' = [req EXCEPT ![t] = Idle]
        /\ snap' = [snap EXCEPT ![t] = Idle]
        /\ missed' = [u \in Txn |-> IF u = t \/ ~Running(u) THEN {}
                                   ELSE missed[u] \cup W]
    BY DEF Commit
  <1>3. /\ ~Running(t)' /\ missed'[t] = {}
        /\ \A u \in Txn \ {t} :
             /\ Running(u)' <=> Running(u)
             /\ snap'[u] = snap[u]
             /\ missed'[u] = IF Running(u) THEN missed[u] \cup W ELSE {}
    BY <1>1, <1>2 DEF Running
  <1>4. TxnOK(Database)'
    <2>1. DOMAIN req' = Txn /\ DOMAIN snap' = Txn /\ DOMAIN missed' = Txn
      BY <1>1, <1>2
    <2>2. ASSUME NEW u \in Txn
          PROVE  IF Running(u)' THEN snap'[u] \in Database ELSE missed'[u] = {}
      BY <1>1, <1>3
    <2>3. QED
      BY <2>1, <2>2 DEF TxnOK
  <1>5. ASSUME NEW u \in Txn, Running(u)'
        PROVE  Grown(snap[u])' /\ Unchanged(snap[u], missed[u])'
               /\ Locked(snap[u], missed[u])'
    <2> DEFINE d == snap[u]
               m == missed[u]
    <2>1. /\ u # t /\ Running(u) /\ snap'[u] = d /\ missed'[u] = m \cup W
      BY <1>3, <1>5
    <2>2. Grown(d) /\ Unchanged(d, m) /\ Locked(d, m)
      BY <2>1 DEF Invariant, SnapshotsHold
    <2> HIDE DEF d, m
    <2>3. Grown(snap[u])'
      BY <2>1, <2>2 DEF Grown, Covers
    <2>4. Unchanged(snap[u], missed[u])'
      BY <2>1, <2>2 DEF Unchanged, Covers
    <2>5. ASSUME NEW sh \in Shift \ (m \cup W), d.shift[sh].status = "OPEN"
          PROVE  /\ \A s \in Sale : sh \in {d.sale[s].shift, sale'[s].shift}
                                     => d.sale[s] = sale'[s]
                 /\ \A l \in ActiveLeasesOf(lease', sh) : d.lease[l] = lease'[l]
      <3>1. shift[sh].status = "OPEN"
        BY <2>2, <2>5 DEF Unchanged
      <3>2. ASSUME NEW s \in Sale, sh \in {d.sale[s].shift, sale'[s].shift}
            PROVE  d.sale[s] = sale'[s]
        BY <2>2, <2>5, <3>1, <3>2 DEF Locked, Covers
      <3>3. ASSUME NEW l \in ActiveLeasesOf(lease', sh)
            PROVE  d.lease[l] = lease'[l]
        <4>1. lease'[l] = lease[l]
          BY <2>5, <3>1 DEF Covers
        <4>2. l \in ActiveLeasesOf(lease, sh)
          BY <4>1 DEF ActiveLeasesOf
        <4>3. QED
          BY <2>2, <2>5, <4>1, <4>2 DEF Locked
      <3>4. QED
        BY <3>2, <3>3
    <2>6. ASSUME NEW c \in Cashier \ (m \cup W), NEW sh \in Shift, OpenFor(shift', sh, c)
          PROVE  OpenFor(d.shift, sh, c)
      BY <2>2, <2>6 DEF Locked, Covers
    <2>7. Locked(snap[u], missed[u])'
      BY <2>1, <2>5, <2>6 DEF Locked
    <2>8. QED
      BY <2>3, <2>4, <2>7
  <1>6. SnapshotsHold'
    BY <1>5 DEF SnapshotsHold
  <1>7. SnapshotsSound'
    <2>1. ASSUME NEW u \in Txn, Running(u)' PROVE Sound(snap'[u])
      BY <1>3, <2>1 DEF Invariant, SnapshotsSound
    <2>2. QED
      BY <2>1 DEF SnapshotsSound
  <1>8. QED
    BY <1>4, <1>6, <1>7

\* A snapshot just taken.
LEMMA Fresh ==
    ASSUME Consistent
    PROVE  /\ Current \in Database /\ Sound(Current)
           /\ Grown(Current) /\ Unchanged(Current, {}) /\ Locked(Current, {})
  <1>1. Current.shift = shift /\ Current.sale = sale /\ Current.lease = lease
    BY DEF Current
  <1>2. Current \in Database
    BY DEF Consistent, DocsOK, Database, Current
  <1>3. Sound(Current)
    <2>1. ASSUME NEW s \in Sale, NEW sh \in Shift, sale[s].shift = sh
          PROVE  shift[sh].status # "NONE"
      BY <2>1 DEF Consistent, References
    <2>2. QED
      BY <1>1, <2>1 DEF Consistent, References, OneLeasePerTerminal, Sound
  <1>4. Grown(Current) /\ Unchanged(Current, {})
    BY <1>1 DEF Grown, Unchanged
  <1>5. Locked(Current, {})
    BY <1>1 DEF Locked, ActiveLeasesOf
  <1>6. QED
    BY <1>2, <1>3, <1>4, <1>5

\* A request that starts, or starts again, or ends without writing.
LEMMA OtherKeeps ==
    ASSUME Invariant, NEW t \in Txn, UNCHANGED docs,
           \/ \E request : Begin(t, request, Current)
           \/ Retry(t, Current)
           \/ Abort(t)
    PROVE  TxnOK(Database)' /\ SnapshotsHold' /\ SnapshotsSound'
  <1>1. /\ DOMAIN req = Txn /\ DOMAIN snap = Txn /\ DOMAIN missed = Txn
        /\ \A u \in Txn : IF Running(u) THEN snap[u] \in Database ELSE missed[u] = {}
    BY DEF Invariant, TypeOK, TxnOK
  <1>2. /\ \A u \in Txn \ {t} : /\ Running(u)' <=> Running(u)
                               /\ snap'[u] = snap[u] /\ missed'[u] = missed[u]
        /\ Running(t)' => snap'[t] = Current
        /\ missed'[t] = {}
        /\ DOMAIN req' = Txn /\ DOMAIN snap' = Txn /\ DOMAIN missed' = Txn
    <2>1. CASE \E request : Begin(t, request, Current)
      BY <1>1, <2>1 DEF Begin, Running
    <2>2. CASE Retry(t, Current)
      BY <1>1, <2>2 DEF Retry, Running
    <2>3. CASE Abort(t)
      BY <1>1, <2>3 DEF Abort, Running
    <2>4. QED
      BY <2>1, <2>2, <2>3
  <1>3. /\ Current \in Database /\ Sound(Current)
        /\ Grown(Current) /\ Unchanged(Current, {}) /\ Locked(Current, {})
    BY Fresh DEF Invariant
  <1>4. TxnOK(Database)'
    <2>1. ASSUME NEW u \in Txn
          PROVE  IF Running(u)' THEN snap'[u] \in Database ELSE missed'[u] = {}
      BY <1>1, <1>2, <1>3
    <2>2. QED
      BY <1>2, <2>1 DEF TxnOK
  <1>5. SnapshotsSound'
    <2>1. ASSUME NEW u \in Txn, Running(u)' PROVE Sound(snap'[u])
      BY <1>2, <1>3, <2>1 DEF Invariant, SnapshotsSound
    <2>2. QED
      BY <2>1 DEF SnapshotsSound
  <1>6. shift' = shift /\ sale' = sale /\ lease' = lease
    BY DEF docs
  <1>7. ASSUME NEW u \in Txn, Running(u)'
        PROVE  Grown(snap[u])' /\ Unchanged(snap[u], missed[u])'
               /\ Locked(snap[u], missed[u])'
    <2>1. PICK d, m : /\ d = snap'[u] /\ m = missed'[u]
                      /\ Grown(d) /\ Unchanged(d, m) /\ Locked(d, m)
      BY <1>2, <1>3, <1>7 DEF Invariant, SnapshotsHold
    <2>2. Grown(snap[u])'
      BY <1>6, <2>1 DEF Grown
    <2>3. Unchanged(snap[u], missed[u])'
      BY <1>6, <2>1 DEF Unchanged
    <2>4. Locked(snap[u], missed[u])'
      BY <1>6, <2>1 DEF Locked
    <2>5. QED
      BY <2>2, <2>3, <2>4
  <1>8. QED
    BY <1>4, <1>5, <1>7 DEF SnapshotsHold

\* Every commit is a step of CashLedger; arrivals, retries and refusals are
\* stuttering steps of it.
LEMMA HandleStep ==
    ASSUME Invariant, NEW t \in Txn, Handle(t)
    PROVE  /\ [LedgerNext]_docs
           /\ TxnOK(Database)' /\ SnapshotsHold' /\ SnapshotsSound'
  <1>1. CASE \/ CommitOpen(t) \/ CommitDrawer(t) \/ CommitSell(t)
             \/ CommitReverseForCash(t) \/ CommitReverseNoCash(t)
             \/ CommitCloseOwn(t) \/ CommitCloseById(t)
             \/ CommitIssueLease(t) \/ CommitRelease(t)
             \/ CommitSyncOpen(t) \/ CommitSyncLate(t)
    <2>1. [LedgerNext]_docs /\ \E W : Commit(t, W) /\ Covers(W)
      BY <1>1, OpenStep, DrawerStep, SellStep, CashReversalStep, NoCashReversalStep,
         CloseStep, LeaseStep, ReleaseStep, SyncOpenStep, SyncLateStep
    <2>2. QED
      BY <2>1, CommitKeeps
  <1>2. CASE \/ ArriveOpen(t) \/ ArriveSale(t) \/ ArriveOther(t)
             \/ Rerun(t) \/ Refuse(t)
    <2>1. /\ UNCHANGED docs
          /\ \/ \E request : Begin(t, request, Current)
             \/ Retry(t, Current)
             \/ Abort(t)
      BY <1>2 DEF ArriveOpen, ArriveSale, ArriveOther, Arrive, Rerun, Refuse
    <2>2. TxnOK(Database)' /\ SnapshotsHold' /\ SnapshotsSound'
      BY <2>1, OtherKeeps
    <2>3. QED
      BY <2>1, <2>2
  <1>3. QED
    BY <1>1, <1>2 DEF Handle

LEMMA InvariantInit == Init => Invariant
  <1> SUFFICES ASSUME Init PROVE Invariant
    OBVIOUS
  <1>1. Consistent
    BY InitConsistent DEF Init
  <1>2. \A t \in Txn : ~Running(t) /\ missed[t] = {}
    BY DEF Init, TxnInit, Running
  <1>3. TxnOK(Database)
    BY <1>2 DEF Init, TxnInit, TxnOK
  <1>4. QED
    BY <1>1, <1>2, <1>3 DEF Invariant, TypeOK, Consistent, SnapshotsHold, SnapshotsSound

LEMMA InvariantStep == Invariant /\ [Next]_vars => Invariant' /\ [LedgerNext]_docs
  <1> SUFFICES ASSUME Invariant, [Next]_vars PROVE Invariant' /\ [LedgerNext]_docs
    OBVIOUS
  <1>1. CASE Next
    <2>1. PICK t \in Txn : Handle(t)
      BY <1>1 DEF Next
    <2>2. [LedgerNext]_docs /\ TxnOK(Database)' /\ SnapshotsHold' /\ SnapshotsSound'
      BY <2>1, HandleStep
    <2>3. Consistent'
      BY <2>2, StepConsistent DEF Invariant
    <2>4. QED
      BY <2>2, <2>3 DEF Invariant, TypeOK, Consistent
  <1>2. CASE UNCHANGED vars
    <2>1. UNCHANGED docs /\ UNCHANGED txnVars
      BY <1>2 DEF vars
    <2>2. Consistent'
      BY <2>1, StepConsistent DEF Invariant
    <2>3. TxnOK(Database)'
      BY <2>1 DEF Invariant, TypeOK, TxnOK, Running, txnVars
    <2>4. SnapshotsHold'
      BY <2>1 DEF Invariant, SnapshotsHold, Grown, Unchanged, Locked, Running,
         docs, txnVars
    <2>5. SnapshotsSound'
      BY <2>1 DEF Invariant, SnapshotsSound, Running, txnVars
    <2>6. QED
      BY <2>1, <2>2, <2>3, <2>4, <2>5 DEF Invariant, TypeOK, Consistent
  <1>3. QED
    BY <1>1, <1>2

-----------------------------------------------------------------------------

\* However requests interleave, and whatever subset of them is retried or
\* refused, the documents stay consistent and every running request can rely
\* on what its snapshot and its write set tell it.
THEOREM LedgerInvariant == Spec => []Invariant
  BY InvariantInit, InvariantStep, PTL DEF Spec

\* The transactions of the shift, sales and offline services are serializable
\* in the order of their commits: each acts on the documents as one step of
\* CashLedger does.
THEOREM Serializable == Spec => ImplementsCashLedger
  <1>1. Init => LedgerInit
    BY DEF Init
  <1>2. QED
    BY <1>1, LedgerInvariant, InvariantStep, PTL DEF Spec, LedgerSpec, ImplementsCashLedger

\* The documents and the transactions keep their types.
THEOREM ShiftTypeOK == Spec => []TypeOK
  <1>1. Invariant => TypeOK
    BY DEF Invariant
  <1>2. QED
    BY <1>1, LedgerInvariant, PTL

\* No sale and no drawer movement that races with the close of its shift is
\* lost from the Z-read: it is in it, or it is not in the shift.
THEOREM ZReadNeverMisses == Spec => []ZReadComplete
  <1>1. Invariant => ZReadComplete
    BY DEF Invariant, Consistent
  <1>2. QED
    BY <1>1, LedgerInvariant, PTL

\* The cash of a reversed sale leaves one drawer once, however many requests try
\* to reverse it at the same time and whichever shifts they find open.
THEOREM ReversalsPayOnce == Spec => []PaidBackOnce
  <1>1. Invariant => PaidBackOnce
    BY DEF Invariant, Consistent
  <1>2. QED
    BY <1>1, LedgerInvariant, PTL

\* A reversal that races with the close of the sale's shift is either in the
\* Z-read and paid by that drawer, or in neither.
THEOREM ReversalsSettle == Spec => []ZReadSettled
  <1>1. Invariant => ZReadSettled
    BY DEF Invariant, Consistent
  <1>2. QED
    BY <1>1, LedgerInvariant, PTL

\* A cashier's own close never leaves a terminal with an active offline lease,
\* not even one that is issued while the close runs.
THEOREM OwnCloseHasNoLease == Spec => []OwnCloseDrains
  <1>1. Invariant => OwnCloseDrains
    BY DEF Invariant, Consistent
  <1>2. QED
    BY <1>1, LedgerInvariant, PTL

\* A cashier never has two shifts open, although openShift looks for one in a
\* snapshot: the index of open shifts by cashier is in its write set.
THEOREM OneShiftOpen == Spec => []OneOpenShift
  <1>1. Invariant => OneOpenShift
    BY DEF Invariant, Consistent
  <1>2. QED
    BY <1>1, LedgerInvariant, PTL

\* What the guards and the Z-read of an operation read in its snapshot is still
\* so when it commits: the lock bumps cover everything that is only read.
THEOREM SnapshotsAreCurrent == Spec => []SnapshotsHold
  <1>1. Invariant => SnapshotsHold
    BY DEF Invariant
  <1>2. QED
    BY <1>1, LedgerInvariant, PTL

\* A terminal holds at most one active lease on a shift.
THEOREM OneLeaseEach == Spec => []OneLeasePerTerminal
  <1>1. Invariant => OneLeasePerTerminal
    BY DEF Invariant, Consistent
  <1>2. QED
    BY <1>1, LedgerInvariant, PTL

\* An offline sale that reaches a shift after its Z-read never goes unreported:
\* the shift is closed and announces the addendum.
THEOREM LateSalesCounted == Spec => []LateSalesReported
  <1>1. Invariant => LateSalesReported
    BY DEF Invariant, Consistent
  <1>2. QED
    BY <1>1, LedgerInvariant, PTL

\* A closed shift, with its Z-read, and a reversed sale are never written again,
\* but for the mark that late offline sales leave on the shift.
THEOREM FinalDocuments == Spec => ClosedIsFinal /\ ReversedIsFinal
  BY Serializable, LedgerFinal DEF ImplementsCashLedger

\* A cashier's reversal commits only while the sale's shift is open and theirs:
\* it always writes that shift, to pay from it or to bump its reversalCount.
LEMMA OwnReversal ==
    ASSUME Invariant, NEW t \in Txn, NEW c \in Cashier, NEW s \in Sale,
           NEW as \in Reversed, NEW named \in Shift \cup {Null},
           req[t] = AskReversal(c, s, as, named),
           CommitReverseForCash(t) \/ CommitReverseNoCash(t)
    PROVE  sale[s].shift \in Shift /\ OpenFor(shift, sale[s].shift, c)
  <1>1. PICK by \in Cashier \cup {Null}, x \in Sale, as1 \in Reversed,
             named1 \in Shift \cup {Null} :
          /\ req[t] = AskReversal(by, x, as1, named1)
          /\ MayReverse(snap[t], by, x, named1)
          /\ \/ \E sh \in PayoutShifts(snap[t].shift, snap[t].sale[x].shift, named1) :
                  Commit(t, {x, sh})
             \/ Commit(t, NoCashWrites(snap[t], x))
    BY DEF CommitReverseForCash, CommitReverseNoCash, PayoutWrites
  <1>2. by = c /\ x = s /\ c # Null /\ Running(t)
    BY <1>1 DEF AskReversal, Running, Idle
  <1>3. PICK sh \in Shift : OpenFor(snap[t].shift, sh, c) /\ snap[t].sale[s].shift = sh
    BY <1>1, <1>2 DEF MayReverse
  <1>4. named1 = Null
    BY <1>1, <1>2 DEF MayReverse
  <1>5. PICK W : Commit(t, W) /\ s \in W /\ sh \in W
    <2>1. CASE Commit(t, NoCashWrites(snap[t], x))
      BY <1>2, <1>3, <2>1 DEF NoCashWrites, OpenFor, IsOpen
    <2>2. CASE \E p \in PayoutShifts(snap[t].shift, snap[t].sale[x].shift, named1) :
                 Commit(t, {x, p})
      BY <1>2, <1>3, <2>2 DEF PayoutShifts, OpenFor, IsOpen
    <2>3. QED
      BY <1>1, <2>1, <2>2
  <1>6. snap[t].sale[s] = sale[s] /\ snap[t].shift[sh] = shift[sh]
    BY <1>2, <1>5, Rely
  <1>7. QED
    BY <1>3, <1>6 DEF OpenFor

\* The check visibleReversalSale made on the snapshot still holds when a
\* cashier's reversal takes effect.
THEOREM CashierReversals == Spec => CashierReversesInOwnShift
  <1> DEFINE A == \A t \in Txn, c \in Cashier, s \in Sale :
         (req[t] \in CashierReversal(c, s) /\ sale'[s].status # sale[s].status
            /\ req'[t] = Idle)
         => sale[s].shift \in Shift /\ OpenFor(shift, sale[s].shift, c)
  <1>1. ASSUME Invariant, NEW t \in Txn, NEW c \in Cashier, NEW s \in Sale,
               req[t] \in CashierReversal(c, s),
               sale'[s].status # sale[s].status, req'[t] = Idle, [Next]_vars
        PROVE  sale[s].shift \in Shift /\ OpenFor(shift, sale[s].shift, c)
    <2>1. PICK as \in Reversed, named \in Shift \cup {Null} :
            req[t] = AskReversal(c, s, as, named)
      BY <1>1 DEF CashierReversal
    <2>2. sale' # sale /\ req[t] # Idle /\ req[t].op = "reverse"
      BY <1>1, <2>1 DEF AskReversal, Idle
    <2>3. PICK u \in Txn : Handle(u)
      BY <1>1, <2>2 DEF Next, vars, docs
    <2>4. \/ CommitSell(u) \/ CommitSyncOpen(u) \/ CommitSyncLate(u)
          \/ CommitReverseForCash(u) \/ CommitReverseNoCash(u)
      BY <2>2, <2>3 DEF Handle, ArriveOpen, ArriveSale, ArriveOther, Arrive, docs,
         CommitOpen, CommitDrawer, CommitCloseOwn, CommitCloseById, CloseShift,
         CommitIssueLease, CommitRelease, Rerun, Refuse
    <2>5. /\ req[u].op \in {"sell", "sync", "reverse"}
          /\ req[u].op = "reverse" => CommitReverseForCash(u) \/ CommitReverseNoCash(u)
          /\ \E W : Commit(u, W)
      <3>1. CASE CommitSell(u)
        BY <3>1 DEF CommitSell, AskSale
      <3>2. CASE CommitSyncOpen(u)
        BY <3>2 DEF CommitSyncOpen, AskSync
      <3>3. CASE CommitSyncLate(u)
        BY <3>3 DEF CommitSyncLate, AskSync
      <3>4. CASE CommitReverseForCash(u)
        <4>1. req[u].op = "reverse"
          BY <3>4 DEF CommitReverseForCash, AskReversal
        <4>2. \E W : Commit(u, W)
          BY <3>4 DEF CommitReverseForCash
        <4>3. QED
          BY <3>4, <4>1, <4>2
      <3>5. CASE CommitReverseNoCash(u)
        <4>1. req[u].op = "reverse"
          BY <3>5 DEF CommitReverseNoCash, AskReversal
        <4>2. \E W : Commit(u, W)
          BY <3>5 DEF CommitReverseNoCash
        <4>3. QED
          BY <3>5, <4>1, <4>2
      <3>6. QED
        BY <2>4, <3>1, <3>2, <3>3, <3>4, <3>5
    <2>6. u = t
      BY <1>1, <2>2, <2>5 DEF Commit, Invariant, TypeOK, TxnOK
    <2>7. QED
      BY <1>1, <2>1, <2>2, <2>5, <2>6, OwnReversal
  <1>2. Invariant /\ [Next]_vars => [A]_vars
    BY <1>1
  <1>3. QED
    BY <1>2, LedgerInvariant, PTL DEF Spec, CashierReversesInOwnShift

=============================================================================
