----------------------------- MODULE ShiftDocs -----------------------------
(***************************************************************************)
(* The documents a cash shift is made of, as MongoDB stores them: shifts   *)
(* with their drawer movements and Z-read, sales, and the leases that let  *)
(* a terminal sell offline into a shift.  Shared by the abstract ledger    *)
(* (CashLedger) and by the transactions that implement it (ShiftLedger).   *)
(*                                                                         *)
(* Amounts are abstracted to what the control flow tells apart: whether a  *)
(* sale brought net cash into the drawer.  A Z-read is kept as the sets    *)
(* its sums range over, so "the Z-read misses a sale" is a set difference  *)
(* and not an arithmetic coincidence.                                      *)
(***************************************************************************)
EXTENDS Naturals, Sequences

CONSTANTS
    Cashier,     \* users with the SELLER role
    Shift,       \* ids of shift documents
    Sale,        \* ids of sale documents, one per idempotency key
    Lease,       \* ids of offline leases
    Terminal,    \* terminal ids
    Session,     \* login sessions (sid)
    Legacy,      \* sales recorded before shifts existed
    Null         \* an unset reference

ASSUME NullAssumption ==
    /\ Null \notin Shift
    /\ Null \notin Sale
    /\ Null \notin Cashier
    /\ Legacy \subseteq Sale

Reversed == {"VOIDED", "REFUNDED"}

\* A cash in and a cash drop differ only in their sign in the Z-read.
DrawerMove == [type |-> "DRAWER", sale |-> Null]
Payout(s)  == [type |-> "REVERSAL_PAYOUT", sale |-> s]
Movement   == {DrawerMove} \cup {Payout(s) : s \in Sale}

ZReads == [sales : SUBSET Sale, voids : SUBSET Sale, refunds : SUBSET Sale,
           movements : Seq(Movement)]
NoZRead == [sales |-> {}, voids |-> {}, refunds |-> {}, movements |-> << >>]

ShiftDoc == [status    : {"NONE", "OPEN", "CLOSED"},
             cashier   : Cashier \cup {Null},
             movements : Seq(Movement),
             zRead     : ZReads,
             closedBy  : {"nobody", "cashier", "admin"},
             addendum  : BOOLEAN]      \* lateOfflineCount > 0

SaleDoc == [status      : {"NONE", "COMPLETED"} \cup Reversed,
            cashier     : Cashier \cup {Null},
            shift       : Shift \cup {Null},
            cash        : BOOLEAN,     \* saleNetCash(sale) > 0
            lateOffline : BOOLEAN,
            payoutShift : Shift \cup {Null}]

LeaseDoc == [status   : {"NONE", "ACTIVE", "INACTIVE"},
             shift    : Shift \cup {Null},
             terminal : Terminal \cup {Null},
             sid      : Session \cup {Null}]

Database == [shift : [Shift -> ShiftDoc], sale : [Sale -> SaleDoc],
             lease : [Lease -> LeaseDoc]]

NewShift(c) == [status |-> "OPEN", cashier |-> c, movements |-> << >>,
                zRead |-> NoZRead, closedBy |-> "nobody", addendum |-> FALSE]
NewSale(c, sh, cash, late) ==
    [status |-> "COMPLETED", cashier |-> c, shift |-> sh, cash |-> cash,
     lateOffline |-> late, payoutShift |-> Null]

NoShiftDoc == [status |-> "NONE", cashier |-> Null, movements |-> << >>,
               zRead |-> NoZRead, closedBy |-> "nobody", addendum |-> FALSE]
NoSaleDoc  == [status |-> "NONE", cashier |-> Null, shift |-> Null, cash |-> FALSE,
               lateOffline |-> FALSE, payoutShift |-> Null]
NoLeaseDoc == [status |-> "NONE", shift |-> Null, terminal |-> Null, sid |-> Null]

-----------------------------------------------------------------------------

\* The shift is open, and it is c's.
OpenFor(shifts, sh, c) == shifts[sh].status = "OPEN" /\ shifts[sh].cashier = c

IsOpen(shifts, sh) == sh \in Shift /\ shifts[sh].status = "OPEN"

SalesOf(sales, sh) == {s \in Sale : sales[s].shift = sh /\ sales[s].status # "NONE"}

ActiveLeasesOf(leases, sh) ==
    {l \in Lease : leases[l].shift = sh /\ leases[l].status = "ACTIVE"}

\* The filter of reverse's claim: not reversed yet.
Reversible(saleDoc) == saleDoc.status \notin {"NONE"} \cup Reversed

\* What computeZRead sums up: every sale rung into the shift, reversed ones
\* included, and the shift's movements.
ZReadOf(shifts, sales, sh) ==
    LET rung == SalesOf(sales, sh)
    IN  [sales     |-> rung,
         voids     |-> {s \in rung : sales[s].status = "VOIDED"},
         refunds   |-> {s \in rung : sales[s].status = "REFUNDED"},
         movements |-> shifts[sh].movements]

\* A sale that arrives after the close raises the shift's lateOfflineCount.
LateMarkForgotten(shifts, sh) == shifts
LateMark(shifts, sh) == [shifts EXCEPT ![sh].addendum = TRUE]

\* The drawer a reversal pays its cash from: the sale's own shift while it is
\* open, else the open shift the admin named; Null if there is neither.
\* Naming another shift while the sale's own one is open is refused.
PayoutShifts(shifts, saleShift, named) ==
    IF IsOpen(shifts, saleShift)
    THEN {sh \in {saleShift} : named \in {Null, saleShift}}
    ELSE {sh \in {named} : IsOpen(shifts, named)}

=============================================================================
