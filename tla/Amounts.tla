------------------------------ MODULE Amounts ------------------------------
(***************************************************************************)
(* The arithmetic of money and quantities that the register, the server    *)
(* and the reports share (packages/contracts quantity.ts, discount.ts and  *)
(* shift.ts, the register's checkout.ts and the server's tender.ts).  All  *)
(* money is integer centavos and every quantity is stored in minor units:  *)
(* Scale of them make one displayed unit of a weighed product.             *)
(*                                                                         *)
(* Scale is 1000, AmountMax is 1,000,000,000, QuickSteps are the notes of  *)
(* 20 to 1,000 pesos and QuickMax is 4 in the program; the divisor 100 of  *)
(* a percent is kept as it is.                                             *)
(***************************************************************************)
EXTENDS Integers, Sequences, FiniteSets, SequencesExt, FiniteSetsExt

CONSTANTS
    Scale,       \* minor units of one kilogram or litre
    AmountMax,   \* NUMERIC_LIMITS.AMOUNT_MAX
    QuickSteps,  \* QUICK_CASH_STEPS, ascending
    QuickMax     \* QUICK_CASH_MAX

ScaleAssumption == Scale \in Nat \ {0}
AmountMaxAssumption == AmountMax \in Nat \ {0}
QuickAssumption == QuickSteps \in Seq(Nat \ {0}) /\ QuickMax \in Nat

(* ------------------------------ quantities ----------------------------- *)

Units == {"PIECE", "KG"}

\* One displayed kilogram is Scale stored grams.
QuantityScale(unit) == IF unit = "KG" THEN Scale ELSE 1

\* A line's total, rounded half up once.
QuantityAmount(price, quantity, unit) ==
    LET scale == QuantityScale(unit)
    IN  (price * quantity + scale \div 2) \div scale

\* The most of a product at this price that an amount pays for.
MaxQuantityForAmount(amount, price, unit) ==
    LET scale == QuantityScale(unit)
    IN  (Max({0, amount}) * scale + (scale - 1) \div 2) \div Max({1, price})

(* ------------------------------- discounts ----------------------------- *)

\* Centavos off a subtotal: a percent is rounded half up, a fixed amount is
\* taken as it is.
DiscountAmount(subtotal, discount) ==
    IF discount.type = "PERCENT"
    THEN (subtotal * discount.value + 50) \div 100
    ELSE discount.value

Off(subtotal, discount) ==
    IF discount.type = "NONE" THEN 0 ELSE DiscountAmount(subtotal, discount)

\* What the register shows: the same arithmetic, and whether the server
\* would refuse a discount of nothing or a sale of nothing.
PreviewSale(subtotal, discount) ==
    LET off == Off(subtotal, discount)
    IN  [total |-> subtotal - off,
         isChargeable |-> /\ discount.type = "NONE" \/ off >= 1
                          /\ subtotal - off >= 1]

\* A typed fixed discount the register takes, against the ticket's subtotal;
\* value 0 is a field that holds no amount.
FixedDiscountFits(value, subtotal) ==
    value \in 1..AmountMax /\ value <= subtotal /\ subtotal - value >= 1

\* The server's own check of the discount asked for: its range, then what it
\* would take off.
DiscountRefused(subtotal, discount) ==
    /\ discount.type # "NONE"
    /\ \/ discount.value \notin 1..(IF discount.type = "PERCENT" THEN 100
                                    ELSE AmountMax)
       \/ discount.type = "FIXED" /\ discount.value > subtotal
       \/ DiscountAmount(subtotal, discount) < 1
       \/ subtotal - DiscountAmount(subtotal, discount) < 1

(* -------------------------------- tenders ------------------------------ *)

\* The next amounts above the total that notes of one kind add up to, the
\* larger notes first until QuickMax different amounts are found.
QuickCashAmounts(total) ==
    LET next(step) == ((total \div step) + 1) * step
        pick(step, found) ==
            IF Cardinality(found) < QuickMax /\ next(step) <= AmountMax
            THEN found \cup {next(step)} ELSE found
    IN  IF total > 0 THEN FoldRight(pick, QuickSteps, {}) ELSE {}

\* What the form sends, as a set of at most one payment: none while the form
\* cannot be confirmed yet.  cash is the typed amount of the chosen method.
BuildPayment(method, total, cash, hasReference) ==
    IF method = "CASH" \/ (method = "SPLIT" /\ cash >= total)
    THEN {payment \in {[type |-> "CASH", cash |-> cash, gcash |-> 0]} :
              cash >= total}
    ELSE IF ~hasReference THEN {}
    ELSE IF method = "GCASH"
    THEN {[type |-> "GCASH", cash |-> 0, gcash |-> total]}
    ELSE {payment \in {[type |-> "SPLIT", cash |-> cash,
                        gcash |-> total - cash]} : cash > 0}

\* Every tender of a request is from one centavo to AmountMax.
TenderInRange(amount) == amount \in 1..AmountMax

TendersOf(payment) ==
    (IF payment.type = "GCASH" THEN {} ELSE {payment.cash})
        \cup (IF payment.type = "CASH" THEN {} ELSE {payment.gcash})

\* The server's check of the tenders against the total it charges; the
\* change is whatever they exceed it by.
TendersRefused(payment, total) ==
    \/ payment.gcash > total
    \/ payment.type = "SPLIT" /\ payment.gcash >= total
    \/ payment.cash + payment.gcash < total

ChangeGiven(payment, total) == payment.cash + payment.gcash - total

\* Mutant: the change is forgotten.
CashTendered(sale) ==
    IF sale.legacy THEN IF sale.payment.type = "CASH" THEN sale.amount ELSE 0
    ELSE sale.payment.cash

\* The cash a sale left in the drawer; a sale stored before tenders existed
\* is all cash when it was a cash sale.
SaleNetCash(sale) ==
    IF sale.legacy THEN IF sale.payment.type = "CASH" THEN sale.amount ELSE 0
    ELSE IF sale.payment.cash > 0 THEN sale.payment.cash - sale.changeGiven
    ELSE 0
=============================================================================
