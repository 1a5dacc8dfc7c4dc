-------------------------------- MODULE Till --------------------------------
(***************************************************************************)
(* The money of one register, from the ticket to the Z-read: the cashier   *)
(* builds a ticket under the amount limit, discounts it, fills the         *)
(* checkout form and confirms; the server prices the lines again, checks   *)
(* the discount and the tenders and records the sale; a refused sale       *)
(* refreshes the ticket's prices for the retry; recorded sales are voided  *)
(* or refunded, and the shift's figures are added up from what is stored.  *)
(*                                                                         *)
(* The register and the server compute everything twice, from different    *)
(* code and, when an admin changes a price, from different prices.         *)
(***************************************************************************)
EXTENDS Amounts

CONSTANTS
    Products,
    Unit,        \* [Products -> Units]
    PriceSet,    \* the prices an admin sets
    Quantities,  \* the quantities a cashier types
    Discounts,   \* the discounts a cashier picks, a mistyped amount as 0
    CashTyped,   \* the amounts typed as cash, 0 for a blank or unreadable one
    Legacy,      \* whether the shift starts with a sale stored before tenders
    MaxSales,    \* bound on the sales of the shift
    MaxChanges   \* bound on the price changes

NoDiscount == [type |-> "NONE", value |-> 0]

TillAssumption ==
    /\ IsFiniteSet(Products)
    /\ Unit \in [Products -> Units]
    /\ PriceSet \subseteq 1..AmountMax
    /\ Quantities \subseteq Nat \ {0}
    /\ Discounts \subseteq [type : {"PERCENT", "FIXED"}, value : Nat]
    /\ CashTyped \subseteq Nat /\ 0 \in CashTyped
    /\ Legacy \in BOOLEAN /\ MaxSales \in Nat /\ MaxChanges \in Nat

VARIABLES
    prices,    \* the server's price of each product
    ticket,    \* product -> [quantity, unitPrice]; quantity 0 is no line
    discount,  \* the ticket's discount
    form,      \* the checkout form
    request,   \* the sale being sent, as a set of at most one
    refusal,   \* why the last sale was refused, as a set of at most one
    sales,     \* the shift's recorded sales
    payouts,   \* cash paid back out of the drawer for reversed sales
    taken,     \* cash and GCash the customers paid, net of change
    changes    \* price changes so far

vars == << prices, ticket, discount, form, request, refusal, sales, payouts,
           taken, changes >>

Methods == {"CASH", "GCASH", "SPLIT"}
NoLine == [quantity |-> 0, unitPrice |-> 0]
ClosedForm == [open |-> FALSE, method |-> "CASH", tendered |-> 0, split |-> 0,
               hasReference |-> FALSE]

OnTicket == {p \in Products : ticket[p].quantity > 0}
Processing == request # {}

(* ------------------------------ the ticket ----------------------------- *)

LineAmount(lines, p) ==
    QuantityAmount(lines[p].unitPrice, lines[p].quantity, Unit[p])

Subtotal(lines, on) == MapThenSumSet(LAMBDA p : LineAmount(lines, p), on)

\* The most units of a product the ticket can hold, the others as they are.
MaxQuantity(p, unitPrice) ==
    MaxQuantityForAmount(AmountMax - Subtotal(ticket, OnTicket \ {p}),
                         unitPrice, Unit[p])

Preview == PreviewSale(Subtotal(ticket, OnTicket), discount)

\* The ticket is free to edit: no checkout is over it.
Editable == ~form.open

\* A scan adds a quantity at the price just read; a line that is on the
\* ticket keeps its own price.
Add(p, quantity) ==
    LET unitPrice == IF p \in OnTicket THEN ticket[p].unitPrice
                     ELSE prices[p]
    IN  /\ Editable
        /\ quantity <= MaxQuantity(p, unitPrice) - ticket[p].quantity
        /\ ticket' = [ticket EXCEPT ![p] =
               [quantity |-> @.quantity + quantity, unitPrice |-> unitPrice]]
        /\ UNCHANGED << prices, discount, form, request, refusal, sales,
                        payouts, taken, changes >>

SetQuantity(p, quantity) ==
    /\ Editable /\ p \in OnTicket
    /\ quantity <= MaxQuantity(p, ticket[p].unitPrice)
    /\ ticket' = [ticket EXCEPT ![p].quantity = quantity]
    /\ UNCHANGED << prices, discount, form, request, refusal, sales,
                    payouts, taken, changes >>

RemoveLine(p) ==
    /\ Editable /\ p \in OnTicket
    /\ ticket' = [ticket EXCEPT ![p] = NoLine]
    /\ UNCHANGED << prices, discount, form, request, refusal, sales,
                    payouts, taken, changes >>

SetDiscount(d) ==
    /\ Editable
    /\ discount' = d
    /\ UNCHANGED << prices, ticket, form, request, refusal, sales, payouts,
                    taken, changes >>

(* ----------------------------- the checkout ---------------------------- *)

CanCheckout ==
    /\ OnTicket # {}
    /\ discount.type = "FIXED" =>
           FixedDiscountFits(discount.value, Subtotal(ticket, OnTicket))
    /\ Preview.isChargeable

\* The form opens empty on the method picked.
OpenCheckout(method) ==
    /\ Editable /\ CanCheckout
    /\ form' = [ClosedForm EXCEPT !.open = TRUE, !.method = method]
    /\ UNCHANGED << prices, ticket, discount, request, refusal, sales,
                    payouts, taken, changes >>

\* Going to cash with nothing typed starts from the exact amount.
SelectMethod(method) ==
    /\ form.open /\ ~Processing
    /\ form' = [form EXCEPT !.method = method,
                            !.tendered = IF method = "CASH" /\ @ = 0
                                         THEN Preview.total ELSE @]
    /\ UNCHANGED << prices, ticket, discount, request, refusal, sales,
                    payouts, taken, changes >>

Tender(cash) ==
    /\ form.open /\ ~Processing /\ form.method # "GCASH"
    /\ form' = IF form.method = "CASH" THEN [form EXCEPT !.tendered = cash]
               ELSE [form EXCEPT !.split = cash]
    /\ UNCHANGED << prices, ticket, discount, request, refusal, sales,
                    payouts, taken, changes >>

\* The exact amount and the quick amounts fill the cash field.
QuickCash ==
    /\ form.method = "CASH"
    /\ \E cash \in {Preview.total} \cup QuickCashAmounts(Preview.total) :
           Tender(cash)

\* A valid reference is typed; the field shows while GCash pays a part.
TypeReference ==
    /\ form.open /\ ~Processing
    /\ \/ form.method = "GCASH"
       \/ form.method = "SPLIT" /\ form.split \in 1..(Preview.total - 1)
    /\ form' = [form EXCEPT !.hasReference = TRUE]
    /\ UNCHANGED << prices, ticket, discount, request, refusal, sales,
                    payouts, taken, changes >>

Payment ==
    BuildPayment(form.method, Preview.total,
                 IF form.method = "SPLIT" THEN form.split ELSE form.tendered,
                 form.hasReference)

\* Confirm sends the lines, the discount and the payment, never an amount.
Finish ==
    /\ form.open /\ ~Processing
    /\ \E payment \in Payment :
           request' = {[payment |-> payment, shown |-> Preview.total]}
    /\ refusal' = {}
    /\ UNCHANGED << prices, ticket, discount, form, sales, payouts, taken,
                    changes >>

Back ==
    /\ form.open /\ ~Processing
    /\ form' = ClosedForm /\ refusal' = {}
    /\ UNCHANGED << prices, ticket, discount, request, sales, payouts, taken,
                    changes >>

(* ------------------------------ the server ----------------------------- *)

ServerLines == [p \in Products |-> [ticket[p] EXCEPT !.unitPrice = prices[p]]]

\* A line may be no more than what is left of the limit pays for, taken in
\* the ticket's order; any order refuses the same tickets.
OverLimit == Subtotal(ServerLines, OnTicket) > AmountMax

\* The lines are priced at the server's prices: the register's were current.
PricesCurrent == \A p \in OnTicket : ticket[p].unitPrice = prices[p]

Refused(payment) ==
    LET subtotal == Subtotal(ServerLines, OnTicket)
    IN  \/ OverLimit
        \/ \E amount \in TendersOf(payment) : ~TenderInRange(amount)
        \/ DiscountRefused(subtotal, discount)
        \/ TendersRefused(payment, subtotal - Off(subtotal, discount))

\* The sale is recorded at what the server charges, and the receipt clears
\* the ticket and closes the form.
Sell ==
    LET subtotal == Subtotal(ServerLines, OnTicket)
        total == subtotal - Off(subtotal, discount)
    IN  \E r \in request :
            /\ ~Refused(r.payment)
            /\ sales' = Append(sales,
                   [amount |-> total, payment |-> r.payment,
                    changeGiven |-> ChangeGiven(r.payment, total),
                    discount |-> Off(subtotal, discount), status |-> "SOLD",
                    legacy |-> FALSE, shown |-> r.shown,
                    current |-> PricesCurrent])
            /\ taken' = [cash |-> taken.cash + r.payment.cash
                                  - ChangeGiven(r.payment, total),
                         gcash |-> taken.gcash + r.payment.gcash]
            /\ ticket' = [p \in Products |-> NoLine]
            /\ discount' = NoDiscount
            /\ form' = ClosedForm
            /\ request' = {}
            /\ UNCHANGED << prices, refusal, payouts, changes >>

\* Nothing is recorded; the register reads the prices again when it can, and
\* the form stays open with the amounts typed.
Refuse ==
    \E r \in request :
        /\ Refused(r.payment)
        /\ refusal' = {[current |-> PricesCurrent,
                      chargeable |-> CanCheckout /\ ~OverLimit]}
        /\ ticket' \in {ticket,
                        [p \in Products |-> IF p \in OnTicket
                                            THEN ServerLines[p] ELSE NoLine]}
        /\ request' = {}
        /\ UNCHANGED << prices, discount, form, sales, payouts, taken,
                        changes >>

\* A void or a refund pays the sale's net cash back out of the drawer.
ReverseSale(i, status) ==
    /\ sales[i].status = "SOLD"
    /\ sales' = [sales EXCEPT ![i].status = status]
    /\ payouts' = payouts + SaleNetCash(sales[i])
    /\ UNCHANGED << prices, ticket, discount, form, request, refusal, taken,
                    changes >>

\* An admin sets a product's price.
ChangePrice(p, price) ==
    /\ changes < MaxChanges /\ price # prices[p]
    /\ prices' = [prices EXCEPT ![p] = price]
    /\ changes' = changes + 1
    /\ UNCHANGED << ticket, discount, form, request, refusal, sales, payouts,
                    taken >>

LegacySale ==
    [amount |-> 1, payment |-> [type |-> "CASH", cash |-> 0, gcash |-> 0],
     changeGiven |-> 0, discount |-> 0, status |-> "SOLD", legacy |-> TRUE,
     shown |-> 1, current |-> TRUE]

Init ==
    /\ prices \in [Products -> PriceSet]
    /\ ticket = [p \in Products |-> NoLine]
    /\ discount = NoDiscount
    /\ form = ClosedForm
    /\ request = {} /\ refusal = {}
    /\ sales = IF Legacy THEN << LegacySale >> ELSE << >>
    /\ payouts = 0
    /\ taken = [cash |-> IF Legacy THEN 1 ELSE 0, gcash |-> 0]
    /\ changes = 0

Next ==
    \/ \E p \in Products :
           \/ \E quantity \in Quantities :
                  /\ Len(sales) < MaxSales
                  /\ Add(p, quantity) \/ SetQuantity(p, quantity)
           \/ RemoveLine(p)
           \/ \E price \in PriceSet : ChangePrice(p, price)
    \/ \E d \in Discounts \cup {NoDiscount} : SetDiscount(d)
    \/ \E method \in Methods : OpenCheckout(method) \/ SelectMethod(method)
    \/ \E cash \in CashTyped : Tender(cash)
    \/ QuickCash \/ TypeReference \/ Finish \/ Back
    \/ Sell \/ Refuse
    \/ \E i \in DOMAIN sales, status \in {"VOIDED", "REFUNDED"} :
           ReverseSale(i, status)

Spec == Init /\ [][Next]_vars

(* ------------------------------- the Z-read ---------------------------- *)

Total(of(_), test(_)) ==
    MapThenSumSet(of, {i \in DOMAIN sales : test(sales[i])})

Amount(i) == sales[i].amount
NetCash(i) == SaleNetCash(sales[i])

\* The sales and tender figures of the shift, with the drawer's net cash.
ZRead ==
    LET gross == Total(Amount, LAMBDA s : TRUE)
        cash == Total(NetCash, LAMBDA s : TRUE)
    IN  [gross |-> gross, cash |-> cash, gcash |-> gross - cash,
         net |-> gross - Total(Amount, LAMBDA s : s.status = "VOIDED")
                       - Total(Amount, LAMBDA s : s.status = "REFUNDED"),
         expectedCash |-> cash - payouts]

(* ------------------------------ properties ----------------------------- *)

TypeOK ==
    /\ prices \in [Products -> PriceSet]
    /\ ticket \in [Products -> [quantity : Nat, unitPrice : Nat]]
    /\ discount \in Discounts \cup {NoDiscount}
    /\ form \in [open : BOOLEAN, method : Methods, tendered : Int,
                 split : Nat, hasReference : BOOLEAN]
    /\ Processing => form.open
    /\ Cardinality(request) <= 1 /\ Cardinality(refusal) <= 1
    /\ taken \in [cash : Nat, gcash : Nat] /\ payouts \in Nat

\* What the register lets the cashier confirm is what the server accepts:
\* with the ticket's prices current, a confirmed sale is never refused for
\* its discount or its tenders.  Only a retry of a ticket that the refreshed
\* prices took over the amount limit, or left nothing of to charge, is: the
\* open form does not look at that again.  It holds for typed cash up to
\* AmountMax.
RefusedOnlyWhenStale ==
    \A r \in refusal : r.current => ~r.chargeable

\* The same without a limit on the cash typed: "Mirrors the server's checks
\* against the previewed total" (checkout.ts, buildPayment).
MirrorsServer == \A r \in refusal : ~r.current

\* A sale charged at the prices the cashier saw is charged the total the
\* cashier saw, and a recorded sale is always covered by its tenders, with
\* the change paid out of the cash alone.
ChargedAsShown ==
    \A i \in DOMAIN sales :
        LET s == sales[i]
        IN  /\ s.current => s.amount = s.shown
            /\ s.amount \in 1..AmountMax
            /\ ~s.legacy =>
                   /\ s.payment.cash + s.payment.gcash - s.changeGiven
                          = s.amount
                   /\ s.changeGiven \in 0..s.payment.cash
                   /\ s.payment.type = "SPLIT" =>
                          s.payment.cash > 0 /\ s.payment.gcash > 0

\* The stored sales add up to the money that changed hands: the Z-read's
\* cash and GCash are what the customers paid, and the cash expected in the
\* drawer is never more than the cash that came in and not been paid back.
FiguresAddUp ==
    /\ ZRead.cash = taken.cash
    /\ ZRead.gcash = taken.gcash
    /\ ZRead.expectedCash >= 0
    /\ ZRead.net >= 0
    /\ (\A i \in DOMAIN sales : sales[i].status # "SOLD") =>
           ZRead.expectedCash = 0 /\ ZRead.net = 0

\* The limit the register works out for a line is exact: the ticket at that
\* quantity is within the amount limit and one more unit is over it, so no
\* quantity the server would charge is refused at the register.
LimitIsExact ==
    \A p \in OnTicket :
        LET most == MaxQuantity(p, ticket[p].unitPrice)
            at(q) == Subtotal([ticket EXCEPT ![p].quantity = q], OnTicket)
        IN  Subtotal(ticket, OnTicket \ {p}) <= AmountMax =>
                at(most) <= AmountMax /\ at(most + 1) > AmountMax

\* Every quick amount on the cash form pays the sale with change to give,
\* is within what the server takes, and is the next amount up in one of the
\* notes; the largest note that fits is always among them.
QuickCashPays ==
    (form.open /\ Preview.total > 0) =>
        LET amounts == QuickCashAmounts(Preview.total)
            steps == {QuickSteps[i] : i \in DOMAIN QuickSteps}
            nextUp(step) == CHOOSE a \in (Preview.total + 1)..
                                         (Preview.total + step) :
                                a % step = 0
            fitting == {step \in steps : nextUp(step) <= AmountMax}
        IN  /\ Cardinality(amounts) <= QuickMax
            /\ \A a \in amounts :
                   /\ a \in {nextUp(step) : step \in fitting}
                   /\ \A payment \in BuildPayment("CASH", Preview.total, a,
                                                  FALSE) :
                          /\ ChangeGiven(payment, Preview.total) > 0
                          /\ TenderInRange(payment.cash)
            /\ fitting # {} =>
                   \E a \in amounts : a = nextUp(Max(fitting))

=============================================================================
