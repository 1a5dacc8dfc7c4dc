----------------------------- MODULE StockBook -----------------------------
(***************************************************************************)
(* What the shelf stock of a product promises whoever reads it: a quantity *)
(* on hand that every delivery, sale, return and correction changes once,  *)
(* the quantity its lots add up to once its expiry dates are tracked, and  *)
(* whether an offline sale has ever taken more than there was.  Each step  *)
(* is a whole request; Stock shows that the API's transactions implement   *)
(* it.                                                                     *)
(***************************************************************************)
EXTENDS Integers

CONSTANTS
    Product,
    Quantity     \* amounts a request moves

QuantityAssumption == Quantity \subseteq Nat \ {0}

VARIABLES
    onHand,    \* units in the inventory row
    lots,      \* sum of the remaining quantities of the product's batches
    dated,     \* expiry dates are tracked
    owed       \* an offline sale once took more than was on hand

bookVars == << onHand, lots, dated, owed >>

BookInit ==
    /\ onHand = [p \in Product |-> 0]
    /\ lots = [p \in Product |-> 0]
    /\ dated \in [Product -> BOOLEAN]
    /\ owed = [p \in Product |-> FALSE]

\* The lots of a product move with its stock from the day they are tracked.
MoveTo(p, quantity) ==
    /\ onHand' = [onHand EXCEPT ![p] = quantity]
    /\ lots' = [lots EXCEPT ![p] = IF dated[p] THEN quantity ELSE @]
    /\ UNCHANGED dated

\* A delivery, a return, a correction upwards.
PutIn(p, n) == MoveTo(p, onHand[p] + n) /\ UNCHANGED owed

\* A sale at a register that is online, a correction downwards.
TakeOut(p, n) == onHand[p] >= n /\ MoveTo(p, onHand[p] - n) /\ UNCHANGED owed

\* Cash collected offline is booked whether or not there was stock.
TakeOffline(p, n) ==
    /\ MoveTo(p, onHand[p] - n)
    /\ owed' = [owed EXCEPT ![p] = @ \/ onHand[p] < n]

\* Tracking starts or ends only while there is nothing to attribute to a lot.
Switch(p) ==
    /\ onHand[p] = 0 /\ lots[p] = 0
    /\ dated' = [dated EXCEPT ![p] = ~@]
    /\ UNCHANGED << onHand, lots, owed >>

BookNext ==
    \E p \in Product :
        \/ \E n \in Quantity : PutIn(p, n) \/ TakeOut(p, n) \/ TakeOffline(p, n)
        \/ Switch(p)

BookSpec == BookInit /\ [][BookNext]_bookVars

\* The lots of a tracked product add up to its stock, and stock is below zero
\* only where an offline sale made it so.
Balanced ==
    \A p \in Product : /\ dated[p] => lots[p] = onHand[p]
                       /\ onHand[p] < 0 => owed[p]
=============================================================================
