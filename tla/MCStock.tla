------------------------------ MODULE MCStock ------------------------------
(* Stock for TLC: two requests at a time on one unit of a product with at   *)
(* most one lot, or whose price changes, or one at a time on two lots.      *)
EXTENDS Stock, TLC

CONSTANT t1

VARIABLE scenario

Symmetry == Permutations(Txn) \cup Permutations(Batch)

Sizes == {1, 2}

\* One request after the other: two sizes of sale, a midnight.
Shelf == INSTANCE Stock WITH Quantity <- Sizes, LastDay <- 1

ASSUME Shelf!StockAssumption /\ Book!QuantityAssumption

\* Only where prices change is there a second one, and no lot is kept.
OnePrice == /\ \A p \in Product : product[p].price = 1
            /\ \A t \in Txn : req[t] # Idle /\ req[t].op = "edit" => req[t].terms.price = 1
NoLots == /\ \A p \in Product : ~product[p].tracked
          /\ \A t \in Txn : req[t] # Idle /\ req[t].op = "edit" => ~req[t].terms.tracked

StockInit ==
    \/ scenario = "requests" /\ Init /\ OnePrice
    \/ scenario = "prices" /\ Init /\ NoLots
    \/ scenario = "lots" /\ Shelf!Init /\ OnePrice

StockNext ==
    \/ scenario = "requests" /\ Next /\ OnePrice' /\ UNCHANGED scenario
    \/ scenario = "prices" /\ Next /\ NoLots' /\ UNCHANGED scenario
    \/ scenario = "lots" /\ (Shelf!Midnight \/ Shelf!Handle(t1)) /\ OnePrice' /\ UNCHANGED scenario

StockSpec == StockInit /\ [][StockNext]_<< scenario, vars >>

\* Requests meet on one unit and one lot; one at a time oversells nothing,
\* corrects one lot, and no product is archived.
SmallCase ==
    IF scenario # "lots"
    THEN /\ \A p \in Product : inventory[p].stock \in -1..1
         /\ \E b \in Batch : batch[b] = NoBatch
    ELSE /\ \A p \in Product : inventory[p].stock >= 0 /\ product[p].active
         /\ req[t1].op = "adjust" => Cardinality(DOMAIN req[t1].lines) = 1
=============================================================================
