---------------------------- MODULE MCPurchasing ----------------------------
(***************************************************************************)
(* PurchaseOrders for TLC: two users with stale pages who receive one sent *)
(* order, the same two when they change their minds between attempts, or   *)
(* who draft, send and cancel one order.                                   *)
(***************************************************************************)
EXTENDS PurchaseOrders

CONSTANT Scenarios

VARIABLE scenario

Symmetry == Permutations(Txn) \cup Permutations(User) \cup Permutations(Key)

AllHabits == {"edit", "reopen", "refused"}

\* Users who edit a receipt, reopen the dialog or are refused between two
\* attempts.
Fickle == INSTANCE PurchaseOrders WITH Habits <- AllHabits

\* Orders of one unit.
Drafts == INSTANCE PurchaseOrders WITH MaxQty <- 1, MaxVersion <- 2

\* Every order was just sent.
Sent ==
    /\ order \in [Order -> {[NoOrder EXCEPT !.status = "SENT", !.supplier = s, !.version = 1,
                                            !.ordered = q] :
                                s \in Supplier, q \in [Line -> {MaxQty}]}]
    /\ supplier = [s \in Supplier |-> "ACTIVE"]
    /\ restocked = [o \in Order |-> None]
    /\ view = [u \in User |-> Null] /\ waiting = [u \in User |-> Null]
    /\ receipt = [u \in User |-> NoReceipt]
    /\ told = [d \in Delivery |-> "nothing"] /\ strayed = {}
    /\ TxnInit

PurchasingInit ==
    /\ scenario \in Scenarios
    /\ IF scenario = "drafts" THEN Init ELSE Sent

PurchasingNext ==
    \/ scenario = "receipts" /\ Next /\ UNCHANGED scenario
    \/ scenario = "fickle" /\ Fickle!Next /\ UNCHANGED scenario
    \/ scenario = "drafts" /\ Drafts!Next /\ UNCHANGED scenario

PurchasingSpec == PurchasingInit /\ [][PurchasingNext]_<< scenario, vars >>

\* The drafts are received in the other two scenarios.
NotReceived == scenario = "drafts" => \A u \in User : receipt[u] = NoReceipt
=============================================================================
