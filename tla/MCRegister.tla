----------------------------- MODULE MCRegister -----------------------------
(***************************************************************************)
(* What happens at one register, for TLC: a sale and its retries           *)
(* (Checkout) and the baskets its tabs save (RegisterTabs).  The two share *)
(* no state, so each behaviour plays out one scenario while the other part *)
(* stays as it starts.                                                     *)
(***************************************************************************)
EXTENDS Checkout, TLC

CONSTANTS
    Scenarios,      \* which of the scenarios below are played
    ada, milk       \* one of the customers, one of the lines

VARIABLES
    scenario,
    storage, user, tab, events, writes, by, put

tabs == << storage, user, tab, events, writes, by, put >>

\* Requests, customers and lines lend the tabs their model values, so that one
\* symmetry serves both.
Symmetry == Permutations(Request) \cup Permutations(Customer)
                \cup Permutations(Lines) \cup Permutations(Payment)

\* Two tabs of one cashier, two tickets.
Parked == INSTANCE RegisterTabs WITH
    Tab <- Request, Cashier <- {ada}, Ticket <- Lines,
    MaxWrites <- 5, MaxParked <- 2, MaySwitch <- FALSE, MayFail <- FALSE

\* Two tabs, two cashiers who log in and out, one ticket; writes may fail.
Shared == INSTANCE RegisterTabs WITH
    Tab <- Request, Cashier <- Customer, Ticket <- {milk},
    MaxWrites <- 3, MaxParked <- 2, MaySwitch <- TRUE, MayFail <- TRUE

ASSUME Parked!RegisterTabsAssumption /\ Shared!RegisterTabsAssumption

-----------------------------------------------------------------------------
RegisterInit ==
    /\ scenario \in Scenarios
    /\ Init
    /\ IF scenario = "shared" THEN Shared!Init ELSE Parked!Init

RegisterNext ==
    \/ scenario = "checkout" /\ Next /\ UNCHANGED << scenario, tabs >>
    \/ scenario = "parked" /\ Parked!Next /\ UNCHANGED << scenario, vars >>
    \/ scenario = "shared" /\ Shared!Next /\ UNCHANGED << scenario, vars >>

RegisterSpec == RegisterInit /\ [][RegisterNext]_<< scenario, vars, tabs >>

-----------------------------------------------------------------------------
\* However the tabs of a register overlap, no write loses a parked ticket or
\* keeps one that was resumed, and each saved basket holds only what its own
\* cashier rang up.  Parking and resuming never forget a checkout whose outcome is
\* unknown, and a sale that ends clears the ticket that was sold, not one scanned
\* meanwhile in another tab (cart.ts reconcileParked, setOwner, park,
\* resumeParked, clear).
TabsHold ==
    /\ [](/\ scenario = "parked" => Parked!ParkedKept
          /\ scenario = "shared" => Shared!TypeOK /\ Shared!OwnTickets)
    /\ [][scenario = "parked" => Parked!AttemptOutlivesParking /\ Parked!ClearsWhatItSold]_tabs

=============================================================================
