---------------------------- MODULE MCSellPages ----------------------------
(***************************************************************************)
(* The cashier's pages for TLC: the Sell page (SellScreen) and the shift   *)
(* with its dialogs (ShiftScreen).  What the first rings up and what the   *)
(* second opens and closes meet only on the server, so each behaviour      *)
(* plays out one scenario of one of them.                                  *)
(***************************************************************************)
EXTENDS Integers

CONSTANTS
    Scenarios,                    \* which of the scenarios below are played
    p1, p2, Code, Part, Name, Both, Nothing,
    ann, bob, x, y, Nobody

VARIABLES
    scenario,
    \* SellScreen
    ticket, number, undo, typed, phase, text, picked, timer, seq, loading,
    answered, found, lit, calls, latest, asked, rung, pick, spent,
    \* ShiftScreen
    open, last, whose, forced, held, lease, ready, user, gen, mount, ui, parked, stored,
    sale, locked, reqs, lost, agreed

screen == << ticket, number, undo, typed, phase, text, picked, timer, seq, loading,
             answered, found, lit, calls, latest, asked, rung, pick, spent >>
shift == << open, last, whose, forced, held, lease, ready, user, gen, mount, ui, parked, stored,
            sale, locked, reqs, lost, agreed >>

\* Two products: a barcode that is known, a barcode-shaped fragment that is
\* not, a name only one of them has and one both have.
Products == {p1, p2}
Terms == {Code, Part, Name, Both}
Numbers == {Code, Part}
Codes == [t \in Numbers |-> IF t = Code THEN p1 ELSE Nobody]
Found == [t \in Terms |-> CASE t \in {Name, Code} -> << p1 >> [] t = Part -> << p2 >>
                            [] t = Both -> << p1, p2 >>]

\* Two scans of any kind, typed and retyped, their answers in any order.
Scans == INSTANCE SellScreen WITH
    Product <- Products, Term <- Terms, Digits <- Numbers, Barcode <- Numbers,
    ByCode <- Codes, Matches <- Found, Picks <- {}, NoProduct <- Nobody,
    MaxUnits <- 2, MaxTickets <- 2, MaxAsked <- 2, MaxSearches <- 2

FewTerms == {Code, Both}
FewNumbers == {Code}
Multipliers == {2}

\* Lines removed, put back, typed over and sold while scans are under way.
Sells == INSTANCE SellScreen WITH
    Product <- Products, Term <- FewTerms, Digits <- FewNumbers, Barcode <- FewNumbers,
    ByCode <- Codes, Matches <- Found, Picks <- Multipliers, NoProduct <- Nobody,
    MaxUnits <- 3, MaxTickets <- 2, MaxAsked <- 2, MaxSearches <- 2

OneCashier == {ann}
TwoCashiers == {ann, bob}
Tickets == {x, y}
OneTicket == {x}
WithLease == {"lease", "sale"}
Selling == {"sale"}
Elsewhere == {"report", "elsewhere"}
WithReport == {"drawer", "report"}

\* Closing with parked tickets, a lease, and a sale on its way.
Closing == INSTANCE ShiftScreen WITH
    Cashier <- OneCashier, Ticket <- Tickets, Parts <- WithLease,
    MaxShifts <- 1, MaxMounts <- 1, MaxLogouts <- 1, MaxLost <- 0, MaxReqs <- 2

\* A cashier comes back to the register and sells over an unanswered close.
Returning == INSTANCE ShiftScreen WITH
    Cashier <- OneCashier, Ticket <- OneTicket, Parts <- Selling,
    MaxShifts <- 1, MaxMounts <- 2, MaxLogouts <- 1, MaxLost <- 0, MaxReqs <- 2

\* One cashier logs out over requests, another logs in and resumes a shift
\* opened elsewhere.
Leaving == INSTANCE ShiftScreen WITH
    Cashier <- TwoCashiers, Ticket <- {}, Parts <- Elsewhere,
    MaxShifts <- 2, MaxMounts <- 2, MaxLogouts <- 1, MaxLost <- 0, MaxReqs <- 2

\* A cashier's shift closed by force and resumed, with a report and the cash
\* drawer open.
Forced == INSTANCE ShiftScreen WITH
    Cashier <- OneCashier, Ticket <- {}, Parts <- WithReport,
    MaxShifts <- 2, MaxMounts <- 1, MaxLogouts <- 0, MaxLost <- 1, MaxReqs <- 3

ASSUME Scans!SellScreenAssumption /\ Sells!SellScreenAssumption
ASSUME Closing!ShiftScreenAssumption /\ Leaving!ShiftScreenAssumption
ASSUME Returning!ShiftScreenAssumption /\ Forced!ShiftScreenAssumption

-----------------------------------------------------------------------------
Init ==
    /\ scenario \in Scenarios
    /\ Sells!Init
    /\ IF scenario = "leaving" THEN Leaving!Init
       ELSE IF scenario = "forced" THEN Forced!Init ELSE Closing!Init

Next ==
    \/ scenario = "scans" /\ Scans!Next /\ UNCHANGED << scenario, shift >>
    \/ scenario = "sells" /\ Sells!Next /\ UNCHANGED << scenario, shift >>
    \/ scenario = "closing" /\ Closing!Next /\ UNCHANGED << scenario, screen >>
    \/ scenario = "returning" /\ Returning!Next /\ UNCHANGED << scenario, screen >>
    \/ scenario = "leaving" /\ Leaving!Next /\ UNCHANGED << scenario, screen >>
    \/ scenario = "forced" /\ Forced!Next /\ UNCHANGED << scenario, screen >>

Spec == Init /\ [][Next]_<< scenario, screen, shift >>

-----------------------------------------------------------------------------
\* However fast the cashier scans, types and retypes: a scan is rung up once,
\* the list shown is the newest search's, Undo puts a line back only into the
\* ticket it came from, and no half-typed quantity is sold.  Enter adds a
\* highlighted match only from the list for what the box says, and no late answer,
\* key or Undo changes a ticket while it is being sold (Sell.vue onScanSubmit,
\* product-search.ts search, highlightedMatch, cart.ts add, undoRemove).
RingHolds ==
    /\ [](/\ scenario = "scans" => Scans!ScannedOnce /\ Scans!NewestWins
          /\ scenario = "sells" => /\ Sells!TypeOK /\ Sells!UndoIsOfThisTicket
                                   /\ Sells!NothingHalfTyped)
    /\ [][/\ scenario = "scans" => Scans!PicksFromTheList
          /\ scenario = "sells" => Sells!SoldAsTendered]_screen

\* Whatever answers come late: the shift and the report on screen belong to
\* whoever is logged in, a cart is locked only for a sale or a close under way,
\* and a ticket being sold is never unlocked.  A shift that goes away takes the
\* cashier off the register, and closing it discards only the parked tickets the
\* cashier was asked about (stores/shift.ts, SellerLayout.vue
\* requireShift, ShiftOutModal.vue).
ShiftHolds ==
    /\ [](/\ scenario = "leaving" => Leaving!TypeOK /\ Leaving!OwnShift
          /\ scenario = "closing" => Closing!LockReturned
          /\ scenario = "returning" => Returning!SaleKeepsLock)
    /\ [][/\ scenario = "forced" => Forced!LeavesRegister
          /\ scenario = "closing" => Closing!DiscardsOnlyAgreed]_shift

=============================================================================
