---------------------------- MODULE MCBackOffice ----------------------------
(***************************************************************************)
(* The pages behind the counter, for TLC: reversing sales (SaleReturns),   *)
(* the store's settings (Settings), the restock draft (RestockDraft), new  *)
(* products (ProductEntry), who opens which page (Access) and stock counts *)
(* (StockCounts).  They share no state: each behaviour plays out one       *)
(* scenario, and v1, v2, ... are the variables of its component, in the    *)
(* order in which the component declares them.                             *)
(***************************************************************************)
EXTENDS Integers, FiniteSets, TLC

CONSTANTS
    Scenarios,                        \* which of the scenarios below are played
    User, Txn,                        \* two of each
    ean,                              \* a barcode on goods
    Null, Blank, Failed, Auto, Shelf

VARIABLES
    scenario,
    v1, v2, v3, v4, v5, v6, v7, v8, v9, v10, v11, v12, v13, v14, v15, v16, v17,
    v18, v19, v20, v21, v22, v23, v24, v25, v26, v27, v28, v29, v30

unused26 == << v27, v28, v29, v30 >>
unused19 == << v20, v21, v22, v23, v24, v25, v26, unused26 >>
unused16 == << v17, v18, v19, unused19 >>
unused15 == << v16, unused16 >>
unused9 == << v10, v11, v12, v13, v14, v15, unused15 >>
vars == << v1, v2, v3, v4, v5, v6, v7, v8, v9, unused9 >>

Symmetry == Permutations(User) \cup Permutations(Txn)

-----------------------------------------------------------------------------
OneUser == {"ada"}
OneTxn == {"t"}
OneName == {"milk"}
TwoNames == {"milk", "rice"}
OneZone == {"manila"}
TwoZones == {"manila", "tokyo"}
Builtin == [name |-> "milk", zone |-> "manila"]

\* Sale a was rung up in s1, b before shifts were recorded.  Sale a is on the
\* first page of every list, b on the second of all sales.
TwoSales == {"a", "b"}
OneShift == {"s1"}
TwoShifts == {"s1", "s2"}
RungUpIn == [s \in TwoSales |-> IF s = "a" THEN "s1" ELSE Null]
OneReason == {"damaged"}
OnePage == {1}
TwoPages == {1, 2}
FewFilters == {"none", "bad"}
AllFilters == {"none", "one", "bad"}
OnPages == [x \in TwoPages \X AllFilters |->
               CASE x = << 1, "none" >> -> {"a", "b"}
                 [] x = << 2, "none" >> \/ x[1] = 1 -> {"b"}
                 [] OTHER -> {}]
OnOnePage == [x \in OnePage \X FewFilters |-> OnPages[x]]

\* Two products, one with a known receipt cost, one that tracks expiry.
TwoProducts == {"p1", "p2"}
OneTerm == {"p"}
Finds == [t \in OneTerm |-> TwoProducts]
Costs == [p \in TwoProducts |-> IF p = "p1" THEN 2 ELSE Null]
TrackedOnes == {"p2"}
LowStock == << "p1", "p2" >>
NoCost == {0}

SomeRoleSets ==
    {s \in SUBSET {"SELLER", "ADJUSTER", "RESTOCKER", "USER_MANAGER", "ADMIN", "SUPERVISOR"} :
        Cardinality(s) <= 1} \cup {{"SELLER", "ADMIN"}, {"RESTOCKER", "SUPERVISOR"}}
FewRoleSets == {{}, {"SELLER"}, {"SELLER", "ADMIN"}, {"RESTOCKER"}, {"SUPERVISOR"}}
FewPlaces == {"Login", "Sell", "Dashboard", "Products"}

\* What others save: a barcode that is in use, or the next one of the counter's.
Elsewhere == {<< [name |-> "rice", ean |-> ean] >>, << [name |-> "milk", ean |-> Auto] >>}

OneCount == {"c"}
OneProduct == {"p1"}
OneLot == {"lot"}
OneTab == {"b1"}
TwoTabs == {"b1", "b2"}

-----------------------------------------------------------------------------
\* An admin reverses two sales, whose details come late.
Reversals == INSTANCE SaleReturns WITH
    Sales <- TwoSales, ShiftOf <- RungUpIn, CashSales <- TwoSales, Shifts <-
    TwoShifts, Listing <- OnOnePage, Admin <- TRUE, Reasons <- OneReason,
    Pages <- OnePage, Filters <- FewFilters, MaxLists <- 0, MaxDetails <- 2,
    MaxShiftLoads <- 1, MaxPosts <- 1, MaxShifts <- 0,
    status <- v1, open <- v2, paidBy <- v3, page <- v4, typed <- v5, applied
    <- v6, searchError <- v7, list <- v8, listReqs <- v9, offline <- v10,
    dialog <- v11, selected <- v12, seen <- v13, details <- v14, detailReqs <-
    v15, form <- v16, shiftReqs <- v17, reversing <- v18, approval <- v19,
    posts <- v20, refetch <- v21, picked <- v22, lists <- v23, loads <- v24,
    posted <- v25, changes <- v26

\* The drawers that may pay are loaded twice, over two sales' details.
Drawers == INSTANCE SaleReturns WITH
    Sales <- TwoSales, ShiftOf <- RungUpIn, CashSales <- TwoSales, Shifts <-
    TwoShifts, Listing <- OnOnePage, Admin <- TRUE, Reasons <- OneReason,
    Pages <- OnePage, Filters <- FewFilters, MaxLists <- 0, MaxDetails <- 2,
    MaxShiftLoads <- 2, MaxPosts <- 1, MaxShifts <- 0,
    status <- v1, open <- v2, paidBy <- v3, page <- v4, typed <- v5, applied
    <- v6, searchError <- v7, list <- v8, listReqs <- v9, offline <- v10,
    dialog <- v11, selected <- v12, seen <- v13, details <- v14, detailReqs <-
    v15, form <- v16, shiftReqs <- v17, reversing <- v18, approval <- v19,
    posts <- v20, refetch <- v21, picked <- v22, lists <- v23, loads <- v24,
    posted <- v25, changes <- v26

\* A cashier turns the pages of the list and filters it.
Lists == INSTANCE SaleReturns WITH
    Sales <- TwoSales, ShiftOf <- RungUpIn, CashSales <- TwoSales, Shifts <-
    OneShift, Listing <- OnPages, Admin <- FALSE, Reasons <- {}, Pages <-
    TwoPages, Filters <- AllFilters, MaxLists <- 2, MaxDetails <- 2,
    MaxShiftLoads <- 0, MaxPosts <- 0, MaxShifts <- 1,
    status <- v1, open <- v2, paidBy <- v3, page <- v4, typed <- v5, applied
    <- v6, searchError <- v7, list <- v8, listReqs <- v9, offline <- v10,
    dialog <- v11, selected <- v12, seen <- v13, details <- v14, detailReqs <-
    v15, form <- v16, shiftReqs <- v17, reversing <- v18, approval <- v19,
    posts <- v20, refetch <- v21, picked <- v22, lists <- v23, loads <- v24,
    posted <- v25, changes <- v26

\* Shifts and leases while an admin saves another timezone.
Rezoned == INSTANCE Settings WITH
    Users <- OneUser, Names <- OneName, Zones <- TwoZones, Defaults <-
    Builtin, StoreZone <- "manila", MaxVersion <- 2, MaxGets <- 1, MaxSaves <-
    1, MaxWork <- 2, MaxLogins <- 1, MayFail <- FALSE,
    db <- v1, req <- v2, snap <- v3, missed <- v4, owner <- v5, generation <-
    v6, savedRevision <- v7, error <- v8, inFlight <- v9, present <- v10,
    cache <- v11, page <- v12, form <- v13, baseline <- v14, gets <- v15,
    patches <- v16, asked <- v17, saves <- v18, work <- v19

\* Two users of one terminal, whose requests fail.
Terminal == INSTANCE Settings WITH
    Users <- User, Txn <- OneTxn, Names <- TwoNames, Zones <- OneZone,
    Defaults <- Builtin, StoreZone <- "manila", MaxVersion <- 2, MaxGets <- 3,
    MaxSaves <- 1, MaxWork <- 0, MaxLogins <- 2, MayFail <- TRUE,
    db <- v1, req <- v2, snap <- v3, missed <- v4, owner <- v5, generation <-
    v6, savedRevision <- v7, error <- v8, inFlight <- v9, present <- v10,
    cache <- v11, page <- v12, form <- v13, baseline <- v14, gets <- v15,
    patches <- v16, asked <- v17, saves <- v18, work <- v19

\* A draft of two rows, its checks and its save.
Draft == INSTANCE RestockDraft WITH
    Product <- TwoProducts, Term <- OneTerm, Found <- Finds, LastCost <-
    Costs, Tracked <- TrackedOnes, Imported <- LowStock, Patient <- TRUE,
    MayFail <- TRUE, MaxSearches <- 0, MaxRows <- 2, Name <- OneName, Cost <-
    NoCost, User <- OneUser, MaxCalls <- 1, MaxSaves <- 1, MaxLogins <- 1,
    text <- v1, shown <- v2, listed <- v3, awaiting <- v4, loading <- v5,
    timer <- v6, searches <- v7, latest <- v8, sent <- v9, entered <- v10,
    user <- v11, handoff <- v12, here <- v13, items <- v14, nextId <- v15,
    pendingDefaults <- v16, open <- v17, item <- v18, editing <- v19, form <-
    v20, picked <- v21, asking <- v22, saveOpen <- v23, saving <- v24, calls
    <- v25, asked <- v26, logins <- v27, confirmed <- v28, posted <- v29, told
    <- v30

\* Two users, and the low-stock list handed to one of them.
Handoff == INSTANCE RestockDraft WITH
    Product <- TwoProducts, Term <- OneTerm, Found <- Finds, LastCost <-
    Costs, Tracked <- TrackedOnes, Imported <- LowStock, Patient <- TRUE,
    MayFail <- TRUE, MaxSearches <- 0, MaxRows <- 2, Name <- {}, Cost <- {},
    MaxCalls <- 0, MaxSaves <- 0, MaxLogins <- 2,
    text <- v1, shown <- v2, listed <- v3, awaiting <- v4, loading <- v5,
    timer <- v6, searches <- v7, latest <- v8, sent <- v9, entered <- v10,
    user <- v11, handoff <- v12, here <- v13, items <- v14, nextId <- v15,
    pendingDefaults <- v16, open <- v17, item <- v18, editing <- v19, form <-
    v20, picked <- v21, asking <- v22, saveOpen <- v23, saving <- v24, calls
    <- v25, asked <- v26, logins <- v27, confirmed <- v28, posted <- v29, told
    <- v30

\* New products are entered, checked and saved, while one is saved elsewhere.
Products == INSTANCE ProductEntry WITH
    Name <- TwoNames, Barcode <- {ean}, Codes <- 3, Others <- Elsewhere, Patient
    <- TRUE, MayFail <- TRUE, MaxRows <- 3, MaxChecks <- 3, MaxSaves <- 2,
    MaxOthers <- 1,
    products <- v1, counter <- v2, requests <- v3, items <- v4, nextId <- v5,
    open <- v6, editing <- v7, edits <- v8, form <- v9, checks <- v10, saving
    <- v11, done <- v12, asked <- v13, saves <- v14, others <- v15, refused <-
    v16

\* Logins, logouts and changed roles between the hops of a navigation.
Moves == INSTANCE Access WITH
    RoleSets <- FewRoleSets, Places <- FewPlaces, MaxChanges <- 1, MaxLogins
    <- 1,
    roles <- v1, session <- v2, marker <- v3, known <- v4, cached <- v5,
    authed <- v6, checked <- v7, told <- v8, page <- v9, going <- v10, hops <-
    v11, leaving <- v12, ending <- v13, changes <- v14, logins <- v15

EveryPage == Moves!Pages

\* One visit to every page, by every role and two pairs of them.
Visits == INSTANCE Access WITH
    RoleSets <- SomeRoleSets, Places <- EveryPage, MaxChanges <- 0, MaxLogins
    <- 0,
    roles <- v1, session <- v2, marker <- v3, known <- v4, cached <- v5,
    authed <- v6, checked <- v7, told <- v8, page <- v9, going <- v10, hops <-
    v11, leaving <- v12, ending <- v13, changes <- v14, logins <- v15

\* Two users of a tab approve a submitted count while goods move.
Counts == INSTANCE StockCounts WITH
    Count <- OneCount, Product <- OneProduct, Lot <- {}, Tab <- OneTab, MaxQty
    <- 1, MaxVersion <- 1,
    qty <- v1, lots <- v2, tracked <- v3, moved <- v4, count <- v5, page <-
    v6, req <- v7, snap <- v8, missed <- v9

\* One user counts and submits in two tabs.
Tabs == INSTANCE StockCounts WITH
    Count <- OneCount, Product <- TwoProducts, Lot <- {}, User <- OneUser, Tab
    <- TwoTabs, Txn <- OneTxn, MaxQty <- 0, MaxVersion <- 2,
    qty <- v1, lots <- v2, tracked <- v3, moved <- v4, count <- v5, page <-
    v6, req <- v7, snap <- v8, missed <- v9

\* Goods move and tracking is switched while one tab counts.
Tracking == INSTANCE StockCounts WITH
    Count <- OneCount, Product <- OneProduct, Lot <- OneLot, User <- OneUser,
    Tab <- OneTab, Txn <- OneTxn, MaxQty <- 1, MaxVersion <- 3,
    qty <- v1, lots <- v2, tracked <- v3, moved <- v4, count <- v5, page <-
    v6, req <- v7, snap <- v8, missed <- v9

ASSUME
    /\ Reversals!ReturnsAssumption /\ Drawers!ReturnsAssumption /\ Lists!ReturnsAssumption
    /\ Rezoned!SettingsAssumption /\ Terminal!SettingsAssumption
    /\ Draft!SearchAssumption /\ Draft!DraftAssumption
    /\ Handoff!SearchAssumption /\ Handoff!DraftAssumption
    /\ Products!EntryAssumption
    /\ Visits!AccessAssumption /\ Moves!AccessAssumption
    /\ Counts!CountAssumption /\ Tabs!CountAssumption /\ Tracking!CountAssumption

-----------------------------------------------------------------------------
Unused26 == v27 = 0 /\ v28 = 0 /\ v29 = 0 /\ v30 = 0
Unused19 == v20 = 0 /\ v21 = 0 /\ v22 = 0 /\ v23 = 0 /\ v24 = 0 /\ v25 = 0 /\ v26 = 0 /\ Unused26
Unused16 == v17 = 0 /\ v18 = 0 /\ v19 = 0 /\ Unused19
Unused15 == v16 = 0 /\ Unused16
Unused9 == v10 = 0 /\ v11 = 0 /\ v12 = 0 /\ v13 = 0 /\ v14 = 0 /\ v15 = 0 /\ Unused15

\* A logged-in user whose roles the browser has cached.
VisitInit == Visits!Init /\ v4 /\ v3 /\ v2 /\ v5 = v1

\* A count that found nothing of a product was just submitted: there is one on
\* the shelf.
SubmittedInit ==
    /\ Counts!TxnInit
    /\ v1 = [p \in OneProduct |-> [x \in {Shelf} |-> 1]] /\ v4 = v1
    /\ v2 = [p \in OneProduct |-> {}] /\ v3 = [p \in OneProduct |-> FALSE]
    /\ v5 = [c \in OneCount |->
                [Counts!NoCount EXCEPT !.status = "SUBMITTED",
                    !.lines = [x \in OneProduct \X {Shelf} |->
                                  [Counts!LinesOf(Counts!Stock, OneProduct)[x] EXCEPT !.counted = 0]]]]
    /\ v6 \in [OneTab -> {Counts!Empty(u) : u \in User}]

\* A count of the two products was just opened; there is nothing on the shelf.
OpenedInit ==
    /\ Tabs!TxnInit
    /\ v1 = [p \in TwoProducts |-> [x \in {Shelf} |-> 0]] /\ v4 = v1
    /\ v2 = [p \in TwoProducts |-> {}] /\ v3 = [p \in TwoProducts |-> FALSE]
    /\ v5 = [c \in OneCount |->
                [Tabs!NoCount EXCEPT !.status = "OPEN",
                    !.lines = Tabs!LinesOf(Tabs!Stock, TwoProducts)]]
    /\ v6 \in [TwoTabs -> {Tabs!Empty(u) : u \in OneUser}]

BackOfficeInit ==
    /\ scenario \in Scenarios
    /\ \/ scenario = "counts" /\ SubmittedInit /\ Unused9
       \/ scenario = "tabs" /\ OpenedInit /\ Unused9
       \/ scenario = "tracking" /\ Tracking!Init /\ Unused9
       \/ scenario = "visits" /\ VisitInit /\ Unused15
       \/ scenario = "access" /\ Moves!Init /\ Unused15
       \/ scenario = "products" /\ Products!Init /\ Unused16
       \/ scenario = "zones" /\ Rezoned!Init /\ Unused19
       \/ scenario = "terminal" /\ Terminal!Init /\ Unused19
       \/ scenario = "reversals" /\ Reversals!Init /\ Unused26
       \/ scenario = "drawers" /\ Drawers!Init /\ Unused26
       \/ scenario = "lists" /\ Lists!Init /\ Unused26
       \/ scenario = "draft" /\ Draft!Init
       \/ scenario = "handoff" /\ Handoff!Init

BackOfficeNext ==
    \/ scenario = "counts" /\ Counts!Next /\ UNCHANGED << scenario, unused9 >>
    \/ scenario = "tabs" /\ Tabs!Next /\ UNCHANGED << scenario, unused9 >>
    \/ scenario = "tracking" /\ Tracking!Next /\ UNCHANGED << scenario, unused9 >>
    \/ scenario = "visits" /\ (Visits!CheckSession \/ Visits!Guard) /\ UNCHANGED << scenario, unused15 >>
    \/ scenario = "access" /\ Moves!Next /\ UNCHANGED << scenario, unused15 >>
    \/ scenario = "products" /\ Products!Next /\ UNCHANGED << scenario, unused16 >>
    \/ scenario = "zones" /\ Rezoned!Next /\ UNCHANGED << scenario, unused19 >>
    \/ scenario = "terminal" /\ Terminal!Next /\ UNCHANGED << scenario, unused19 >>
    \/ scenario = "reversals" /\ Reversals!Next /\ UNCHANGED << scenario, unused26 >>
    \/ scenario = "drawers" /\ Drawers!Next /\ UNCHANGED << scenario, unused26 >>
    \/ scenario = "lists" /\ Lists!Next /\ UNCHANGED << scenario, unused26 >>
    \/ scenario = "draft" /\ Draft!Next /\ UNCHANGED scenario
    \/ scenario = "handoff" /\ Handoff!Next /\ UNCHANGED scenario

BackOfficeSpec == BackOfficeInit /\ [][BackOfficeNext]_<< scenario, vars >>

-----------------------------------------------------------------------------
\* The reversal sent is word for word the one approved, the drawers' cash leaves
\* as picked, and the list and the details shown are those asked for last
\* (views/User/Sales/Index.vue).
Returns == /\ scenario = "reversals" => Reversals!TypeOK /\ Reversals!ApprovedIsReversed
           /\ scenario = "lists" => Lists!ListAsAsked /\ Lists!DetailsOfSelected
ReturnSteps == scenario = "drawers" => Drawers!DrawerPicked

\* An open shift and a lease carry the store's timezone, no save overwrites what
\* its page never showed, and no late answer brings old settings or another
\* user's back (settings.service.ts, stores/settings.ts).
StoreSettings == /\ scenario = "zones" => Rezoned!ZoneInUse
                 /\ scenario = "terminal" => /\ Terminal!TypeOK /\ Terminal!LoggedOutShowsDefaults
                                             /\ Terminal!ErrorIsFresh
SettingsSteps == /\ scenario = "zones" => Rezoned!NoBlindOverwrite
                 /\ scenario = "terminal" => Terminal!NeverRollsBack

\* What a draft posts is complete, asked about and cleared only when it was sent;
\* a handed-over list is its login's own (views/User/Restock/Add.vue,
\* views/User/Products/Add.vue).
Drafts == /\ scenario = "draft" => /\ Draft!SentComplete /\ Draft!ZeroCostConfirmed
                                   /\ Draft!ErrorNamesRow
          /\ scenario = "products" => Products!TypeOK /\ Products!PostedAcceptable
DraftSteps == /\ scenario = "draft" => Draft!ReviewedKept /\ Draft!OnlySentCleared
              /\ scenario = "handoff" => Handoff!HandoffOwn
              /\ scenario = "products" => Products!OnlySentCleared

\* A page opens for the roles last told and asks the API only for what those
\* roles are granted, and no navigation is bounced round (router/index.ts).
PagesOpened == /\ scenario = "visits" => Visits!PageLoads /\ Visits!OffersOpen
               /\ scenario = "access" => /\ Moves!TypeOK /\ Moves!HopsBounded /\ Moves!OpenedAsTold
                                         /\ Moves!NobodyNoPage /\ Moves!NeverStranded

\* Whatever answers come late, the pages behind the counter show and send what
\* belongs to their request, their user and their store, as above.
PagesHold ==
    /\ [](Returns /\ StoreSettings /\ Drafts /\ PagesOpened)
    /\ [][ReturnSteps /\ SettingsSteps /\ DraftSteps]_vars

\* A count undoes no movement of goods, changes only under the eyes of who
\* changes it, and not at all once submitted (stock-count.service.ts).
CountsHold ==
    /\ [][/\ scenario = "counts" => Counts!SubmittedIsFrozen
          /\ scenario = "tabs" => Tabs!WritesSeeTheCount]_vars
    /\ [](/\ scenario = "counts" => Counts!MovementsKept /\ Counts!ShownIsOwn
          /\ scenario = "tracking" => Tracking!UnitsHaveALot)

=============================================================================
