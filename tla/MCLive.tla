------------------------------- MODULE MCLive -------------------------------
(***************************************************************************)
(* What must come to an end, for TLC: a charge (Checkout), a request whose *)
(* session expired (SessionClient), an offline sale (OfflineClient), a     *)
(* batch of products (ProductEntry), a search (RestockDraft), the shift    *)
(* dialogs (ShiftScreen), a navigation (Access), the settings form         *)
(* (Settings) and a reversal (SaleReturns).  They share no state: each     *)
(* behaviour plays out one scenario, and v1, v2, ... are the variables of  *)
(* its component, in the order in which the component declares them.  The  *)
(* fairness is each component's own, in the behaviours of its scenario.    *)
(***************************************************************************)
EXTENDS Integers, FiniteSets, TLC

CONSTANTS
    Scenarios,               \* which of the scenarios below are played
    Two,                     \* two requests, tickets or search terms
    ean,                     \* a barcode on goods
    Null, Blank, NoAnswer, Auto

VARIABLES
    scenario,
    v1, v2, v3, v4, v5, v6, v7, v8, v9, v10, v11, v12, v13, v14, v15, v16,
    v17, v18, v19, v20, v21, v22, v23, v24, v25, v26, v27, v28, v29, v30

first10 == << v1, v2, v3, v4, v5, v6, v7, v8, v9, v10 >>
first11 == << first10, v11 >>
first15 == << first11, v12, v13, v14, v15 >>
first16 == << first15, v16 >>
first18 == << first16, v17, v18 >>
first19 == << first18, v19 >>
first26 == << first19, v20, v21, v22, v23, v24, v25, v26 >>
first30 == << first26, v27, v28, v29, v30 >>
rest26 == << v27, v28, v29, v30 >>
rest19 == << v20, v21, v22, v23, v24, v25, v26, rest26 >>
rest18 == << v19, rest19 >>
rest16 == << v17, v18, rest18 >>
rest15 == << v16, rest16 >>
rest11 == << v12, v13, v14, v15, rest15 >>
rest10 == << v11, rest11 >>

-----------------------------------------------------------------------------
Elsewhere ==
    {<< [name |-> "milk", ean |-> Auto] >>,
     << [name |-> "oil", ean |-> Auto], [name |-> "rice", ean |-> Auto] >>,
     << [name |-> "rice", ean |-> ean] >>,
     << [name |-> "oil", ean |-> 1] >>}
Finds == [t \in Two |-> IF t = CHOOSE x \in Two : TRUE THEN {"milk", "rice"} ELSE {"rice"}]
Costs == [p \in {"milk", "rice"} |-> IF p = "milk" THEN 2 ELSE Null]
SomePlaces == {"Login", "Sell", "Dashboard", "Products"}
Builtin == [name |-> "shop", zone |-> "manila"]
RungUpIn == [s \in {"a"} |-> "s1"]
Listed == [x \in {1} \X {"none", "bad"} |-> {"a"}]

-----------------------------------------------------------------------------
\* Two customers are charged; requests and answers are lost.
Charging == INSTANCE Checkout WITH
    Customer <- {"ada", "bo"}, Lines <- {"milk"}, Payment <- {"cash"},
    Request <- Two, MaxKeys <- 2, MaxFaults <- 1,
    basket <- v1, attempt <- v2, waiting <- v3, come <- v4, made <- v5,
    shown <- v6, conn <- v7, sale <- v8, shiftOpen <- v9, faults <- v10,
    emptied <- v11

\* Two requests at once in one tab, over two logins.
Refreshing == INSTANCE SessionClient WITH
    Request <- Two, MaxSessions <- 2,
    request <- v1, refreshing <- v2, queue <- v3, shown <- v4, user <- v5,
    marker <- v6, leaving <- v7, alive <- v8, good <- v9, sessions <- v10

\* One tab, one ticket: a reload, a drop and a forced close.
Uploading == INSTANCE OfflineClient WITH
    Tab <- {"till"}, Register <- "till", Key <- {"k"}, MaxShifts <- 1,
    MaxLeases <- 1, MaxDrops <- 1, MaxReloads <- 1, ForcedCloses <- TRUE,
    state <- v1, outbox <- v2, tab <- v3, prep <- v4, sync <- v5,
    closing <- v6, sell <- v7, attempt <- v8, taken <- v9, lease <- v10,
    shift <- v11, recorded <- v12, net <- v13, drops <- v14, reloads <- v15,
    lockout <- v16

\* Products are entered while others are saved elsewhere.
Entering == INSTANCE ProductEntry WITH
    Name <- {"milk", "rice", "oil"}, Barcode <- {ean}, Codes <- 3,
    Others <- Elsewhere, Patient <- TRUE, MayFail <- TRUE, MaxRows <- 1,
    MaxChecks <- 1, MaxSaves <- 1, MaxOthers <- 1,
    products <- v1, counter <- v2, requests <- v3, items <- v4, nextId <- v5,
    open <- v6, editing <- v7, edits <- v8, form <- v9, checks <- v10,
    saving <- v11, done <- v12, asked <- v13, saves <- v14, others <- v15,
    refused <- v16

\* A product is searched for, and the search changes.
Searching == INSTANCE RestockDraft WITH
    Product <- {"milk", "rice"}, Term <- Two, Found <- Finds,
    LastCost <- Costs, Tracked <- {"rice"}, Imported <- << >>,
    Name <- {"milk"}, Cost <- {0}, User <- {"ada"}, Patient <- TRUE,
    MayFail <- TRUE, MaxSearches <- 2, MaxRows <- 1, MaxCalls <- 0,
    MaxSaves <- 0, MaxLogins <- 1,
    text <- v1, shown <- v2, listed <- v3, awaiting <- v4, loading <- v5,
    timer <- v6, searches <- v7, latest <- v8, sent <- v9, entered <- v10,
    user <- v11, handoff <- v12, here <- v13, items <- v14, nextId <- v15,
    pendingDefaults <- v16, open <- v17, item <- v18, editing <- v19,
    form <- v20, picked <- v21, asking <- v22, saveOpen <- v23, saving <- v24,
    calls <- v25, asked <- v26, logins <- v27, confirmed <- v28,
    posted <- v29, told <- v30

\* Shifts are opened and closed; a request is lost.
Opening == INSTANCE ShiftScreen WITH
    Cashier <- {"ada"}, Nobody <- Null, Ticket <- {}, MaxShifts <- 1,
    MaxMounts <- 1, MaxLogouts <- 0, MaxLost <- 1, MaxReqs <- 2,
    Parts <- {"lease"},
    open <- v1, last <- v2, whose <- v3, forced <- v4, held <- v5,
    lease <- v6, ready <- v7, user <- v8, gen <- v9, mount <- v10, ui <- v11,
    parked <- v12, stored <- v13, sale <- v14, locked <- v15, reqs <- v16,
    lost <- v17, agreed <- v18

\* Navigations of a user who logs in once.
Routing == INSTANCE Access WITH
    RoleSets <- {{}, {"SELLER", "ADMIN"}}, Places <- SomePlaces, MaxChanges <- 0,
    MaxLogins <- 1,
    roles <- v1, session <- v2, marker <- v3, known <- v4, cached <- v5,
    authed <- v6, checked <- v7, told <- v8, page <- v9, going <- v10,
    hops <- v11, leaving <- v12, ending <- v13, changes <- v14, logins <- v15

\* The settings page is opened, reloaded and saved.
Loading == INSTANCE Settings WITH
    Names <- {"shop"}, Zones <- {"manila", "tokyo"}, Users <- {"ada"},
    Txn <- {"t1"}, Failed <- NoAnswer, Defaults <- Builtin, StoreZone <- "manila",
    MaxVersion <- 1, MaxGets <- 2, MaxSaves <- 1, MaxWork <- 0,
    MaxLogins <- 2, MayFail <- TRUE,
    db <- v1, req <- v2, snap <- v3, missed <- v4, owner <- v5,
    generation <- v6, savedRevision <- v7, error <- v8, inFlight <- v9,
    present <- v10, cache <- v11, page <- v12, form <- v13, baseline <- v14,
    gets <- v15, patches <- v16, asked <- v17, saves <- v18, work <- v19

\* An admin reverses a sale and pays it from a drawer, and filters nothing.
Reversing == INSTANCE SaleReturns WITH
    Sales <- {"a"}, Shifts <- {"s1", "s2"}, ShiftOf <- RungUpIn,
    Listing <- Listed, Admin <- TRUE, Reasons <- {"damaged"}, Pages <- {1},
    Filters <- {"none", "bad"}, CashSales <- {"a"}, MaxLists <- 3,
    MaxDetails <- 1, MaxShiftLoads <- 1, MaxPosts <- 1, MaxShifts <- 0,
    status <- v1, open <- v2, paidBy <- v3, page <- v4, typed <- v5,
    applied <- v6, searchError <- v7, list <- v8, listReqs <- v9,
    offline <- v10, dialog <- v11, selected <- v12, seen <- v13,
    details <- v14, detailReqs <- v15, form <- v16, shiftReqs <- v17,
    reversing <- v18, approval <- v19, posts <- v20, refetch <- v21,
    picked <- v22, lists <- v23, loads <- v24, posted <- v25, changes <- v26

ASSUME
    /\ Refreshing!SessionClientAssumption
    /\ Uploading!OfflineClientAssumption /\ Entering!EntryAssumption
    /\ Searching!SearchAssumption /\ Searching!DraftAssumption
    /\ Opening!ShiftScreenAssumption /\ Routing!AccessAssumption
    /\ Loading!SettingsAssumption /\ Reversing!ReturnsAssumption

-----------------------------------------------------------------------------
Rest26 == v27 = 0 /\ v28 = 0 /\ v29 = 0 /\ v30 = 0
Rest19 == v20 = 0 /\ v21 = 0 /\ v22 = 0 /\ v23 = 0 /\ v24 = 0 /\ v25 = 0 /\
    v26 = 0 /\ Rest26
Rest18 == v19 = 0 /\ Rest19
Rest16 == v17 = 0 /\ v18 = 0 /\ Rest18
Rest15 == v16 = 0 /\ Rest16
Rest11 == v12 = 0 /\ v13 = 0 /\ v14 = 0 /\ v15 = 0 /\ Rest15
Rest10 == v11 = 0 /\ Rest11

LiveInit ==
    /\ scenario \in Scenarios
    /\ \/ scenario = "checkout" /\ Charging!Init /\ Rest11
       \/ scenario = "session" /\ Refreshing!Init /\ Rest10
       \/ scenario = "uploads" /\ Uploading!Init /\ Rest16
       \/ scenario = "routes" /\ Routing!Init /\ Rest15
       \/ scenario = "entry" /\ Entering!Init /\ Rest16
       \/ scenario = "dialogs" /\ Opening!Init /\ Rest18
       \/ scenario = "form" /\ Loading!Init /\ Rest19
       \/ scenario = "returns" /\ Reversing!Init /\ Rest26
       \/ scenario = "search" /\ Searching!Init

LiveNext ==
    \/ scenario = "checkout" /\ Charging!Next /\ UNCHANGED << scenario, rest11 >>
    \/ scenario = "session" /\ Refreshing!Next /\ UNCHANGED << scenario, rest10 >>
    \/ scenario = "uploads" /\ Uploading!Next /\ UNCHANGED << scenario, rest16 >>
    \/ scenario = "routes" /\ Routing!Next /\ UNCHANGED << scenario, rest15 >>
    \/ scenario = "entry" /\ Entering!Next /\ UNCHANGED << scenario, rest16 >>
    \/ scenario = "dialogs" /\ Opening!Next /\ UNCHANGED << scenario, rest18 >>
    \/ scenario = "form" /\ Loading!Next /\ UNCHANGED << scenario, rest19 >>
    \/ scenario = "returns" /\ Reversing!Next /\ v5' # "bad" /\ UNCHANGED << scenario, rest26 >>
    \/ scenario = "search" /\ Searching!Next /\ UNCHANGED scenario

Fairness ==
    /\ \A r \in Two : WF_first11(scenario = "checkout" /\ Charging!Serve(r))
    /\ WF_first11(scenario = "checkout" /\ Charging!Receive)
    /\ WF_first11(scenario = "checkout" /\ Charging!TimeOut)
    /\ WF_first11(scenario = "checkout" /\ Charging!Submit)
    /\ \A r \in Two : WF_first10(scenario = "session" /\ Refreshing!Settle(r))
    /\ WF_first10(scenario = "session" /\ Refreshing!Outcome)
    /\ WF_first10(scenario = "session" /\ Refreshing!FinishLogout)
    /\ WF_first16(scenario = "uploads" /\ Uploading!NetUp)
    /\ WF_first16(scenario = "uploads" /\ Uploading!Reconnect("till"))
    /\ WF_first16(scenario = "uploads" /\ Uploading!StartSync("till"))
    /\ WF_first16(scenario = "uploads" /\ Uploading!Upload("till"))
    /\ WF_first16(scenario = "uploads" /\ Uploading!Ingest("till"))
    /\ WF_first16(scenario = "uploads" /\ Uploading!Answered("till"))
    /\ WF_first16(scenario = "uploads" /\ Uploading!SyncFails("till"))
    /\ WF_first15(scenario = "routes" /\ Routing!CheckSession)
    /\ WF_first15(scenario = "routes" /\ Routing!Guard)
    /\ WF_first15(scenario = "routes" /\ Routing!Left)
    /\ WF_first15(scenario = "routes" /\ Routing!EndLogout)
    /\ WF_first16(scenario = "entry" /\ Entering!Server)
    /\ \A k \in {"current", "open", "drawer", "release", "close", "last"} :
          /\ WF_first18(scenario = "dialogs" /\ \E q \in v16 : q.kind = k /\ Opening!Serve(q))
          /\ WF_first18(scenario = "dialogs" /\ \E q \in v16 : q.kind = k /\ Opening!Answer(q))
    /\ \A n \in 1..2 :
          /\ WF_first19(scenario = "form" /\ \E r \in v15 : r.n = n /\ Loading!ServeGet(r))
          /\ WF_first19(scenario = "form" /\ \E r \in v15 : r.n = n /\ Loading!AnswerGet(r))
    /\ SF_first19(scenario = "form" /\ \E p \in v16 : p.n = 1 /\ Loading!BeginUpdate("t1", p))
    /\ WF_first19(scenario = "form" /\ \E p \in v16 : p.n = 1 /\ Loading!AnswerSave(p))
    /\ WF_first19(scenario = "form" /\ (\/ Loading!OpenShift("t1") \/ Loading!IssueLease("t1")
                                        \/ Loading!RefuseWork("t1") \/ Loading!Update("t1")
                                        \/ Loading!RefuseUpdate("t1") \/ Loading!RunAgain("t1")))
    /\ WF_first26(scenario = "returns" /\ Reversing!Serve)
    /\ WF_first26(scenario = "returns" /\ Reversing!Done)
    /\ WF_first26(scenario = "returns" /\ Reversing!Refused)
    /\ WF_first26(scenario = "returns" /\ (Reversing!CancelApproval \/ Reversing!Approve))
    /\ \A n \in 1..4 : WF_first26(scenario = "returns" /\ \E r \in v9, ok \in BOOLEAN :
                                      r.call = n /\ Reversing!ListAnswer(r, ok))
    /\ \A n \in 1..2 : WF_first26(scenario = "returns" /\ \E r \in v17, ok \in BOOLEAN :
                                      r.n = n /\ Reversing!ShiftsAnswer(r, ok))
    /\ WF_first30(scenario = "search" /\ Searching!SearchNext)

LiveSpec == LiveInit /\ [][LiveNext]_<< scenario, first30 >> /\ Fairness


-----------------------------------------------------------------------------
\* A charge ends and its retry settles what was recorded (stores/cart.ts,
\* components/User/Sales/sale-submission.ts).
ChargesEnd ==
    /\ (scenario = "checkout" /\ Charging!Locked)
          ~> (scenario = "checkout" /\ ~Charging!Locked)
    /\ \A k \in Charging!Key :
          (scenario = "checkout" /\ Charging!Recorded(k) /\ v2 # Null /\ v2.key = k)
             ~> (scenario = "checkout" /\ (\/ v2 = Null \/ v2.key # k
                                           \/ v1 = Null \/ v1.lines # v2.lines))

\* A request, however often it is refused for its session, is answered, and an
\* offline sale is recorded or blocked (axios.ts, stores/offline.ts).
RequestsEnd ==
    /\ \A r \in Two :
          (scenario = "session" /\ v1[r].at \notin Refreshing!Settled)
             ~> (scenario = "session" /\ v1[r].at \in Refreshing!Settled)
    /\ \A k \in {"k"} :
          (scenario = "uploads" /\ k \in Uploading!Pending)
             ~> (scenario = "uploads" /\ (k \notin Uploading!Pending \/ v2[k].blocked))

\* No page stays busy: a batch is saved or not, a search shows its matches, a
\* shift dialog and the settings form come back, a reversal is sent or given up.
PagesSettle ==
    /\ (scenario = "entry" /\ v11) ~> (scenario = "entry" /\ ~v11)
    /\ (scenario = "search" /\ v5) ~> (scenario = "search" /\ ~v5)
    /\ (scenario = "dialogs" /\ v11.busy.outBusy) ~> (scenario = "dialogs" /\ ~v11.busy.outBusy)
    /\ (scenario = "dialogs" /\ v11.busy.inBusy) ~> (scenario = "dialogs" /\ ~v11.busy.inBusy)
    /\ (scenario = "form" /\ v12.at \in {"mount", "reload", "saving"})
          ~> (scenario = "form" /\ v12.at \in {"edit", "away"})
    /\ (scenario = "returns" /\ v18 # "idle") ~> (scenario = "returns" /\ v18 = "idle")

\* A navigation comes to rest on some page, unless the user keeps moving on.
NavigationsEnd ==
    \/ []<>(scenario = "routes" => v10 = "none")
    \/ []<><<scenario = "routes" /\ Routing!UserMoves>>_first15

\* On the way no request waits for a refresh that is over, no user is forgotten,
\* no code is drawn twice, the list shown is the one searched for last and a
\* closed shift does not come back from a lease.
OnTheWay ==
    /\ [](/\ scenario = "session" => Refreshing!TypeOK /\ Refreshing!NoneLeftWaiting
          /\ scenario = "entry" => /\ Entering!GeneratedAccepted /\ Entering!GeneratedInRange
                                   /\ Entering!CounterKept
          /\ scenario = "search" => Searching!MatchesLatest)
    /\ [][/\ scenario = "session" => (v5 /\ ~v5' => ~v8 \/ v7 # "no")
          /\ scenario = "dialogs" => Opening!NotFromLease]_first30

\* Whatever was begun comes to its end once the network and the server go on.
LiveHolds == ChargesEnd /\ RequestsEnd /\ PagesSettle /\ NavigationsEnd /\ OnTheWay

=============================================================================
