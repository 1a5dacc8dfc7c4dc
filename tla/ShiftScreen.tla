---------------------------- MODULE ShiftScreen ----------------------------
(***************************************************************************)
(* The cashier's shift as one browser tab shows it: the shift store, the   *)
(* layout that resumes and drops it, the dialogs that open, count and      *)
(* close it, and logging out over their requests.                          *)
(*                                                                         *)
(* The server works out each request at some moment after it was sent and  *)
(* the answer comes at some moment after that, or never ("lost": the       *)
(* request or its answer).  An administrator or another terminal of the    *)
(* cashier changes the shift in between.  Cash is ShiftLedger's.           *)
(***************************************************************************)
EXTENDS Integers, FiniteSets

CONSTANTS
    Cashier, Nobody,
    Ticket,      \* parked tickets that may come up
    MaxShifts,   \* bound on the shifts opened
    MaxMounts,   \* bound on how often the seller pages are entered
    MaxLogouts,  \* bound on the logouts
    MaxLost,     \* bound on the lost requests and answers
    MaxReqs,     \* bound on the requests under way
    Parts        \* what the cashier does besides opening and closing

ShiftScreenAssumption ==
    /\ Nobody \notin Cashier
    /\ {MaxShifts, MaxMounts, MaxLogouts, MaxLost, MaxReqs} \subseteq Nat
    /\ Parts \subseteq {"drawer", "report", "sale", "lease", "elsewhere"}

VARIABLES
    open,     \* the server: each cashier's open shift, or 0 ...
    last,     \* ... and the last one closed, or 0
    whose,    \* whose[s]: the cashier of shift s, or Nobody
    forced,   \* the shifts not closed by their cashier's count
    held,     \* the shift each cashier has an active offline lease on, or 0
    lease,    \* IndexedDB: the shift of each cashier's lease, or 0 ...
    ready,    \* ... and whether it may be sold on (not suspended)
    user, gen, \* who is logged in; the store's generation
    mount,    \* which instance of the seller layout this is
    ui,       \* the store, the dialogs and the route
    parked, stored, \* parked tickets: the tab's, and localStorage's
    sale,     \* the checkout: "none", "sending" or "unknown" (an attempt is left)
    locked,   \* the cart's lock
    reqs,     \* requests under way
    lost,
    agreed    \* History: the tickets this tab was told to discard

server == << open, last, whose, forced, held >>
cart == << parked, stored, sale, locked, agreed >>
offline == << lease, ready >>
session == << user, gen, mount >>
vars == << server, offline, session, ui, cart, reqs, lost >>

Shift == 1..MaxShifts
Closed == [active |-> 0, loaded |-> FALSE, inOpen |-> FALSE, drawer |-> FALSE,
           outOpen |-> FALSE, zRead |-> 0]
Idle == [inBusy |-> FALSE, drawerBusy |-> FALSE, outBusy |-> FALSE, asking |-> FALSE]
Screen(s, i, r) == [store |-> s, busy |-> i, route |-> r]

Init ==
    /\ open = [c \in Cashier |-> 0] /\ last = [c \in Cashier |-> 0]
    /\ whose = [s \in Shift |-> Nobody] /\ forced = {} /\ held = [c \in Cashier |-> 0]
    /\ lease = [c \in Cashier |-> 0] /\ ready = [c \in Cashier |-> FALSE]
    /\ user = Nobody /\ gen = 0 /\ mount = 0
    /\ ui = Screen(Closed, Idle, "Login")
    /\ parked = {} /\ stored = {} /\ sale = "none" /\ locked = FALSE
    /\ reqs = {} /\ lost = 0 /\ agreed = {}

Request(kind) ==
    [kind |-> kind, gen |-> gen, user |-> user, mount |-> mount, st |-> "sent", ans |-> 0,
     then |-> "", choice |-> "", managing |-> FALSE]
AnyAnswer(q) == TRUE
Mine(q) == q.gen = gen           \* gen === generation
Here(q) == q.mount = mount       \* the component that asked is still on screen

-----------------------------------------------------------------------------
(* The layout's watchers, run when a handler has changed the store. *)

SetShift(u, s) == [u EXCEPT !.store.active = s, !.store.loaded = TRUE]

RequireShift(u) ==
    IF u.route = "Sell" /\ u.store.loaded /\ u.store.active = 0
    THEN [u EXCEPT !.store.inOpen = TRUE, !.route = "SellerDashboard"]
    ELSE u

\* The router lets only who is logged in through.
Push(u, r) == IF user = Nobody THEN u ELSE RequireShift([u EXCEPT !.route = r])

OnSellerPage(u) == u.route \in {"Sell", "SellerDashboard"}

\* Only while the layout is mounted.
Watched(u) ==
    IF ~OnSellerPage(u) \/ u.store.active # 0 \/ ui.store.active = 0 \/ ~u.store.loaded THEN u
    ELSE IF u.store.zRead = 0 THEN RequireShift(u)
    ELSE IF u.route = "Sell" THEN [u EXCEPT !.route = "SellerDashboard"] ELSE u

ShiftClosedElsewhere(u) ==
    [SetShift(u, 0) EXCEPT !.store.drawer = FALSE, !.store.outOpen = FALSE]

-----------------------------------------------------------------------------
(* Coming and going. *)

Quiet == UNCHANGED << server, offline, cart, lost >>

EnterSeller(c, r) ==
    /\ mount < MaxMounts /\ Cardinality(reqs) < MaxReqs
    /\ mount' = mount + 1
    /\ reqs' = reqs \cup {[Request("current") EXCEPT !.user = c, !.mount = mount + 1, !.then = "mount"]}
    /\ ui' = RequireShift([ui EXCEPT !.busy = Idle, !.route = r])

Login(c, r) ==
    /\ user = Nobody
    /\ user' = c
    /\ EnterSeller(c, r)
    /\ UNCHANGED gen /\ Quiet

\* An administrator who also sells goes to the admin pages and comes back.
Leave ==
    /\ OnSellerPage(ui)
    /\ ui' = [ui EXCEPT !.route = "Admin", !.busy = Idle]
    /\ UNCHANGED << session, reqs >> /\ Quiet

Return(r) ==
    /\ ui.route = "Admin"
    /\ EnterSeller(user, r)
    /\ UNCHANGED << user, gen >> /\ Quiet

Logout ==
    /\ user # Nobody /\ gen < MaxLogouts
    /\ user' = Nobody /\ gen' = gen + 1
    /\ ui' = Screen(Closed, Idle, "Login")
    /\ parked' = stored /\ sale' = "none" /\ locked' = FALSE /\ agreed' = {}
    /\ UNCHANGED << server, offline, mount, stored, reqs, lost >>

\* layout.prepare: the server grants a lease on an open shift only.
Prepare ==
    /\ "lease" \in Parts
    /\ user # Nobody /\ OnSellerPage(ui)
    /\ ui.store.active # 0 /\ open[user] = ui.store.active
    /\ lease' = [lease EXCEPT ![user] = ui.store.active]
    /\ ready' = [ready EXCEPT ![user] = TRUE]
    /\ held' = [held EXCEPT ![user] = ui.store.active]
    /\ UNCHANGED << open, last, whose, forced, session, ui, cart, reqs, lost >>

-----------------------------------------------------------------------------
(* The server, and what happens on it without this tab. *)

New == Cardinality({s \in Shift : whose[s] # Nobody}) + 1

Opened(c) ==
    /\ New \in Shift
    /\ open' = [open EXCEPT ![c] = New]
    /\ whose' = [whose EXCEPT ![New] = c]
    /\ UNCHANGED << last, forced, held >>

Shut(c) ==
    /\ open' = [open EXCEPT ![c] = 0]
    /\ last' = [last EXCEPT ![c] = open[c]]
    /\ UNCHANGED << whose, held >>

OpenElsewhere(c) ==
    /\ "elsewhere" \in Parts
    /\ open[c] = 0
    /\ Opened(c)
    /\ UNCHANGED << offline, session, ui, cart, reqs, lost >>

ForceClose(c) ==
    /\ open[c] # 0
    /\ Shut(c)
    /\ forced' = forced \cup {open[c]}
    /\ UNCHANGED << offline, session, ui, cart, reqs, lost >>

Answered(q, st, ans) == [q EXCEPT !.st = st, !.ans = ans]

\* What the server does with q, and how it answers.
Served(q, st, ans) ==
    LET c == q.user IN
    CASE q.kind = "current" -> st = "ok" /\ ans = open[c] /\ UNCHANGED server
      [] q.kind = "last" -> st = "ok" /\ ans = last[c] /\ UNCHANGED server
      [] q.kind = "release" ->
            st = "ok" /\ ans = 0 /\ held' = [held EXCEPT ![c] = 0] /\ UNCHANGED << open, last, whose, forced >>
      [] q.kind = "open" ->
            IF open[c] # 0 THEN st = "open" /\ ans = 0 /\ UNCHANGED server
            ELSE IF New \notin Shift THEN st = "lost" /\ ans = 0 /\ UNCHANGED server
            ELSE st = "ok" /\ ans = New /\ Opened(c)
      [] q.kind = "drawer" ->
            /\ UNCHANGED server
            /\ IF open[c] = 0 THEN st = "none" /\ ans = 0 ELSE st = "ok" /\ ans = open[c]
      [] q.kind = "close" ->
            IF open[c] = 0 THEN st = "none" /\ ans = 0 /\ UNCHANGED server
            ELSE IF held[c] = open[c] THEN st = "lost" /\ ans = 0 /\ UNCHANGED server
            ELSE st = "ok" /\ ans = open[c] /\ Shut(c) /\ UNCHANGED forced

Serve(q) ==
    /\ q.st = "sent"
    /\ \E st \in {"ok", "open", "none", "lost"}, ans \in 0..MaxShifts :
        /\ Served(q, st, ans)
        /\ \/ reqs' = (reqs \ {q}) \cup {Answered(q, st, ans)} /\ UNCHANGED lost
           \/ /\ lost < MaxLost /\ lost' = lost + 1
              /\ reqs' = (reqs \ {q}) \cup {Answered(q, "lost", 0)}
    /\ UNCHANGED << offline, session, ui, cart >>

\* It never arrives, or is refused for another reason.
Drop(q) ==
    /\ q.st = "sent"
    /\ lost < MaxLost /\ lost' = lost + 1
    /\ reqs' = (reqs \ {q}) \cup {Answered(q, "lost", 0)}
    /\ UNCHANGED << server, offline, session, ui, cart >>

Sent(q) == Cardinality(reqs) < MaxReqs /\ reqs' = reqs \cup {q}
Took(q) == reqs' = reqs \ {q}

-----------------------------------------------------------------------------
(* fetchCurrent, for the layout or for an "already open". *)

\* Its result; for a lost answer, the lease's shift stands in when it may.
Fallback == user # Nobody /\ ready[user] /\ lease[user] # 0

Fetched(q) ==
    IF ~Mine(q) THEN ui
    ELSE IF q.st = "ok" THEN SetShift(ui, q.ans)
    ELSE IF Fallback THEN SetShift(ui, lease[user])
    ELSE ui

Failed(q) == q.st = "lost" /\ ~(Mine(q) /\ Fallback)

CurrentForLayout(q) ==
    /\ q.kind = "current" /\ q.then = "mount" /\ q.st # "sent"
    /\ ui' = RequireShift(Watched(Fetched(q)))
    /\ Took(q)
    /\ UNCHANGED session /\ Quiet

\* openShift: resume the shift that was already open, if the answer shows one.
NotConfirmed(q) == Failed(q) \/ Fetched(q).store.active = 0

NotBusy(u, q, b) == IF Here(q) THEN [u EXCEPT !.busy[b] = FALSE] ELSE u

CurrentForOpen(q) ==
    /\ q.kind = "current" /\ q.then = "open" /\ q.st # "sent"
    /\ LET u == Fetched(q) IN
       ui' = NotBusy(IF NotConfirmed(q) THEN Watched(u)
                     ELSE Push([u EXCEPT !.store.inOpen = FALSE], "Sell"), q, "inBusy")
    /\ Took(q)
    /\ UNCHANGED session /\ Quiet

-----------------------------------------------------------------------------
(* Shift In. *)

NoDialog == ~ui.store.inOpen /\ ~ui.store.outOpen /\ ~ui.store.drawer /\ ui.store.zRead = 0

GoToRegister ==
    /\ OnSellerPage(ui) /\ NoDialog
    /\ ui' = IF ui.store.active # 0 THEN Push(ui, "Sell") ELSE [ui EXCEPT !.store.inOpen = TRUE]
    /\ UNCHANGED << session, reqs >> /\ Quiet

ConfirmOpen ==
    /\ OnSellerPage(ui) /\ ui.store.inOpen /\ ui.store.zRead = 0 /\ ~ui.busy.inBusy
    /\ Sent(Request("open"))
    /\ ui' = [ui EXCEPT !.busy.inBusy = TRUE]
    /\ UNCHANGED session /\ Quiet

OpenAnswered(q) ==
    /\ q.kind = "open" /\ q.st # "sent"
    /\ CASE ~Mine(q) \/ q.st = "lost" ->
              Took(q) /\ ui' = NotBusy(ui, q, "inBusy")
         [] Mine(q) /\ q.st = "open" ->
              /\ reqs' = (reqs \ {q}) \cup {[q EXCEPT !.kind = "current", !.st = "sent", !.then = "open"]}
              /\ UNCHANGED ui
         [] Mine(q) /\ q.st = "ok" ->
              /\ Took(q)
              /\ ui' = NotBusy(Push([SetShift(ui, q.ans) EXCEPT !.store.inOpen = FALSE], "Sell"), q, "inBusy")
    /\ UNCHANGED session /\ Quiet

(* Cash in and cash drop. *)

OpenDrawer ==
    /\ "drawer" \in Parts
    /\ ui.route = "Sell" /\ ui.store.active # 0 /\ NoDialog
    /\ ui' = [ui EXCEPT !.store.drawer = TRUE]
    /\ UNCHANGED << session, reqs >> /\ Quiet

ConfirmDrawer ==
    /\ OnSellerPage(ui) /\ ui.store.drawer /\ ui.store.zRead = 0 /\ ~ui.busy.drawerBusy
    /\ Sent(Request("drawer"))
    /\ ui' = [ui EXCEPT !.busy.drawerBusy = TRUE]
    /\ UNCHANGED session /\ Quiet

DrawerAnswered(q) ==
    /\ q.kind = "drawer" /\ q.st # "sent"
    /\ LET u == CASE ~Mine(q) \/ q.st = "lost" -> ui
                  [] Mine(q) /\ q.st = "none" -> ShiftClosedElsewhere(ui)
                  [] Mine(q) /\ q.st = "ok" -> [SetShift(ui, q.ans) EXCEPT !.store.drawer = FALSE]
       IN ui' = NotBusy(Watched(u), q, "drawerBusy")
    /\ Took(q)
    /\ UNCHANGED session /\ Quiet

\* Cancel, of the dialog that is not submitting.
Cancel(d, b) ==
    /\ OnSellerPage(ui) /\ ui.store[d] /\ ~ui.busy[b]
    /\ ui' = [ui EXCEPT !.store[d] = FALSE]
    /\ UNCHANGED << session, reqs >> /\ Quiet

-----------------------------------------------------------------------------
(* Shift Out: beforeClose, then the count, then the parked tickets. *)

OpenShiftOut ==
    /\ OnSellerPage(ui) /\ ui.store.active # 0 /\ NoDialog /\ sale # "sending"
    /\ ui' = [ui EXCEPT !.store.outOpen = TRUE]
    /\ UNCHANGED << session, reqs >> /\ Quiet

Busy(u, on) == [u EXCEPT !.busy.outBusy = on]

\* The count is sent unless the parked tickets need what was not given.
Refused(choice) == parked # {} /\ (choice = "" \/ locked \/ sale # "none")
Manages == parked # {}

PostClose(q) ==
    IF Refused(q.choice)
    THEN Took(q) /\ ui' = NotBusy(ui, q, "outBusy") /\ UNCHANGED << locked, agreed >>
    ELSE /\ reqs' = (reqs \ {q}) \cup {[q EXCEPT !.kind = "close", !.st = "sent", !.managing = Manages]}
         /\ locked' = (locked \/ Manages)
         /\ agreed' = IF q.choice = "discard" THEN agreed \cup parked ELSE agreed
         /\ ui' = IF Here(q) THEN Busy(ui, TRUE) ELSE ui

ConfirmClose(choice) ==
    /\ Cardinality(reqs) < MaxReqs
    /\ OnSellerPage(ui) /\ ui.store.outOpen /\ ui.store.zRead = 0 /\ ~ui.busy.outBusy
    /\ parked = {} <=> choice = ""
    /\ LET q == [Request("release") EXCEPT !.choice = choice] IN
       IF lease[user] # 0
       THEN Sent(q) /\ ui' = Busy(ui, TRUE) /\ UNCHANGED << locked, agreed >>
       ELSE PostClose(q)
    /\ UNCHANGED << server, offline, session, parked, stored, sale, lost >>

\* The lease is suspended in IndexedDB and released on the server.
Released(q) ==
    /\ q.kind = "release" /\ q.st # "sent"
    /\ IF q.st = "ok" THEN ready' = [ready EXCEPT ![q.user] = FALSE] ELSE UNCHANGED ready
    /\ IF q.st = "ok" /\ Mine(q)
       THEN PostClose(q)
       ELSE Took(q) /\ ui' = NotBusy(ui, q, "outBusy") /\ UNCHANGED << locked, agreed >>
    /\ UNCHANGED << server, lease, session, parked, stored, sale, lost >>

Unlocks(q) == Mine(q) /\ q.managing

\* finishParkedShift, refused when another tab has written since.
Finishes(q) == q.managing /\ parked = stored /\ sale = "none"

CloseAnswered(q) ==
    /\ q.kind = "close" /\ q.st # "sent"
    /\ locked' = (locked /\ ~Unlocks(q))
    /\ LET u == CASE ~Mine(q) \/ q.st = "lost" -> ui
                  [] Mine(q) /\ q.st = "none" -> ShiftClosedElsewhere(ui)
                  [] Mine(q) /\ q.st = "ok" ->
                       [SetShift(ui, 0) EXCEPT !.store.outOpen = FALSE, !.store.zRead = q.ans]
       IN ui' = NotBusy(Watched(u), q, "outBusy")
    /\ IF Mine(q) /\ q.st = "ok" /\ q.managing
       THEN /\ parked' = IF Finishes(q) /\ q.choice = "discard" THEN {} ELSE stored
            /\ stored' = parked'
       ELSE UNCHANGED << parked, stored >>
    /\ Took(q)
    /\ UNCHANGED << server, offline, session, sale, agreed, lost >>

\* Another tab of the cashier parks a ticket; this one hears of it unless locked.
Hears == ~locked

ParkElsewhere(x) ==
    /\ user # Nobody /\ x \notin stored \cup agreed
    /\ stored' = stored \cup {x}
    /\ parked' = IF Hears THEN stored' ELSE parked
    /\ UNCHANGED << server, offline, session, ui, sale, locked, agreed, reqs, lost >>

-----------------------------------------------------------------------------
(* The Z-read, and a checkout. *)

ShowLast ==
    /\ "report" \in Parts
    /\ ui.route = "SellerDashboard" /\ NoDialog /\ ~ui.busy.asking
    /\ Sent(Request("last"))
    /\ ui' = [ui EXCEPT !.busy.asking = TRUE]
    /\ UNCHANGED session /\ Quiet

LastAnswered(q) ==
    /\ q.kind = "last" /\ q.st # "sent"
    /\ ui' = NotBusy(IF Mine(q) /\ q.st = "ok" THEN [ui EXCEPT !.store.zRead = q.ans] ELSE ui, q, "asking")
    /\ Took(q)
    /\ UNCHANGED session /\ Quiet

DoneWithReport ==
    /\ OnSellerPage(ui) /\ ui.store.zRead # 0
    /\ ui' = Push([ui EXCEPT !.store.zRead = 0], "SellerDashboard")
    /\ UNCHANGED << session, reqs >> /\ Quiet

SubmitSale ==
    /\ "sale" \in Parts
    /\ ui.route = "Sell" /\ ui.store.active # 0 /\ NoDialog /\ ~locked
    /\ sale' = "sending" /\ locked' = TRUE
    /\ UNCHANGED << server, offline, session, ui, parked, stored, agreed, reqs, lost >>

SaleAnswered(to) ==
    /\ sale = "sending"
    /\ sale' = to /\ locked' = FALSE
    /\ UNCHANGED << server, offline, session, ui, parked, stored, agreed, reqs, lost >>

\* explainFailure: SHIFT_NOT_OPEN.
SaleWithoutShift ==
    /\ sale = "sending" /\ open[user] = 0
    /\ sale' = "unknown" /\ locked' = FALSE
    /\ ui' = Watched(ShiftClosedElsewhere(ui))
    /\ UNCHANGED << server, offline, session, parked, stored, agreed, reqs, lost >>

-----------------------------------------------------------------------------
Answer(q) ==
    \/ CurrentForLayout(q) \/ CurrentForOpen(q) \/ OpenAnswered(q) \/ DrawerAnswered(q)
    \/ Released(q) \/ CloseAnswered(q) \/ LastAnswered(q)

Dialogs ==
    \/ GoToRegister \/ ConfirmOpen \/ OpenDrawer \/ ConfirmDrawer \/ OpenShiftOut
    \/ Cancel("inOpen", "inBusy") \/ Cancel("drawer", "drawerBusy") \/ Cancel("outOpen", "outBusy")
    \/ \E choice \in {"", "carry", "discard"} : ConfirmClose(choice)
    \/ ShowLast \/ DoneWithReport

Sales ==
    \/ SubmitSale \/ SaleWithoutShift
    \/ \E to \in {"none", "unknown"} : SaleAnswered(to)

Next ==
    \/ \E c \in Cashier, r \in {"Sell", "SellerDashboard"} : Login(c, r)
    \/ \E r \in {"Sell", "SellerDashboard"} : Return(r)
    \/ Leave \/ Logout \/ Prepare
    \/ \E c \in Cashier : OpenElsewhere(c) \/ ForceClose(c)
    \/ \E q \in reqs : Serve(q) \/ Drop(q) \/ Answer(q)
    \/ Dialogs \/ Sales
    \/ \E x \in Ticket : ParkElsewhere(x)

Spec == Init /\ [][Next]_vars

\* Axios times a request out: every one is answered, or fails.
FairSpec == Spec /\ \A k \in {"current", "open", "drawer", "release", "close", "last"} :
    /\ WF_vars(\E q \in reqs : q.kind = k /\ Serve(q))
    /\ WF_vars(\E q \in reqs : q.kind = k /\ Answer(q))

-----------------------------------------------------------------------------
RequestType ==
    [kind : {"current", "open", "drawer", "release", "close", "last"}, gen : 0..MaxLogouts,
     user : Cashier, mount : 1..MaxMounts, st : {"sent", "ok", "open", "none", "lost"},
     ans : 0..MaxShifts, then : {"", "mount", "open"}, choice : {"", "carry", "discard"},
     managing : BOOLEAN]

\* Types.
TypeOK ==
    /\ open \in [Cashier -> 0..MaxShifts] /\ last \in [Cashier -> 0..MaxShifts]
    /\ whose \in [Shift -> Cashier \cup {Nobody}] /\ forced \subseteq Shift
    /\ lease \in [Cashier -> 0..MaxShifts] /\ ready \in [Cashier -> BOOLEAN]
    /\ held \in [Cashier -> 0..MaxShifts]
    /\ user \in Cashier \cup {Nobody} /\ gen \in 0..MaxLogouts /\ mount \in 0..MaxMounts
    /\ ui.store \in [active : 0..MaxShifts, loaded : BOOLEAN, inOpen : BOOLEAN, drawer : BOOLEAN,
                     outOpen : BOOLEAN, zRead : 0..MaxShifts]
    /\ ui.busy \in [inBusy : BOOLEAN, drawerBusy : BOOLEAN, outBusy : BOOLEAN, asking : BOOLEAN]
    /\ ui.route \in {"Login", "Sell", "SellerDashboard", "Admin"}
    /\ parked \subseteq Ticket /\ stored \subseteq Ticket /\ agreed \subseteq Ticket
    /\ sale \in {"none", "sending", "unknown"} /\ locked \in BOOLEAN
    /\ reqs \subseteq RequestType /\ lost \in 0..MaxLost

\* The shift and the report on screen are the ones of whoever is logged in,
\* whatever was asked for the last cashier and answered after the logout.
OwnShift ==
    \A s \in {ui.store.active, ui.store.zRead} \ {0} : whose[s] = user

\* Whichever answer shows the shift to be gone, and whatever report is on
\* screen, the cashier is taken off the register.
LeavesRegister == ui.store.active # 0 /\ ui'.store.active = 0 => ui'.route # "Sell"

\* The cart stays locked only for a sale being sent or a close under way.
LockReturned ==
    locked => sale = "sending" \/ \E q \in reqs : q.kind = "close" /\ q.managing /\ Mine(q)

\* A late answer to a close never unlocks a ticket that is being sold.
SaleKeepsLock == sale = "sending" => locked

\* A ticket parked in another tab once the close is on its way is kept.
DiscardsOnlyAgreed == stored \ stored' \subseteq agreed

\* A shift whose Z-read this tab has shown comes back only as an answer of
\* the server, never from the offline lease (while the seller pages stay).
NotFromLease ==
    \A q \in reqs \ reqs' :
      q.kind = "current" /\ q.st = "lost" /\ ui'.store.active # ui.store.active
      => ui'.store.active \notin {last[c] : c \in Cashier} \ forced

\* No dialog waits forever: requests are answered or time out.
EveryDialogReturns ==
    /\ (ui.busy.outBusy ~> ~ui.busy.outBusy)
    /\ (ui.busy.inBusy ~> ~ui.busy.inBusy)

\* What the layout says ("closed by the cashier ... otherwise it was closed
\* elsewhere"): the shift is dropped from the screen only when it is closed.
DroppedWhenClosed ==
    ui.store.active # 0 /\ ui'.store.active = 0 /\ ui'.store.loaded
      => ui.store.active \notin {open[c] : c \in Cashier}
=============================================================================
