------------------------------- MODULE Access -------------------------------
(***************************************************************************)
(* Who may open which page: the roles of an account, the copy of them the  *)
(* client caches, the router's guard, and what the API grants the requests *)
(* a page makes as it opens.                                               *)
(*                                                                         *)
(* The guard waits for one profile read per page load, and decides every   *)
(* hop of a navigation anew; logins, logouts and other navigations happen  *)
(* between its hops.                                                       *)
(***************************************************************************)
EXTENDS Integers, FiniteSets

CONSTANTS
    RoleSets,    \* role sets an account may have in a run
    Places,      \* pages a user goes to in a run
    MaxChanges,  \* bound on the changes of the account's roles
    MaxLogins    \* bound on the logins

Roles == {"SELLER", "ADJUSTER", "RESTOCKER", "USER_MANAGER", "ADMIN", "SUPERVISOR"}

Keepers == {"RESTOCKER", "ADJUSTER"}
Managers == {"ADMIN", "ADJUSTER", "RESTOCKER", "USER_MANAGER"}

-----------------------------------------------------------------------------
\* The pages, and who they are for

SellerPages == {"SellerDashboard", "Sell", "Sales"}
AdminPages == {"Settings", "AuditLog", "Reports", "SalesHistory", "Shifts", "Categories"}
SupplyPages == {"Suppliers", "Products/Add", "Restocks", "Restocks/Add", "PurchaseOrders"}
StockPages == {"Products", "Inventories"}
CountPages == {"StockCounts", "Adjustments", "Adjustments/Add"}
UserPages == {"Users", "Roles"}
Protected == SellerPages \cup AdminPages \cup SupplyPages \cup StockPages
             \cup CountPages \cup UserPages \cup {"Dashboard"}
Pages == Protected \cup {"Login"}

AccessAssumption ==
    /\ RoleSets \subseteq SUBSET Roles
    /\ Places \subseteq Pages
    /\ {MaxChanges, MaxLogins} \subseteq Nat

\* The roles of a route; a route with none is open to all.
RolesOf(p) ==
    CASE p \in SellerPages -> {"SELLER"}
      [] p = "Dashboard" -> Managers
      [] p \in AdminPages -> {"ADMIN"}
      [] p \in SupplyPages -> {"RESTOCKER", "ADMIN"}
      [] p \in StockPages -> Keepers \cup {"ADMIN"}
      [] p \in CountPages -> {"ADJUSTER", "ADMIN"}
      [] p \in UserPages -> {"USER_MANAGER", "ADMIN"}
      [] p = "Login" -> {}

\* ADMIN passes every check but the seller pages', which need the role itself.
CanOpenAsAdmin(p, held) == RolesOf(p) # {} => "ADMIN" \in held \/ RolesOf(p) \cap held # {}
CanOpen(p, held) ==
    /\ p \in SellerPages => "SELLER" \in held
    /\ CanOpenAsAdmin(p, held)

CanViewDashboard(held) == Managers \cap held # {}

HomeOf(held) ==
    IF "SELLER" \in held /\ "ADMIN" \notin held THEN "SellerDashboard"
    ELSE IF CanViewDashboard(held) THEN "Dashboard"
    ELSE "Login"

\* The sidebar's links.
CanViewProducts(held) == held \cap (Keepers \cup {"ADMIN"}) # {}
Visible(held) ==
    LET is(r) == r \in held \/ "ADMIN" \in held IN
    (IF CanViewDashboard(held) THEN {"Dashboard"} ELSE {})
    \cup (IF "ADMIN" \in held THEN AdminPages ELSE {})
    \cup (IF is("RESTOCKER") THEN {"Suppliers", "PurchaseOrders", "Restocks"} ELSE {})
    \cup (IF CanViewProducts(held) THEN StockPages ELSE {})
    \cup (IF is("ADJUSTER") THEN {"StockCounts", "Adjustments"} ELSE {})
    \cup (IF is("USER_MANAGER") THEN UserPages ELSE {})

-----------------------------------------------------------------------------
\* What the API grants

\* A permission: who has it, whether ADMIN has it too, the pages it is shown
\* for, and the roles it is shown to (its holders, unless the table says so).
For(roles, pages) == [roles |-> roles, own |-> FALSE, pages |-> pages, shown |-> Roles]
Own(pages) == [roles |-> {"SELLER"}, own |-> TRUE, pages |-> pages, shown |-> Roles]
Shown(perm, roles) == [perm EXCEPT !.shown = roles]
Hidden(roles) == Shown(For(roles, {}), {})
Everyone == Roles \ {"SUPERVISOR"}

Permissions ==
    [settings |-> Hidden(Roles),
     setup |-> For({"ADMIN"}, {"Settings"}),
     audit |-> For({"ADMIN"}, {"AuditLog"}),
     movements |-> For(Keepers, StockPages),
     reports |-> For({"ADMIN"}, {"Reports"}),
     counts |-> For({"ADJUSTER"}, {"StockCounts"}),
     batches |-> For(Keepers, {"Inventories"}),
     suppliers |-> For({"RESTOCKER"}, {"Suppliers"}),
     orders |-> For({"RESTOCKER"}, {"PurchaseOrders"}),
     manageCategories |-> For({"ADMIN"}, {"Categories"}),
     categories |-> For(Keepers, {"Products"}),
     offline |-> Shown(Own({"Sell"}), {"SELLER"}),
     reconcile |-> For({"ADMIN"}, {"Dashboard"}),
     password |-> Shown(For(Roles, {"Dashboard", "SellerDashboard"}), Everyone),
     dashboard |-> For(Managers \ {"ADMIN"}, {"Dashboard"}),
     money |-> For({"ADMIN"}, {"Dashboard"}),
     lookup |-> For(Keepers \cup {"SELLER"},
                    {"Sell", "Products/Add", "Restocks/Add", "Adjustments/Add"}),
     shift |-> Own({"SellerDashboard"}),
     sell |-> Own({"Sell"}),
     sales |-> Shown(For({"SELLER"}, {"Sales"}), {"SELLER"}),
     allSales |-> For({"ADMIN"}, {"SalesHistory"}),
     reverse |-> Shown(For({"SELLER", "ADMIN"}, {"Sales", "SalesHistory"}), {"SELLER", "ADMIN"}),
     override |-> Shown(For({"SELLER", "ADMIN", "ADJUSTER"},
                            {"Sell", "Sales", "SalesHistory", "StockCounts"}),
                        {"SELLER", "ADMIN", "ADJUSTER"}),
     pins |-> For({"ADMIN"}, {"Users"}),
     approve |-> Hidden({"ADMIN", "SUPERVISOR"}),
     shifts |-> For({"ADMIN"}, {"Shifts"}),
     products |-> For(Keepers, {"Products"}),
     addProducts |-> For({"RESTOCKER"}, {"Products/Add"}),
     editProducts |-> Hidden({"RESTOCKER"}),
     prices |-> Hidden({"ADMIN"}),
     inventory |-> For(Keepers, {"Inventories"}),
     restocks |-> For({"RESTOCKER"}, {"Restocks", "Restocks/Add"}),
     adjustments |-> For({"ADJUSTER"}, {"Adjustments", "Adjustments/Add"}),
     users |-> For({"USER_MANAGER"}, {"Users"}),
     admins |-> For({"ADMIN"}, {"Users"})]

\* RoleGuard: the caller has one of the roles, or ADMIN where ADMIN passes.
Granted(perm, held) ==
    \/ perm.roles \cap held # {}
    \/ ~perm.own /\ "ADMIN" \in held

PermissionsOf(role) ==
    {name \in DOMAIN Permissions : Granted(Permissions[name], {role})}

AppPermissionsOf(role) ==
    {name \in PermissionsOf(role) : role \in Permissions[name].shown}

\* The permissions of the requests a page makes.  The layouts read the settings,
\* and the sidebar the low stock, for those who may see it.
Loads(p, held) ==
    {"settings"} \cup
    (IF p \in Protected \ SellerPages /\ CanViewProducts(held) THEN {"inventory"} ELSE {}) \cup
    CASE p = "SellerDashboard" -> {"shift", "offline"}
      [] p = "Sell" -> {"shift", "offline", "lookup"}
      [] p = "Sales" -> {"sales"}
      [] p = "Dashboard" -> {"dashboard"}
      [] p = "Settings" -> {"settings"}
      [] p = "AuditLog" -> {"audit"}
      [] p = "Reports" -> {"reports", "categories", "users"}
      [] p = "SalesHistory" -> {"sales", "categories", "users"}
      [] p = "Shifts" -> {"shifts"}
      [] p = "Categories" -> {"categories"}
      [] p = "Suppliers" -> {"suppliers"}
      [] p = "Products/Add" -> {"addProducts", "categories"}
      [] p = "Restocks" -> {"restocks"}
      [] p = "Restocks/Add" -> {"lookup", "suppliers", "categories", "restocks"}
      [] p = "PurchaseOrders" -> {"orders", "suppliers", "lookup"}
      [] p = "Products" -> {"products", "categories"}
      [] p = "Inventories" -> {"inventory", "batches"}
      [] p = "StockCounts" -> {"counts", "categories", "lookup"}
      [] p = "Adjustments" -> {"adjustments"}
      [] p = "Adjustments/Add" -> {"adjustments", "lookup", "batches"}
      [] p = "Users" -> {"users"}
      [] p = "Roles" -> {}

-----------------------------------------------------------------------------
\* A tab

VARIABLES
    roles,       \* the account's roles, on the server
    session,     \* the server's session is there
    marker,      \* the readable marker cookie is there
    known,       \* a user is cached
    cached,      \* the roles cached with it
    authed,      \* isAuthenticated, as computed when the user last changed
    checked,     \* this page load has read the profile, or tried to
    told,        \* what it was told: <<roles>>, or << >> without an answer
    page,        \* the page on screen, "none" while the app starts
    going,       \* where a navigation under way is heading, or "none"
    hops,        \* its redirects so far
    leaving,     \* the user's own log out is on its way to Login
    ending,      \* a logout's request is under way
    changes, logins

server == << roles, session, changes, logins >>
cache == << known, cached, authed, told >>
router == << page, going, hops >>
vars == << server, marker, cache, checked, router, leaving, ending >>

\* The redirects are counted up to three, one more than there ever are.
OneMore == IF hops < 3 THEN hops + 1 ELSE hops

\* The app starts at the address it is given, with what an earlier visit left.
Init ==
    /\ roles \in RoleSets /\ cached \in RoleSets
    /\ session \in BOOLEAN /\ marker \in BOOLEAN /\ known \in BOOLEAN
    /\ authed = (known /\ marker)
    /\ checked = FALSE /\ told = << >>
    /\ page = "none" /\ going \in Places /\ hops = 0
    /\ leaving = FALSE /\ ending = FALSE
    /\ changes = 0 /\ logins = 0

\* The state has its shape, and a user without roles is no one to the guard.
TypeOK ==
    /\ roles \in RoleSets /\ cached \in RoleSets
    /\ {session, marker, known, authed, checked, leaving, ending} \subseteq BOOLEAN
    /\ told = << >> \/ told[1] \in RoleSets
    /\ page \in Pages \cup {"none"} /\ going \in Pages \cup {"none"}
    /\ hops \in Nat /\ changes \in 0..MaxChanges /\ logins \in 0..MaxLogins
    /\ page = "none" => going # "none"

\* The cached user is dropped; the computed isAuthenticated follows.
ClearUser == known' = FALSE /\ authed' = FALSE /\ UNCHANGED << cached, told >>

\* The user is what the server's profile says.
ReadProfile == known' = TRUE /\ cached' = roles /\ authed' = TRUE /\ told' = << roles >>

\* A link, a button or the address bar; a navigation under way is superseded.
Push(p) == going' = p /\ hops' = 0

Reload ==
    /\ page # "none"
    /\ page' = "none" /\ Push(page)
    /\ authed' = (known /\ marker) /\ told' = << >>
    /\ checked' = FALSE /\ leaving' = FALSE /\ ending' = FALSE
    /\ UNCHANGED << server, marker, known, cached >>

Navigate(p) ==
    /\ page # "none" /\ p # page
    /\ Push(p)
    /\ UNCHANGED << server, marker, cache, checked, page, leaving, ending >>

\* Once per load: what the server says, nothing without a session, and the
\* cached user when there is no answer.
CheckSession ==
    /\ ~checked /\ going # "none"
    /\ checked' = TRUE
    /\ \/ ~marker /\ ClearUser /\ UNCHANGED << marker, ending >>
       \/ marker /\ session /\ ReadProfile /\ UNCHANGED << marker, ending >>
       \/ /\ marker /\ ~session                 \* and its refresh was refused
          /\ ClearUser /\ marker' = FALSE /\ ending' = TRUE
       \/ marker /\ UNCHANGED << cache, marker, ending >>
    /\ UNCHANGED << server, router, leaving >>

\* The guard's way home.  A user whose roles open no page is dropped as they
\* are sent to Login, and the session ended.
GoHome ==
    LET home == HomeOf(IF known THEN cached ELSE {}) IN
    /\ going' = home /\ hops' = OneMore /\ UNCHANGED page
    /\ IF home = "Login" THEN ClearUser /\ ending' = TRUE
       ELSE UNCHANGED << cache, ending >>

\* One hop of the guard.
Settled == checked
Passes == authed => leaving
Guard ==
    /\ going # "none" /\ Settled
    /\ \/ /\ going \in Protected /\ ~authed
          /\ going' = "Login" /\ hops' = OneMore
          /\ UNCHANGED << page, cache, ending >>
       \/ /\ going = "Login" /\ ~Passes
          /\ GoHome
       \/ /\ going \in Protected /\ authed /\ ~CanOpen(going, cached)
          /\ GoHome
       \/ /\ \/ going \in Protected /\ authed /\ CanOpen(going, cached)
             \/ going = "Login" /\ Passes
          /\ page' = going /\ going' = "none" /\ UNCHANGED hops
          /\ UNCHANGED << cache, ending >>
    /\ UNCHANGED << server, marker, checked, leaving >>

\* Login.vue: the profile follows the login, and the way home the profile.
SignIn ==
    /\ page = "Login" /\ going = "none" /\ logins < MaxLogins
    /\ session' = TRUE /\ marker' = TRUE
    /\ logins' = logins + 1
    /\ \/ UNCHANGED << cache, router, ending >>          \* the profile did not come
       \/ /\ ReadProfile
          /\ IF HomeOf(roles) = "Login" THEN ending' = TRUE /\ UNCHANGED router
             ELSE Push(HomeOf(roles)) /\ UNCHANGED << page, ending >>
    /\ UNCHANGED << roles, changes, checked, leaving >>

\* The Log out button leaves the page first ...
RequestLogout ==
    /\ page \in Protected /\ ~leaving
    /\ leaving' = TRUE /\ Push("Login")
    /\ UNCHANGED << server, marker, cache, checked, page, ending >>

\* ... and ends the session only from Login, unless the page kept the user or
\* another navigation took over.
Left ==
    /\ leaving /\ going # "Login"
    /\ leaving' = FALSE /\ ending' = (page = "Login" \/ ending)
    /\ UNCHANGED << server, marker, cache, checked, router >>

\* A page with drafts asks a logged-in user, who keeps to it.
Asks == authed
Stay ==
    /\ page \in Protected /\ going # "none" /\ Asks
    /\ going' = "none" /\ hops' = 0
    /\ UNCHANGED << server, marker, cache, checked, page, leaving, ending >>

\* The logout's answer, or none: the user is cleared either way.
EndLogout ==
    /\ ending /\ ending' = FALSE
    /\ \/ session' = FALSE /\ marker' = FALSE
       \/ UNCHANGED << session, marker >>
    /\ ClearUser /\ Push("Login")
    /\ UNCHANGED << roles, changes, logins, checked, page, leaving >>

\* A refresh refused: a forced logout.
ForcedLogout ==
    /\ known /\ ~session /\ page \in Protected
    /\ ending' = TRUE /\ marker' = FALSE
    /\ UNCHANGED << server, cache, checked, router, leaving >>

SessionEnds ==
    /\ session' = FALSE /\ marker' \in {marker, FALSE}
    /\ UNCHANGED << roles, changes, logins, cache, checked, router, leaving, ending >>

RolesChanged(held) ==
    /\ changes < MaxChanges /\ roles' = held /\ held # roles
    /\ changes' = changes + 1
    /\ UNCHANGED << session, logins, marker, cache, checked, router, leaving, ending >>

Next ==
    \/ Reload \/ CheckSession \/ Guard \/ SignIn
    \/ RequestLogout \/ Left \/ Stay \/ EndLogout \/ ForcedLogout \/ SessionEnds
    \/ \E p \in Places : Navigate(p)
    \/ \E held \in RoleSets : RolesChanged(held)

\* The browser runs the app's own steps; what the user and the server do has
\* no fairness.
Spec ==
    /\ Init /\ [][Next]_vars
    /\ WF_vars(CheckSession) /\ WF_vars(Guard) /\ WF_vars(Left) /\ WF_vars(EndLogout)

-----------------------------------------------------------------------------
\* Properties

\* A navigation is never bounced around: at most two redirects lead it to a
\* page (router/index.ts homeFor, "otherwise Login, seeing a logged-in user,
\* would send them straight back here in a loop").
HopsBounded == hops <= 2

\* After the profile was read, a page is on screen only for those roles: the
\* copy an earlier visit cached opens nothing (router/index.ts beforeEach).
\* A later login is told anew.
OpenedAsTold ==
    page \in Protected /\ told # << >> => CanOpen(page, told[1])

\* No page stays on screen for nobody: without a user the tab is on Login, or
\* on its way there (stores/auth.ts logout, endStaleSession).
NobodyNoPage ==
    ~known /\ going = "none" /\ page # "none" => page = "Login"

\* A logged-in user does not sit on Login, unless a logout or a page kept
\* them: the guard takes them home (router/index.ts beforeEach).
NeverStranded ==
    page = "Login" /\ going = "none" /\ authed => leaving \/ ending

\* Every request an open page makes is one the API grants the user's roles:
\* the route's roles, the permissions table and the views agree, for every
\* set of roles (router/index.ts, contracts permissions.ts).
PageLoads ==
    page \in Protected /\ known =>
        \A name \in Loads(page, cached) : Granted(Permissions[name], cached)

\* Where a user is taken they may stay, and what they are offered they may
\* open: their home, every link of the sidebar, and for each permission shown
\* for a role of theirs one of its pages (access.ts, UserSidebar.vue,
\* permissions.ts appPermissionsOf).
OffersOpen ==
    known =>
        /\ CanOpen(HomeOf(cached), cached)
        /\ \A p \in Visible(cached) : CanOpen(p, cached)
        /\ \A r \in Roles : \A name \in AppPermissionsOf(r) :
               \E p \in Permissions[name].pages : CanOpen(p, {r})

\* A navigation comes to rest on some page, unless the user keeps moving on:
\* nothing the guard awaits or redirects to goes round for ever.
UserMoves == Reload \/ RequestLogout \/ \E p \in Places : Navigate(p)
Settles == []<>(going = "none") \/ []<><<UserMoves>>_vars

=============================================================================
