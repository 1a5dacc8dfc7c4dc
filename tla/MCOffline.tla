------------------------------ MODULE MCOffline ------------------------------
(***************************************************************************)
(* Selling without the network, for TLC: the lease, the outbox and the     *)
(* close of a shift in two tabs (OfflineClient), and the terminal's copy   *)
(* of the price list (OfflineCatalog).  The first takes the catalogue as   *)
(* there or not, the second knows of a lease that it starts from nothing,  *)
(* so each behaviour plays out one scenario while the other part stays as  *)
(* it starts.                                                              *)
(***************************************************************************)
EXTENDS OfflineClient

CONSTANTS
    Scenarios    \* which of the scenarios below are played

VARIABLES
    scenario,
    product, writing, clock, cache, cursor, walk, shown, item, queued, leases,
    overtaken

catalog == << product, writing, clock, cache, cursor, walk, shown, item, queued, leases,
              overtaken >>

\* Three products in pages of two, with writes that overlap.
ThreeProducts == 1..3
Listed == INSTANCE OfflineCatalog WITH
    Product <- ThreeProducts, Price <- {10}, Limit <- 2, MaxClock <- 3, MaxLeases <- 1,
    Selling <- FALSE

\* Two products, one to a page, while tickets are rung up.
TwoProducts == 1..2
Sold == INSTANCE OfflineCatalog WITH
    Product <- TwoProducts, Price <- {10, 20}, Limit <- 1, MaxClock <- 3, MaxLeases <- 2,
    Selling <- TRUE

ASSUME
    /\ OfflineClientAssumption
    /\ Listed!OfflineCatalogAssumption /\ Sold!OfflineCatalogAssumption

-----------------------------------------------------------------------------
OfflineInit ==
    /\ scenario \in Scenarios
    /\ Init
    /\ IF scenario = "sold" THEN Sold!Init ELSE Listed!Init
    /\ scenario \in {"uploads", "closing", "reopened"} => product[1].price = 10

\* A cashier's own close, and an ADMIN's.
Closes == \E t \in Tab : closing[t].at # "idle"
Forced == \E s \in Shifts : shift[s] = "FORCED"

\* Bounds: one shift and one lease; where there are two shifts, the sales are
\* those rung up offline, in one tab, during the second, and that tab closes.
OneShift == \A s \in Shifts : s = 1 \/ shift[s] = "NONE"
OneLease == \A l \in Leases : l = 1 \/ lease[l].shift = 0
OfflineInSecond ==
    /\ sell.at # "online"
    /\ \A t \in Tab : t = Register \/ (sync[t].at = "idle" /\ closing[t].at = "idle")
    /\ drops = 0 \/ (~OneShift /\ ~Closes)

\* Bounds: a row is not written twice at one instant; where tickets are rung up,
\* writes do not overlap.
OncePerInstant == \A p \in DOMAIN product :
    writing[p] # Listed!NoRow => product[p].stamp < writing[p].stamp
OneAtATime == \A p, q \in DOMAIN product :
    writing[p] # Listed!NoRow /\ p # q => /\ writing[q] = Listed!NoRow
                                          /\ product[q].stamp < writing[p].stamp

OfflineNext ==
    \/ /\ scenario = "uploads" /\ Next /\ ~Closes' /\ OneShift'
       /\ UNCHANGED << scenario, catalog >>
    \/ /\ scenario = "closing" /\ Next /\ ~Forced' /\ OneShift' /\ OneLease' /\ reloads' = 0
       /\ UNCHANGED << scenario, catalog >>
    \/ /\ scenario = "reopened" /\ Next /\ ~Forced' /\ OfflineInSecond' /\ reloads' = 0
       /\ UNCHANGED << scenario, catalog >>
    \/ scenario = "listed" /\ Listed!Next /\ OncePerInstant' /\ UNCHANGED << scenario, vars >>
    \/ scenario = "sold" /\ Sold!Next /\ OncePerInstant' /\ OneAtATime' /\ UNCHANGED << scenario, vars >>

OfflineSpec == OfflineInit /\ [][OfflineNext]_<< scenario, vars, catalog >>

-----------------------------------------------------------------------------
\* A complete refresh leaves every product that was not rewritten meanwhile as
\* it is on the server, save a row whose write another one overtook, and a
\* ticket queued offline is charged what it showed (stores/offline.ts
\* prepareOnce, database.ts queueOffline; offline.service.ts catalog).
CatalogHolds ==
    /\ [](/\ scenario = "listed" => Listed!CaughtUp
          /\ scenario = "sold" => Sold!TypeOK /\ Sold!CaughtUp /\ Sold!ChargedAsShown)
    /\ [][scenario = "listed" => \A p \in overtaken' \ overtaken :
             \E q \in ThreeProducts : product[q].stamp >= writing[p].stamp]_catalog

=============================================================================
