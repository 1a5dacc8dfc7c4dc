------------------------------ MODULE MCMoney -------------------------------
(***************************************************************************)
(* What is counted up from money and goods, for TLC: the checkout's        *)
(* arithmetic (Till), the reports (Reports), and the two migrations that   *)
(* rewrite stored figures and names (LedgerBackfill, DecodeEntities).  They *)
(* share no state: each behaviour plays out one scenario.  The days of the *)
(* reports play with the variables of Reports; elsewhere v1, v2, ... are   *)
(* the component's variables, in the order in which it declares them.      *)
(***************************************************************************)
EXTENDS Reports, TLC

CONSTANTS
    Scenarios,               \* which of the scenarios below are played
    Run, Rival,              \* three runs of a migration, two that overlap
    Good, Doc,               \* two products, two documents
    Null

VARIABLES scenario, v1, v2, v3, v4, v5, v6, v7, v8, v9, v10

unused9 == << v10 >>
unused7 == << v8, v9, unused9 >>
others == << v1, v2, v3, v4, v5, v6, v7, unused7 >>

Symmetry == Permutations(Run) \cup Permutations(Good)

-----------------------------------------------------------------------------
\* Four grams to the kilogram; one product is counted and one is weighed.
TwoProducts == {"piece", "weighed"}
SoldBy == [p \in TwoProducts |-> IF p = "piece" THEN "PIECE" ELSE "KG"]
PieceUnit == [p \in {"piece"} |-> "PIECE"]
SomeSteps == << 2, 5, 10 >>
HalfOff == {[type |-> "PERCENT", value |-> 50]}
AllOrNothing == {[type |-> "FIXED", value |-> 5], [type |-> "PERCENT", value |-> 4]}

\* A basket with a discount that does not spread evenly and a line of unknown
\* cost, and a plain sale.
Line(p, q, price, cost, unit) ==
    [product |-> p, quantity |-> q, price |-> price, cost |-> cost, unit |-> unit]
Basket ==
    [lines |-> << Line("p1", 1, 3, 1, "PIECE"), Line("p2", 3, 2, NoCost, "KG"),
                  Line("p2", 1, 2, 1, "PIECE") >>,
     discount |-> 2, payment |-> "CASH", cashier |-> "first"]
Single ==
    [lines |-> << Line("p1", 2, 3, 2, "PIECE") >>, discount |-> 0,
     payment |-> "SPLIT", cashier |-> "second"]
AllForms == {Basket, Single}

\* Days of eight instants.  Local midnight of day 2 (instant 14) is skipped in
\* one zone, and its first instant repeated in the other.
Skips == [before |-> 2, after |-> 3, at |-> 14]
Repeats == [before |-> 3, after |-> 2, at |-> 14]
BothZones == {Skips, Repeats}

\* Two encodings of a plain name, one of them encoded again, twice.
Names == {"plain", "once", "other", "twice", "thrice", "plain2"}
Decoded ==
    [n \in Names |-> CASE n = "thrice" -> "twice"
                       [] n = "twice" -> "once"
                       [] n = "plain2" -> "plain2"
                       [] OTHER -> "plain"]
FewNames == {"plain", "once", "twice"}
FewDecoded == [n \in FewNames |-> Decoded[n]]

-----------------------------------------------------------------------------
\* Whole sales: rounding, the limit and every refusal are within a few steps.
Rounded == INSTANCE Till WITH
    Scale <- 4, QuickSteps <- SomeSteps, AmountMax <- 12, QuickMax <- 2,
    Products <- TwoProducts, Unit <- SoldBy, PriceSet <- {2, 5},
    Quantities <- {1, 3}, Discounts <- HalfOff, CashTyped <- {0, 12},
    Legacy <- FALSE, MaxSales <- 1, MaxChanges <- 1,
    prices <- v1, ticket <- v2, discount <- v3, form <- v4, request <- v5,
    refusal <- v6, sales <- v7, payouts <- v8, taken <- v9, changes <- v10

\* A shift of sales, the first of them older than recorded tenders.
Tendered == INSTANCE Till WITH
    Scale <- 4, QuickSteps <- SomeSteps, AmountMax <- 12, QuickMax <- 2,
    Products <- {"piece"}, Unit <- PieceUnit, PriceSet <- {5}, Quantities <- {1},
    Discounts <- AllOrNothing, CashTyped <- {0, 4, 12}, Legacy <- TRUE,
    MaxSales <- 3, MaxChanges <- 0,
    prices <- v1, ticket <- v2, discount <- v3, form <- v4, request <- v5,
    refusal <- v6, sales <- v7, payouts <- v8, taken <- v9, changes <- v10

\* Three backfills, the server stopped during each.
Alone == INSTANCE LedgerBackfill WITH
    Run <- Run, Product <- Good, Stock <- {0, 2}, MaxSales <- 1,
    MayOverlap <- FALSE, MayForget <- FALSE,
    stock <- v1, net <- v2, bad <- v3, ledger <- v4, marker <- v5, done <- v6,
    run <- v7, api <- v8, sales <- v9

\* Two backfills that may overlap, with the server running.
Beside == INSTANCE LedgerBackfill WITH
    Run <- Rival, Product <- Good, Stock <- {2}, MaxSales <- 1,
    MayOverlap <- TRUE, MayForget <- TRUE,
    stock <- v1, net <- v2, bad <- v3, ledger <- v4, marker <- v5, done <- v6,
    run <- v7, api <- v8, sales <- v9

\* Three runs over two documents; one write fails.
Decoding == INSTANCE DecodeEntities WITH
    Run <- Run, Doc <- Doc, Name <- Names, Decode <- Decoded, MaxFailed <- 1,
    MayOverlap <- FALSE,
    names <- v1, progress <- v2, marker <- v3, run <- v4, failed <- v5,
    orig <- v6, typed <- v7

\* One run takes over from another that is still alive.
Takeover == INSTANCE DecodeEntities WITH
    Run <- Rival, Name <- FewNames, Decode <- FewDecoded,
    MaxFailed <- 0, MayOverlap <- TRUE,
    names <- v1, progress <- v2, marker <- v3, run <- v4, failed <- v5,
    orig <- v6, typed <- v7

ASSUME
    /\ DayAssumption /\ ReportsAssumption
    /\ Rounded!ScaleAssumption /\ Rounded!AmountMaxAssumption /\ Rounded!QuickAssumption
    /\ Rounded!TillAssumption /\ Tendered!TillAssumption
    /\ Alone!LedgerBackfillAssumption /\ Beside!LedgerBackfillAssumption
    /\ Decoding!DecodeEntitiesAssumption /\ Takeover!DecodeEntitiesAssumption

-----------------------------------------------------------------------------
Unused9 == v10 = 0
Unused7 == v8 = 0 /\ v9 = 0 /\ Unused9

NoReports == zone = 0 /\ now = 0 /\ sales = 0 /\ category = 0 /\ scan = 0 /\ reports = 0 /\ moves = 0

\* Two kinds of sale and of reversal over three instants, and no report.
OfDays == zone = Repeats /\ reports = 0 /\ moves = 0

\* A report on baskets, refunded or late, two days apart, where midnight is skipped.
OfRows ==
    /\ zone = Skips /\ scan.began # 13
    /\ \A i \in DOMAIN sales :
          /\ sales[i].form = Basket /\ sales[i].reversal.kind # "VOID"
          /\ sales[i].offline => sales[i].late
          /\ sales[i].soldAt # 13 /\ sales[i].reversal.at # 13

MoneyInit ==
    /\ scenario \in Scenarios
    /\ \/ /\ \/ scenario = "days" /\ Init /\ OfDays
             \/ scenario = "rows" /\ Init /\ OfRows 
                /\ category = [p \in ProductsSold |-> CHOOSE c \in Categories : TRUE]
          /\ v1 = 0 /\ v2 = 0 /\ v3 = 0 /\ v4 = 0 /\ v5 = 0 /\ v6 = 0 /\ v7 = 0 /\ Unused7
       \/ /\ NoReports
          /\ \/ scenario = "decoding" /\ Decoding!Init /\ Unused7
             \/ scenario = "takeover" /\ Takeover!Init /\ Unused7
             \/ scenario = "backfill" /\ Alone!Init /\ Unused9
             \/ scenario = "overlap" /\ Beside!Init /\ Unused9
             \/ scenario = "till" /\ Rounded!Init /\ v1 = [p \in TwoProducts |-> IF p = "piece" THEN 2 ELSE 5]
             \/ scenario = "shift" /\ Tendered!Init

MoneyNext ==
    \/ scenario = "days" /\ Next /\ OfDays' /\ UNCHANGED << scenario, others >>
    \/ scenario = "rows" /\ Next /\ OfRows' /\ UNCHANGED << scenario, others >>
    \/ scenario = "decoding" /\ Decoding!Next /\ UNCHANGED << scenario, vars, unused7 >>
    \/ scenario = "takeover" /\ Takeover!Next /\ UNCHANGED << scenario, vars, unused7 >>
    \/ scenario = "backfill" /\ Alone!Next /\ UNCHANGED << scenario, vars, unused9 >>
    \/ scenario = "overlap" /\ Beside!Next /\ UNCHANGED << scenario, vars, unused9 >>
    \/ scenario = "till" /\ Rounded!Next /\ UNCHANGED << scenario, vars >>
    \/ scenario = "shift" /\ Tendered!Next /\ UNCHANGED << scenario, vars >>

MoneySpec == MoneyInit /\ [][MoneyNext]_<< scenario, vars, others >>

-----------------------------------------------------------------------------
\* What the screens charge, cap and suggest is what the server charges, a
\* shift's figures add up to its sales, and every report partitions and adds up
\* the sales it covers, in whatever zone (CheckoutModal.vue, sales.service.ts,
\* shift.service.ts, reports.service.ts).
Figures ==
    /\ scenario = "till" =>
         /\ Rounded!TypeOK /\ Rounded!RefusedOnlyWhenStale /\ Rounded!ChargedAsShown
         /\ Rounded!LimitIsExact /\ Rounded!QuickCashPays
    /\ scenario = "shift" => Tendered!FiguresAddUp /\ Tendered!RefusedOnlyWhenStale
    /\ scenario = "rows" => TypeOK /\ RowsAddUp /\ Reconciles /\ ScanOfThePast /\ DaysPartition
    /\ scenario = "days" =>
         AllocationFair /\ DaysPartition /\ DaysAddUp /\ DashboardAgrees

\* A migration decodes a name once and opens a ledger once with the stock of that
\* moment, and says it is complete only when it is; only a late offline sale
\* changes the figures of a past day (migrations/*.ts, reports.service.ts).
Rewrites ==
    /\ scenario = "backfill" => Alone!TypeOK /\ Alone!LedgerReconciles /\ Alone!CompleteMeansAll
    /\ scenario = "decoding" => Decoding!TypeOK /\ Decoding!CompleteMeansDecoded
RewriteSteps ==
    /\ scenario = "days" => PastOnlyOffline
    /\ scenario = "overlap" => Beside!BaselineTrue
    /\ scenario = "decoding" => Decoding!DecodedOnce
    /\ scenario = "takeover" => Takeover!MarkerKept

\* Every figure is counted once and stays what it was counted to be, as above.
MoneyHolds == [](Figures /\ Rewrites) /\ [][RewriteSteps]_<< vars, others >>

=============================================================================
