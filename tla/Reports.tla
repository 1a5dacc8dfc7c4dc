------------------------------- MODULE Reports ------------------------------
(***************************************************************************)
(* The sales report and the dashboard's figures of the day over the sales  *)
(* as they are rung up, uploaded late from offline terminals and reversed. *)
(* A report reads the matching sales one after another through a cursor,   *)
(* while sales go on, and adds up every sale at its occurrence and every   *)
(* reversal at the day it happened, line by line, with the sale's discount *)
(* spread over its lines.                                                  *)
(*                                                                         *)
(* Days are those of the store's timezone (common/utils/timezone.ts).  A   *)
(* zone is an offset that changes at most once within the instants         *)
(* considered: z.before until z.at and z.after from then on.               *)
(* Dates are day numbers; a day of the wall clock has DayLength instants   *)
(* (86,400,000 in the program), and the longest change of an offset is     *)
(* less than MaxTransition (three hours).                                  *)
(***************************************************************************)
EXTENDS Amounts

CONSTANTS
    DayLength, MaxTransition,
    SaleForms,    \* the sales that can be rung up
    Kinds,        \* the reversals made, of {"VOID", "REFUND"}
    Lates,        \* whether an offline sale comes late, a set of BOOLEANs
    Categories,
    NoCost,       \* the cost of a line whose product was never received
    Zones,        \* the timezones the store may be in
    Clock,        \* the instants at which something happens
    MaxSales, MaxReports, MaxMoves   \* bounds

DayAssumption ==
    /\ DayLength \in Nat \ {0}
    /\ MaxTransition \in 1..(DayLength - 1)

Offset(t, z) == IF t < z.at THEN z.before ELSE z.after

\* The date the wall clock of the zone shows at an instant.
DateInZone(t, z) == (t + Offset(t, z)) \div DayLength

OnOrAfter(t, date, z) == DateInZone(t, z) >= date

\* The first instant of lo + 1 .. hi on the date or later, by bisection.
FirstInstantOn(lo, hi, date, z) ==
    LET search[l \in lo..hi, h \in lo..hi] ==
            LET mid == (l + h) \div 2
            IN  IF h - l <= 1 THEN h
                ELSE IF OnOrAfter(mid, date, z) THEN search[l, mid]
                ELSE search[mid, h]
    IN  search[lo, hi]

\* The first instant of a date: two guesses at local midnight; when neither
\* is on the date, midnight is skipped and the day starts at the change
\* between them; otherwise the midnight may be a repeated one.
StartOfDay(date, z) ==
    LET midnight == date * DayLength
        first == midnight - Offset(midnight, z)
        second == midnight - Offset(first, z)
        onDate == {t \in {first, second} : DateInZone(t, z) = date}
        candidate == Min(onDate)
        lo == candidate - MaxTransition
    IN  IF onDate = {}
        THEN FirstInstantOn(Min({first, second}), Max({first, second}),
                            date, z)
        ELSE IF OnOrAfter(lo, date, z) THEN candidate
        ELSE FirstInstantOn(lo, candidate, date, z)

(* ------------------------------- the report ---------------------------- *)

ProductsSold == UNION {{f.lines[i].product : i \in DOMAIN f.lines} :
                       f \in SaleForms}
AllDays == {DateInZone(t, z) : t \in Clock, z \in Zones}

\* The first instants of the days a report may be asked for, and the day after.
DayStart ==
    [z \in Zones, date \in Min(AllDays)..(Max(AllDays) + 1) |-> StartOfDay(date, z)]

ReportsAssumption ==
    /\ Clock \subseteq Nat /\ Clock # {} /\ IsFiniteSet(Clock)
    /\ {MaxSales, MaxReports, MaxMoves} \subseteq Nat

VARIABLES
    zone,       \* the store's timezone
    now,        \* the server's clock
    sales,      \* the stored sales
    category,   \* product -> its category today
    scan,       \* the report being read
    reports,    \* reports asked for so far
    moves       \* products moved to another category so far

vars == << zone, now, sales, category, scan, reports, moves >>

Days == {DateInZone(t, zone) : t \in Clock}
Within(t, from, to) == t >= DayStart[zone, from] /\ t < DayStart[zone, to + 1]

NoScan == [on |-> FALSE, from |-> 0, to |-> 0, todo |-> {}, got |-> {},
           uploaded |-> FALSE, began |-> 0]
NotReversed == [kind |-> "NONE", at |-> 0]

(* ------------------------------- the sales ----------------------------- *)

LineGross(line) == QuantityAmount(line.price, line.quantity, line.unit)
Gross(lines) == [i \in DOMAIN lines |-> LineGross(lines[i])]
SumSeq(s) == MapThenSumSet(LAMBDA i : s[i], DOMAIN s)

Charged(sale) == SumSeq(Gross(sale.form.lines)) - sale.form.discount

\* A sale rung up online; a report under way may or may not come to it.
Ring(form) ==
    /\ Len(sales) < MaxSales
    /\ sales' = Append(sales, [form |-> form, soldAt |-> now,
                               offline |-> FALSE, late |-> FALSE,
                               reversal |-> NotReversed])
    /\ \E seen \in {{}, {Len(sales) + 1}} :
           scan' = [scan EXCEPT !.todo = IF scan.on THEN @ \cup seen ELSE @]
    /\ UNCHANGED << zone, now, category, reports, moves >>

\* An offline sale is stored with the time the terminal sold it at, and is
\* late when an admin records it into a shift that is closed.
Upload(form, soldAt, late) ==
    /\ Len(sales) < MaxSales /\ soldAt <= now
    /\ sales' = Append(sales, [form |-> form, soldAt |-> soldAt,
                               offline |-> TRUE, late |-> late,
                               reversal |-> NotReversed])
    /\ \E seen \in {{}, {Len(sales) + 1}} :
           scan' = [scan EXCEPT !.todo = IF scan.on THEN @ \cup seen ELSE @,
                                !.uploaded = @ \/ scan.on]
    /\ UNCHANGED << zone, now, category, reports, moves >>

ReverseSale(i, kind) ==
    /\ sales[i].reversal = NotReversed
    /\ sales' = [sales EXCEPT ![i].reversal = [kind |-> kind, at |-> now]]
    /\ UNCHANGED << zone, now, category, scan, reports, moves >>

Recategorise(p, c) ==
    /\ moves < MaxMoves /\ category[p] # c
    /\ category' = [category EXCEPT ![p] = c]
    /\ moves' = moves + 1
    /\ UNCHANGED << zone, now, sales, scan, reports >>

Tick ==
    /\ \E t \in Clock : t > now
    /\ now' = Min({t \in Clock : t > now})
    /\ UNCHANGED << zone, sales, category, scan, reports, moves >>

(* ------------------------------ the cursor ----------------------------- *)

\* What the pipeline matches: sales that occurred or were reversed in range.
Matches(sale, from, to) ==
    \/ Within(sale.soldAt, from, to)
    \/ sale.reversal # NotReversed
           /\ Within(sale.reversal.at, from, to)

Begin(from, to) ==
    /\ ~scan.on /\ reports < MaxReports
    /\ scan' = [on |-> TRUE, from |-> from, to |-> to, todo |-> DOMAIN sales,
                got |-> {}, uploaded |-> FALSE, began |-> now]
    /\ reports' = reports + 1
    /\ UNCHANGED << zone, now, sales, category, moves >>

\* A sale as the cursor returns it: its lines carry the categories of now.
Row(i) ==
    [id |-> i, sale |-> sales[i],
     category |-> [j \in DOMAIN sales[i].form.lines |->
                       category[sales[i].form.lines[j].product]]]

ReadNext(i) ==
    /\ scan.on /\ i \in scan.todo
    /\ scan' = [scan EXCEPT !.todo = @ \ {i},
                    !.got = IF Matches(sales[i], scan.from, scan.to)
                            THEN @ \cup {Row(i)} ELSE @]
    /\ UNCHANGED << zone, now, sales, category, reports, moves >>

\* The cursor is at its end: the report is answered.
Done == scan.on /\ scan.todo = {}

Answer ==
    /\ Done
    /\ scan' = NoScan
    /\ UNCHANGED << zone, now, sales, category, reports, moves >>

Init ==
    /\ zone \in Zones
    /\ now = Min(Clock)
    /\ sales = << >>
    /\ category \in [ProductsSold -> Categories]
    /\ scan = NoScan
    /\ reports = 0 /\ moves = 0

Next ==
    \/ \E form \in SaleForms :
           \/ Ring(form)
           \/ \E t \in Clock, late \in Lates : Upload(form, t, late)
    \/ \E i \in DOMAIN sales, kind \in Kinds :
           ReverseSale(i, kind)
    \/ \E p \in ProductsSold, c \in Categories : Recategorise(p, c)
    \/ Tick
    \/ \E from \in Days, to \in Days : from <= to /\ Begin(from, to)
    \/ \E i \in DOMAIN sales : ReadNext(i)
    \/ Answer

Spec == Init /\ [][Next]_vars

(* ------------------------------ the report ----------------------------- *)

\* A discount spread over the lines in whole centavos: each line's share
\* rounded down, and one more for the largest remainders, the earlier line
\* first, until nothing is left over.
AllocateDiscount(gross, discount) ==
    LET total == SumSeq(gross)
        floor(i) == (gross[i] * discount) \div total
        remainder(i) == (gross[i] * discount) % total
        left == discount - MapThenSumSet(floor, DOMAIN gross)
        ahead(i) == {j \in DOMAIN gross :
                        \/ remainder(j) > remainder(i)
                        \/ remainder(j) = remainder(i) /\ j < i}
    IN  [i \in DOMAIN gross |->
            IF total = 0 THEN 0
            ELSE floor(i) + (IF Cardinality(ahead(i)) < left THEN 1 ELSE 0)]

\* The shares of every kind of sale.
ShareOf ==
    [f \in SaleForms |-> AllocateDiscount(Gross(f.lines), f.discount)]

At(row, kind) ==
    IF kind = "SALE" THEN row.sale.soldAt ELSE row.sale.reversal.at

\* The events of the sales read: every sale in range at its occurrence, every
\* reversal in range at the time it happened; one entry for each line.
Entries(got, from, to) ==
    LET kinds(sale) ==
            (IF Within(sale.soldAt, from, to)
             THEN {"SALE"} ELSE {})
            \cup (IF /\ sale.reversal # NotReversed
                     /\ Within(sale.reversal.at, from, to)
                  THEN {sale.reversal.kind} ELSE {})
        linesOf(row) ==
            LET share == ShareOf[row.sale.form]
            IN  {[row |-> row, kind |-> kind, line |-> j,
                  gross |-> LineGross(row.sale.form.lines[j]),
                  net |-> LineGross(row.sale.form.lines[j]) - share[j]] :
                    kind \in kinds(row.sale), j \in DOMAIN row.sale.form.lines}
    IN  UNION {linesOf(row) : row \in got}

EntryGross(e) == e.gross
EntryNet(e) == e.net
Signed(e) == IF e.kind = "SALE" THEN EntryNet(e) ELSE -EntryNet(e)
EntryCost(e) == e.row.sale.form.lines[e.line].cost

EntryCogs(e) ==
    LET line == e.row.sale.form.lines[e.line]
        cogs == QuantityAmount(line.cost, line.quantity, line.unit)
    IN  IF e.kind = "SALE" THEN cogs ELSE -cogs

\* The figures of a set of entries: a row of the report, or its totals.
Metrics(entries) ==
    LET of(kind) == {e \in entries : e.kind = kind}
        known == {e \in entries : EntryCost(e) # NoCost}
        net(kind) == MapThenSumSet(EntryNet, of(kind))
        events(test(_)) ==
            {<< e.row.id, e.kind >> : e \in {f \in entries : test(f)}}
    IN  [transactions |-> Cardinality(events(LAMBDA e : e.kind = "SALE")),
         reversals |-> Cardinality(events(LAMBDA e : e.kind # "SALE")),
         gross |-> MapThenSumSet(EntryGross, of("SALE")),
         discounts |-> MapThenSumSet(EntryGross, of("SALE")) - net("SALE"),
         voids |-> net("VOID"),
         refunds |-> net("REFUND"),
         net |-> MapThenSumSet(Signed, entries),
         knownNet |-> MapThenSumSet(Signed, known),
         knownCogs |-> MapThenSumSet(EntryCogs, known),
         unknownLines |-> Cardinality(entries \ known)]

Key(e, group) ==
    CASE group = "DAY" -> DateInZone(At(e.row, e.kind), zone)
      [] group = "PRODUCT" -> e.row.sale.form.lines[e.line].product
      [] group = "CATEGORY" -> e.row.category[e.line]
      [] group = "PAYMENT_TYPE" -> e.row.sale.form.payment
      [] group = "CASHIER" -> e.row.sale.form.cashier

Keys(entries, group) == {Key(e, group) : e \in entries}
RowOf(entries, group, key) ==
    Metrics({e \in entries : Key(e, group) = key})

\* The figures that tie the report to the drawer and the late uploads.
Reconciliation(entries, from, to) ==
    LET sold == {e \in entries : e.kind = "SALE"}
        reversed == entries \ sold
        prior == {e \in reversed :
                     ~Within(e.row.sale.soldAt, from, to)}
    IN  [chargedSales |-> MapThenSumSet(EntryNet, sold),
         reversalAmount |-> MapThenSumSet(EntryNet, reversed),
         lateNet |-> MapThenSumSet(EntryNet,
                                   {e \in sold : e.row.sale.late}),
         priorReversals |-> Cardinality({e.row.id : e \in prior}),
         priorAmount |-> MapThenSumSet(EntryNet, prior)]

\* A report read all at once, as the entries it adds up.
Direct(from, to) ==
    Entries({Row(i) : i \in {k \in DOMAIN sales :
                                Matches(sales[k], from, to)}}, from, to)

\* The dashboard's revenue and count of a day: what occurred on it and has
\* not been reversed since.
Counted(date) ==
    {i \in DOMAIN sales :
        /\ Within(sales[i].soldAt, date, date)
        /\ sales[i].reversal = NotReversed}
TodayRevenue ==
    MapThenSumSet(LAMBDA i : Charged(sales[i]), Counted(DateInZone(now, zone)))

(* ------------------------------ properties ----------------------------- *)

TypeOK ==
    /\ zone \in Zones
    /\ now \in Clock
    /\ \A i \in DOMAIN sales :
           /\ sales[i].soldAt \in Clock /\ sales[i].late \in BOOLEAN
           /\ sales[i].reversal.kind \in {"NONE", "VOID", "REFUND"}
           /\ sales[i].reversal # NotReversed =>
                  sales[i].reversal.at >= sales[i].soldAt
    /\ category \in [ProductsSold -> Categories]
    /\ scan.todo \subseteq DOMAIN sales
    /\ \A r, q \in scan.got : r.id = q.id => r = q

Groups == {"DAY", "PRODUCT", "CATEGORY", "PAYMENT_TYPE", "CASHIER"}
Answered == Entries(scan.got, scan.from, scan.to)

\* However the report is grouped, and whatever was rung up, reversed or moved
\* to another category while it was read, its rows add up to its totals; a
\* day's row is a day of the range.
RowsAddUp ==
    Done => \A entries \in {Answered}, group \in Groups :
        LET keys == Keys(entries, group)
            rows == {<< k, RowOf(entries, group, k) >> : k \in keys}
            totals == Metrics(entries)
            sum(field) == MapThenSumSet(LAMBDA r : r[2][field], rows)
        IN  /\ \A field \in {"gross", "discounts", "voids", "refunds", "net",
                              "knownNet", "knownCogs"} :
                   sum(field) = totals[field]
            /\ group \in {"DAY", "CASHIER", "PAYMENT_TYPE"} =>
                   /\ sum("transactions") = totals.transactions
                   /\ sum("reversals") = totals.reversals
            /\ group = "DAY" => keys \subseteq scan.from..scan.to

\* "Gross sales less discounts equals original charged sales. Net sales then
\* subtracts reversal events": the charges are the amounts stored on the
\* sales, although the figures are added up line by line.
Reconciles ==
    Done => \A entries \in {Answered} :
        LET total == Metrics(entries)
            r == Reconciliation(entries, scan.from, scan.to)
            charged == MapThenSumSet(
                LAMBDA row : Charged(row.sale),
                {row \in scan.got :
                    Within(row.sale.soldAt, scan.from, scan.to)})
        IN  /\ total.gross - total.discounts = r.chargedSales
            /\ r.chargedSales = charged
            /\ total.net = r.chargedSales - r.reversalAmount
            /\ r.reversalAmount = total.voids + total.refunds
            /\ r.priorAmount <= r.reversalAmount /\ r.lateNet <= charged

\* A sale's discount is spread completely, no line gets more than its own
\* gross, and no share is a centavo or more from its exact proportion.
AllocationFair ==
    \A i \in DOMAIN sales :
        LET gross == Gross(sales[i].form.lines)
            total == SumSeq(gross)
            share == ShareOf[sales[i].form]
        IN  /\ SumSeq(share) = sales[i].form.discount
            /\ \A j \in DOMAIN gross :
                   /\ share[j] \in 0..gross[j]
                   /\ share[j] * total - gross[j] * sales[i].form.discount
                          \in (1 - total)..(total - 1)

\* The days of the zone follow one another without a gap or an overlap: each
\* starts at its first instant, also when midnight is skipped or repeated.
DaysPartition ==
    /\ \A date \in Days :
           LET start == StartOfDay(date, zone)
           IN  /\ DateInZone(start, zone) = date
               /\ DateInZone(start - 1, zone) < date
    /\ Cardinality({date \in Days : Within(now, date, date)}) = 1

\* The reports of all the days together are the sales that stand: a sale and
\* its reversal are each counted on exactly one day.
DaysAddUp ==
    MapThenSumSet(LAMBDA d : Metrics(Direct(d, d)).net, Days)
        = MapThenSumSet(LAMBDA i : Charged(sales[i]),
                        {i \in DOMAIN sales : sales[i].reversal = NotReversed})

\* The dashboard and the report of today agree: today's revenue leaves out
\* the reversed sales, where the report subtracts the day's reversals.
DashboardAgrees ==
    LET today == DateInZone(now, zone)
        entries == Direct(today, today)
    IN  TodayRevenue = Metrics(entries).net
                       + Reconciliation(entries, today, today).priorAmount

\* The report of a day, as a set of one.
FiguresOf(date) == {Metrics(entries) : entries \in {Direct(date, date)}}

\* A day that is over stays as it was reported: only a sale uploaded from
\* an offline terminal still changes it, never a reversal, which counts on
\* its own day.
PastOnlyOffline ==
    \A d \in Days :
      d < DateInZone(now, zone)
      /\ FiguresOf(d)' # FiguresOf(d)
      => Len(sales') > Len(sales) /\ sales'[Len(sales')].offline

\* A report of days that are over comes out the same whenever its sales are
\* read, unless an offline sale arrives meanwhile.
ScanOfThePast ==
    Done /\ ~scan.uploaded /\ scan.to < DateInZone(scan.began, zone) =>
        \A read \in {Answered}, direct \in {Direct(scan.from, scan.to)} :
            Metrics(read) = Metrics(direct)
=============================================================================
