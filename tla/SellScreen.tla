----------------------------- MODULE SellScreen -----------------------------
(***************************************************************************)
(* The register's screen: the scan box, the live search and the lookups it *)
(* starts, the ticket they add to, Undo, and the checkout that locks it.   *)
(*                                                                         *)
(* A handler runs to its first await.  What is under way on the network    *)
(* is the set of calls; their answers come in any order, or fail, after    *)
(* the cashier has typed on, parked, voided or sold.                       *)
(***************************************************************************)
EXTENDS Integers, FiniteSets, Sequences

CONSTANTS
    Product,
    Term,        \* what can be in the scan box
    Digits,      \* the terms of digits only ...
    Barcode,     \* ... and those as long as a barcode
    ByCode,      \* the product of a barcode, or NoProduct
    Matches,     \* Matches[t]: the products a search for t finds, in order
    Picks,       \* multipliers the cashier picks
    NoProduct, Nothing,
    MaxUnits,    \* what a ticket can hold of a product (TICKET_AMOUNT_MAX)
    MaxTickets,  \* bound on the tickets
    MaxAsked,    \* bound on the scans
    MaxSearches  \* bound on the searches

SellScreenAssumption ==
       /\ Barcode \subseteq Digits /\ Digits \subseteq Term
       /\ \A c \in Barcode : ByCode[c] \in Product \cup {NoProduct}
       /\ \A t \in Term : Matches[t] \in Seq(Product)
       /\ Picks \subseteq Nat \ {0, 1}
       /\ {MaxUnits, MaxTickets, MaxAsked, MaxSearches} \subseteq Nat

VARIABLES
    ticket,      \* units of each product on the ticket
    number,      \* which ticket it is: the identity of the cart's items
    undo,        \* the line Undo would put back, or Nothing
    typed,       \* quantities typed but not committed
    phase,       \* "ring", "checkout", "sent" (locked) or "receipt"
    text, picked, \* the scan box, and the multiplier
    timer,       \* the term the debounced search waits to look for
    seq, loading, answered, found, lit, \* the search: matches and highlight
    calls,       \* requests under way
    \* History
    latest,      \* the term of the newest search, or Nothing
    asked, rung, \* scans the cashier made, and those that were rung up
    pick, spent  \* the picks of a multiplier, and those already rung up

basket == << ticket, number, undo, typed >>
search == << seq, loading, answered, found, lit, latest >>
box == << text, picked, timer >>
history == << asked, rung, pick, spent >>
vars == << basket, phase, box, search, calls, history >>

locked == phase = "sent"
NoLine == [p \in Product |-> 0]

Init ==
    /\ ticket = NoLine /\ number = 1 /\ undo = Nothing /\ typed = {}
    /\ phase = "ring"
    /\ text = Nothing /\ picked = 1 /\ timer = Nothing
    /\ seq = 0 /\ loading = FALSE /\ answered = Nothing /\ found = << >> /\ lit = 0
    /\ latest = Nothing /\ calls = {}
    /\ asked = 0 /\ rung = 0 /\ pick = 0 /\ spent = {}

\* The state has its shape; nothing is highlighted that is not listed.
TypeOK ==
    /\ ticket \in [Product -> 0..MaxUnits] /\ number \in 1..MaxTickets
    /\ typed \subseteq Product
    /\ phase \in {"ring", "checkout", "sent", "receipt"}
    /\ text \in Term \cup {Nothing} /\ timer \in Term \cup {Nothing}
    /\ picked \in Picks \cup {1} /\ loading \in BOOLEAN
    /\ lit \in 0..Len(found)
    /\ \A c \in calls : c.kind \in {"lookup", "select", "search"}

-----------------------------------------------------------------------------
\* The search: only the latest may write its results

ResetSearch ==
    /\ seq' = seq + 1 /\ loading' = FALSE
    /\ answered' = Nothing /\ found' = << >> /\ lit' = 0 /\ latest' = Nothing

\* The results on screen answer the term in the box.
Settled(t) == ~loading /\ answered = t

\* A call remembers the scan that made it: for which ticket, how many, with
\* which pick of the multiplier, and the text then in the box.
Call(kind, what, qty, text0, for, no) ==
    [kind |-> kind, what |-> what, qty |-> qty, text |-> text0, basket |-> number,
     for |-> for, pick |-> no, seq |-> 0]
SearchFor(t, c) == [c EXCEPT !.kind = "search", !.what = t, !.seq = seq + 1]

\* The debounced search adds nothing: it is for nobody's scan.
Live(t) == Call("search", t, 0, t, 0, 0)

StartSearch(c, others) ==
    /\ seq < MaxSearches
    /\ seq' = seq + 1 /\ loading' = TRUE /\ latest' = c.what
    /\ calls' = others \cup {c}
    /\ UNCHANGED << answered, found, lit >>

AnyAnswer(c) == TRUE
Newest(c) == c.seq = seq

-----------------------------------------------------------------------------
\* Scanning

\* onSearchChange: what was highlighted for the old text is not any more.
Type(t) ==
    /\ phase = "ring" /\ t # text
    /\ text' = t
    /\ \/ /\ t = Nothing /\ timer' = Nothing
          /\ ResetSearch
       \/ /\ t # Nothing /\ timer' = t
          /\ lit' = 0 /\ UNCHANGED << seq, loading, answered, found, latest >>
    /\ seq < MaxSearches
    /\ UNCHANGED << basket, phase, picked, calls, history >>

\* A picked multiplier, or one typed before the term ("12*").
PickMultiplier(n) ==
    /\ phase = "ring" /\ picked' = n /\ n # picked
    /\ pick' = pick + 1 /\ pick < MaxAsked
    /\ UNCHANGED << basket, phase, text, timer, search, calls, asked, rung, spent >>

TimerFires ==
    /\ timer # Nothing /\ timer' = Nothing
    /\ StartSearch(SearchFor(timer, Live(timer)), calls)
    /\ UNCHANGED << basket, phase, text, picked, history >>

Highlight ==
    /\ phase = "ring" /\ text # Nothing
    /\ Settled(text) /\ found # << >>
    /\ lit' = (lit % Len(found)) + 1
    /\ UNCHANGED << basket, phase, box, seq, loading, answered, found, latest, calls, history >>

\* onScanSubmit up to its first request, with t in the box.
Submit(t) ==
    /\ t # Nothing /\ asked < MaxAsked /\ asked' = asked + 1
    /\ UNCHANGED << rung, pick, spent >>
    /\ LET scan(kind, what) == Call(kind, what, picked, t, number, pick) IN
       \/ /\ Settled(t) /\ lit # 0
          /\ calls' = calls \cup {scan("select", found[lit])}
          /\ UNCHANGED << search, timer >>
       \/ /\ ~(Settled(t) /\ lit # 0) /\ t \in Barcode
          /\ timer' = Nothing
          /\ calls' = calls \cup {scan("lookup", t)}
          /\ UNCHANGED search
       \/ /\ ~(Settled(t) /\ lit # 0) /\ t \notin Barcode
          /\ timer' = Nothing
          /\ StartSearch(SearchFor(t, scan("search", t)), calls)

Enter ==
    /\ phase = "ring" /\ Submit(text)
    /\ UNCHANGED << basket, phase, text, picked >>

\* A click on a match of the list, which may still be for older text.
Click(i) ==
    /\ phase = "ring" /\ text # Nothing /\ i \in DOMAIN found
    /\ asked < MaxAsked /\ asked' = asked + 1
    /\ calls' = calls \cup {Call("select", found[i], picked, text, number, pick)}
    /\ UNCHANGED << basket, phase, box, search, rung, pick, spent >>

\* resetQuery: the multiplier was for this scan only; text typed since stays.
ResetQuery(submitted) ==
    /\ picked' = 1
    /\ IF text = submitted
       THEN text' = Nothing /\ timer' = Nothing /\ ResetSearch
       ELSE UNCHANGED << text, timer, search >>

\* addProduct: not on a locked ticket, nor past its limit; Undo of the same
\* product is over.
DismissedBy(p) == undo # Nothing /\ undo.product = p
MayAdd(c, p) == ~locked /\ ticket[p] + c.qty <= MaxUnits
AddProduct(c, p) ==
    \/ /\ MayAdd(c, p)
       /\ ticket' = [ticket EXCEPT ![p] = @ + c.qty]
       /\ undo' = IF DismissedBy(p) THEN Nothing ELSE undo
       /\ ResetQuery(c.text)
       /\ rung' = rung + 1 /\ spent' = spent \cup {c.pick}
    \/ /\ ~MayAdd(c, p)
       /\ UNCHANGED << ticket, undo, box, search, rung, spent >>

Unheard == UNCHANGED << ticket, undo, box, search, rung, spent >>

\* The exact lookup of a barcode; a miss goes on to the search, unless the
\* text has changed.  Another ticket's answer is dropped.
FallsThrough(c) == ByCode[c.what] = NoProduct
Lookup(c) ==
    /\ c \in calls /\ c.kind = "lookup"
    /\ \/ /\ c.basket = number /\ ByCode[c.what] # NoProduct
          /\ AddProduct(c, ByCode[c.what])
          /\ calls' = calls \ {c}
       \/ /\ c.basket = number /\ FallsThrough(c) /\ text = c.what
          /\ StartSearch(SearchFor(c.what, c), calls \ {c})
          /\ UNCHANGED << ticket, undo, box, rung, spent >>
       \/ Unheard /\ calls' = calls \ {c}   \* another ticket's, retyped, or it failed
    /\ UNCHANGED << number, typed, phase, asked, pick >>

Select(c) ==
    /\ c \in calls /\ c.kind = "select"
    /\ calls' = calls \ {c}
    /\ \/ c.basket = number /\ AddProduct(c, c.what)
       \/ Unheard                      \* another ticket's, or it failed
    /\ UNCHANGED << number, typed, phase, asked, pick >>

\* A search answers, or fails and lists nothing.  The only match of a name is
\* added when Enter asked for it and the box still says so.
AddsOnly(c, list) ==
    /\ c.for # 0 /\ text = c.what /\ ~locked
    /\ Len(list) = 1 /\ c.what \notin Digits
Answer(c) ==
    /\ c \in calls /\ c.kind = "search"
    /\ \/ /\ Newest(c)
          /\ \E list \in {Matches[c.what], << >>} :
                /\ found' = list /\ answered' = c.what /\ lit' = 0 /\ loading' = FALSE
                /\ calls' = IF AddsOnly(c, list)
                            THEN (calls \ {c}) \cup
                                 {[c EXCEPT !.kind = "select", !.what = list[1],
                                            !.basket = number, !.seq = 0]}
                            ELSE calls \ {c}
          /\ UNCHANGED << seq, latest >>
       \/ ~Newest(c) /\ calls' = calls \ {c} /\ UNCHANGED search
    /\ UNCHANGED << basket, phase, box, history >>

-----------------------------------------------------------------------------
\* The ticket

\* A line removed at once, to be put back for a few seconds.
RemoveLine(p) ==
    /\ phase = "ring" /\ ticket[p] > 0
    /\ undo' = [product |-> p, quantity |-> ticket[p], of |-> number]
    /\ ticket' = [ticket EXCEPT ![p] = 0] /\ typed' = typed \ {p}
    /\ UNCHANGED << number, phase, box, search, calls, history >>

UndoRemove ==
    /\ phase = "ring" /\ undo # Nothing
    /\ undo' = Nothing
    /\ ticket' = IF ticket[undo.product] = 0
                 THEN [ticket EXCEPT ![undo.product] = undo.quantity] ELSE ticket
    /\ UNCHANGED << number, typed, phase, box, search, calls, history >>

UndoExpires ==
    /\ undo # Nothing /\ undo' = Nothing
    /\ UNCHANGED << ticket, number, typed, phase, box, search, calls, history >>

TypeQuantity(p) ==
    /\ phase = "ring" /\ ticket[p] > 0 /\ typed' = typed \cup {p}
    /\ UNCHANGED << ticket, number, undo, phase, box, search, calls, history >>

\* A new ticket takes the place of this one.
NewTicket ==
    /\ number < MaxTickets /\ number' = number + 1
    /\ ticket' = NoLine /\ typed' = {}

DropUndo == undo' = Nothing

VoidTicket ==
    /\ phase = "ring" /\ ticket # NoLine
    /\ NewTicket /\ DropUndo
    /\ UNCHANGED << phase, box, search, calls, history >>

\* resetTicketUi
ParkTicket ==
    /\ phase = "ring" /\ ticket # NoLine /\ typed = {}
    /\ NewTicket /\ DropUndo
    /\ text' = Nothing /\ picked' = 1 /\ timer' = Nothing
    /\ seq < MaxSearches /\ ResetSearch
    /\ UNCHANGED << phase, calls, history >>

\* openCheckout counts the quantities being typed first; a bad one holds it.
Committed(good) == typed' = typed \ good /\ typed' = {}
OpenCheckout ==
    /\ phase = "ring" /\ ticket # NoLine
    /\ \E good \in SUBSET typed : Committed(good)
    /\ phase' = "checkout"
    /\ UNCHANGED << ticket, number, undo, box, search, calls, history >>

CancelCheckout ==
    /\ phase = "checkout" /\ phase' = "ring"
    /\ UNCHANGED << basket, box, search, calls, history >>

\* The ticket is locked while it is sold, and nothing on it can be undone.
SubmitSale ==
    /\ phase = "checkout" /\ phase' = "sent" /\ DropUndo
    /\ UNCHANGED << ticket, number, typed, box, search, calls, history >>

SaleFails ==
    /\ phase = "sent" /\ phase' = "checkout"
    /\ UNCHANGED << basket, box, search, calls, history >>

SaleRecorded ==
    /\ phase = "sent" /\ phase' = "receipt"
    /\ NewTicket /\ DropUndo
    /\ UNCHANGED << box, search, calls, history >>

NewSale ==
    /\ phase = "receipt" /\ phase' = "ring"
    /\ UNCHANGED << basket, box, search, calls, history >>

\* A scan on the receipt starts the next sale and goes through the box.
ReceiptScan(t) ==
    /\ phase = "receipt" /\ phase' = "ring"
    /\ t \in Barcode /\ text' = t /\ Submit(t)
    /\ UNCHANGED << basket, picked >>

Next ==
    \/ \E t \in Term \cup {Nothing} : Type(t)
    \/ \E n \in Picks : PickMultiplier(n)
    \/ TimerFires \/ Highlight \/ Enter
    \/ \E i \in 1..2 : Click(i)
    \/ \E c \in calls : Lookup(c) \/ Select(c) \/ Answer(c)
    \/ \E p \in Product : RemoveLine(p) \/ TypeQuantity(p)
    \/ UndoRemove \/ UndoExpires \/ VoidTicket \/ ParkTicket
    \/ OpenCheckout \/ CancelCheckout \/ SubmitSale \/ SaleFails \/ SaleRecorded
    \/ NewSale \/ \E t \in Term : ReceiptScan(t)

Spec == Init /\ [][Next]_vars

-----------------------------------------------------------------------------
\* Properties

\* One scan rings up at most one item: however lookups, searches and double
\* Enters overlap (Sell.vue onScanSubmit).
ScannedOnce == rung <= asked

\* The list shown is the newest search's: a slow answer for "mi" never takes
\* the place of the results for "milk" (product-search.ts search).
NewestWins ==
    ~loading /\ latest # Nothing => answered = latest /\ found \in {Matches[latest], << >>}

\* Enter adds a highlighted match only from the list for what the box says,
\* however fast it was retyped (product-search.ts highlightedMatch).
PicksFromTheList ==
    \A c \in calls' \ calls : phase = "ring" /\ c.kind = "select" /\ Enter =>
        \E i \in DOMAIN Matches[text] : Matches[text][i] = c.what

\* A ticket being sold stays what the checkout tendered: no answer, Undo or
\* key changes it (cart.ts add, locked).
SoldAsTendered == locked /\ phase' # "receipt" => ticket' = ticket

\* Undo puts a line back only into the ticket it was removed from, and only
\* while the product was not rung up again (Sell.vue undo, dismissUndo).
UndoIsOfThisTicket ==
    undo # Nothing => undo.of = number /\ ticket[undo.product] = 0

\* A checkout never opens over a quantity that is still being typed (Sell.vue
\* openCheckout: "the checkout must tender the ticket as it will be sent").
NothingHalfTyped == phase \in {"checkout", "sent"} => typed = {}

\* A multiplier is for one scan (Sell.vue:200, "applies to the next scan
\* only").
MultiplierOnce ==
    \A c \in calls \ calls' : rung' > rung /\ c.qty > 1 => c.pick \notin spent

\* What is rung up was asked for on this ticket (Sell.spec.ts, "prevents a
\* slow barcode result from adding to a different ticket").
OwnTicket == \A c \in calls \ calls' : rung' > rung => c.for = number

=============================================================================
