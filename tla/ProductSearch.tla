--------------------------- MODULE ProductSearch ---------------------------
(***************************************************************************)
(* The product search box of the restock and adjustment dialogs: typing    *)
(* starts a debounced request, answers come in any order, and an option is *)
(* picked with the mouse or with Enter.                                    *)
(*                                                                         *)
(* A request's number is kept only as far as the code compares it: a       *)
(* search is live while no later search or reset has superseded it.        *)
(***************************************************************************)
EXTENDS Integers, FiniteSets

CONSTANTS
    Product,
    Term,        \* what can be typed in the box
    Found,       \* Found[t]: the products a search for t answers
    Blank, Null,
    MaxSearches  \* bound on the searches

SearchAssumption ==
    /\ Found \in [Term -> SUBSET Product]
    /\ Blank \notin Term \cup Product /\ Null \notin Term \cup Product \cup {Blank}
    /\ MaxSearches \in Nat

VARIABLES
    text,        \* the box: typed text, or the barcode of what was picked
    shown,       \* the query whose matches are listed, or Null for none
    listed,      \* the list under the box is open
    awaiting,    \* a key was pressed and no new options have come yet
    loading,     \* the spinner
    timer,       \* the query the debounce waits to send, or Null
    searches,    \* requests under way
    \* History
    latest,      \* the newest query sent, or Null
    sent,        \* searches sent
    entered      \* what the last Enter picked from: its text and its list

searchVars == << text, shown, listed, awaiting, loading, timer, searches >>
searchHistory == << latest, sent, entered >>
allSearch == << searchVars, searchHistory >>

Stale(calls) == {[c EXCEPT !.live = FALSE] : c \in calls}

SearchInit ==
    /\ text = Blank /\ shown = Null /\ listed = FALSE /\ awaiting = FALSE
    /\ loading = FALSE /\ timer = Null /\ searches = {}
    /\ latest = Null /\ sent = 0 /\ entered = Null

\* Forgets the matches and what is under way; new options end the wait.
Reset ==
    /\ timer' = Null /\ searches' = Stale(searches)
    /\ shown' = Null /\ loading' = FALSE /\ latest' = Null

\* The box leaves the page, and comes back closed.
Remounted == listed' = FALSE /\ awaiting' = FALSE

Type(t) ==
    /\ text' = t /\ listed' = TRUE
    /\ IF t = Blank
       THEN Reset /\ awaiting' = FALSE
       ELSE /\ timer' = t /\ awaiting' = TRUE
            /\ UNCHANGED << shown, loading, searches, latest >>
    /\ UNCHANGED << sent, entered >>

Search ==
    /\ timer # Null /\ sent < MaxSearches
    /\ searches' = Stale(searches) \cup {[n |-> sent + 1, query |-> timer, live |-> TRUE]}
    /\ sent' = sent + 1 /\ latest' = timer /\ timer' = Null /\ loading' = TRUE
    /\ UNCHANGED << text, shown, listed, awaiting, entered >>

\* A superseded request writes nothing.
AnswerSearch(c) ==
    /\ c \in searches /\ searches' = searches \ {c}
    /\ IF c.live
       THEN shown' = c.query /\ loading' = FALSE /\ awaiting' = FALSE
       ELSE UNCHANGED << shown, loading, awaiting >>
    /\ UNCHANGED << text, listed, timer, searchHistory >>

\* A live failure clears the list and stops the spinner.
FailSearch(c) ==
    /\ c \in searches /\ searches' = searches \ {c}
    /\ IF c.live
       THEN shown' = Null /\ loading' = FALSE /\ awaiting' = FALSE
       ELSE UNCHANGED << shown, loading, awaiting >>
    /\ UNCHANGED << text, listed, timer, searchHistory >>

\* The arrows reach every listed option, so Enter may pick any of them.
Choose(p, byEnter) ==
    /\ listed /\ shown # Null /\ p \in Found[shown]
    /\ byEnter => ~awaiting /\ ~loading
    /\ text' = p /\ listed' = FALSE
    /\ entered' = IF byEnter THEN [typed |-> text, from |-> shown] ELSE entered
    /\ UNCHANGED << shown, awaiting, loading, timer, searches, latest, sent >>

-----------------------------------------------------------------------------
\* The matches listed are those of the newest query, whatever order the
\* answers of an earlier and a later search come in.
MatchesLatest == shown = Null \/ shown = latest \/ loading

\* Enter never picks from the matches of a query that is no longer typed.
EnterPicksTyped == entered = Null \/ entered.typed = entered.from

\* The spinner always stops: the newest search is answered, superseded by
\* one that is, or forgotten.
SearchSettles == loading ~> ~loading
=============================================================================
