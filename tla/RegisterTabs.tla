---------------------------- MODULE RegisterTabs ----------------------------
(***************************************************************************)
(* The baskets of a browser's cashiers: each tab works on a copy, saves    *)
(* every change to localStorage, and hears of the other tabs' writes       *)
(* later, in order.  Tickets are parked and resumed, sales are under way   *)
(* while cashiers log in and out, and writes may fail.                     *)
(*                                                                         *)
(* A ticket is rung up once and edited (its revision); which lines it has, *)
(* and the keys of its checkout attempts, are module Checkout's subject.   *)
(***************************************************************************)
EXTENDS Naturals, Sequences, FiniteSets

CONSTANTS
    Tab, Cashier, Ticket, Null,
    MaxWrites,   \* bound on the writes to localStorage
    MaxParked,   \* PARKED_TICKETS_MAX
    MaySwitch,   \* cashiers log in and out
    MayFail      \* writes may fail (the quota)

RegisterTabsAssumption ==
    /\ Null \notin Tab \cup Cashier \cup Ticket
    /\ MaxWrites \in Nat /\ MaxParked \in Nat
    /\ {MaySwitch, MayFail} \subseteq BOOLEAN

VARIABLES
    storage,  \* the saved basket of each cashier
    user,     \* the cached user in localStorage
    tab,      \* the tabs
    events,   \* storage events each tab has not handled yet
    writes,
    by,       \* who rang each ticket up (Null: not yet)
    put       \* tickets parked and neither resumed nor discarded since

vars == << storage, user, tab, events, writes, by, put >>

\* A saved basket; the empty one is not stored.
Empty == [ticket |-> Null, rev |-> 0, attempt |-> FALSE, parked |-> {}]
Blank == [owner |-> Null, ticket |-> Null, rev |-> 0, attempt |-> FALSE, parked |-> {},
          snap |-> Empty, locked |-> FALSE, selling |-> Null, resuming |-> Null]
BasketOf(r) == [ticket |-> r.ticket, rev |-> r.rev, attempt |-> r.attempt, parked |-> r.parked]
Load(r, b) == [r EXCEPT !.ticket = b.ticket, !.rev = b.rev, !.attempt = b.attempt,
                        !.parked = b.parked]

Init ==
    /\ storage = [u \in Cashier |-> Empty]
    /\ \E u \in Cashier :
         /\ user = u
         /\ tab = [t \in Tab |-> [Blank EXCEPT !.owner = u]]
    /\ events = [t \in Tab |-> << >>]
    /\ writes = 0
    /\ by = [x \in Ticket |-> Null] /\ put = {}

\* The state has its shape; only a tab of a cashier has a ticket or a lock.
Basket == [ticket : Ticket \cup {Null}, rev : 0..1, attempt : BOOLEAN,
           parked : SUBSET Ticket]
TypeOK ==
    /\ storage \in [Cashier -> Basket] /\ user \in Cashier \cup {Null}
    /\ \A t \in Tab :
         /\ BasketOf(tab[t]) \in Basket /\ tab[t].snap \in Basket
         /\ tab[t].selling \in Ticket \cup {Null} /\ tab[t].resuming \in Ticket \cup {Null}
         /\ tab[t].owner = Null => BasketOf(tab[t]) = Empty /\ ~tab[t].locked
         /\ Cardinality(tab[t].parked) <= MaxParked
    /\ by \in [Ticket -> Cashier \cup {Null}] /\ put \subseteq Ticket
    /\ writes \in 0..MaxWrites

-----------------------------------------------------------------------------
\* Saving

\* The other tabs hear of a write that changed the value.
Told(t, e, evs) == [s \in Tab |-> IF s = t THEN evs[s] ELSE Append(evs[s], e)]
Heard(u, b) == [kind |-> "basket", of |-> u, value |-> b]
Signed(u) == [kind |-> "user", of |-> u, value |-> Empty]

\* Mutant form: parked tickets are taken from memory.
OwnParked(r) == r.parked

\* reconcileParked: another tab's parked tickets are taken over before a write.
LatestParked(r) == IF storage[r.owner] # r.snap THEN storage[r.owner].parked ELSE r.parked

\* persist: tab t goes on as r and saves its basket.
Persist(t, r) ==
    LET q == [r EXCEPT !.parked = LatestParked(r)]
        b == BasketOf(q)
    IN IF b = BasketOf(tab[t])
       THEN tab' = [tab EXCEPT ![t] = r] /\ UNCHANGED << storage, events, writes >>
       ELSE \/ /\ writes < MaxWrites /\ writes' = writes + 1
               /\ storage' = [storage EXCEPT ![r.owner] = b]
               /\ tab' = [tab EXCEPT ![t] = [q EXCEPT !.snap = b]]
               /\ events' = (IF b = storage[r.owner] THEN events
                             ELSE Told(t, Heard(r.owner, b), events))
            \/ /\ MayFail
               /\ tab' = [tab EXCEPT ![t] = q]
               /\ UNCHANGED << storage, events, writes >>

\* commitDrafts: the whole move is saved first, or nothing happens.
Commit(t, r) ==
    /\ writes < MaxWrites /\ writes' = writes + 1
    /\ storage' = [storage EXCEPT ![r.owner] = BasketOf(r)]
    /\ tab' = [tab EXCEPT ![t] = [r EXCEPT !.snap = BasketOf(r)]]
    /\ events' = Told(t, Heard(r.owner, BasketOf(r)), events)

Stale(t) == storage[tab[t].owner] # tab[t].snap

\* assertCurrent: a newer basket is taken over instead, and the user told.  The
\* dialogs that move tickets are not open while a sale is under way.
TakeOver(t) ==
    /\ tab[t].owner # Null /\ ~tab[t].locked /\ Stale(t)
    /\ LET b == storage[tab[t].owner] IN
       tab' = [tab EXCEPT ![t] = [Load(tab[t], b) EXCEPT !.snap = b]]
    /\ UNCHANGED << storage, user, events, writes, by, put >>

Current(t) == tab[t].owner # Null /\ ~Stale(t) /\ ~tab[t].locked

-----------------------------------------------------------------------------
\* The ticket

Free(t) == tab[t].owner # Null /\ ~tab[t].locked

Scan(t, x) ==
    /\ Free(t) /\ tab[t].ticket = Null
    /\ by[x] = Null
    /\ by' = [by EXCEPT ![x] = tab[t].owner]
    /\ Persist(t, [tab[t] EXCEPT !.ticket = x, !.rev = 0])
    /\ UNCHANGED << user, put >>

Edit(t) ==
    /\ Free(t) /\ tab[t].ticket # Null
    /\ Persist(t, [tab[t] EXCEPT !.rev = 1 - @])
    /\ UNCHANGED << user, by, put >>

Void(t) ==
    /\ Free(t) /\ tab[t].ticket # Null
    /\ Persist(t, [tab[t] EXCEPT !.ticket = Null, !.rev = 0, !.attempt = FALSE])
    /\ UNCHANGED << user, by, put >>

\* submit: the attempt is saved, the ticket locked, the sale posted.
Submit(t) ==
    /\ Free(t) /\ tab[t].ticket # Null /\ tab[t].selling = Null
    /\ Persist(t, [tab[t] EXCEPT !.attempt = TRUE, !.locked = TRUE, !.selling = tab[t].ticket])
    /\ UNCHANGED << user, by, put >>

\* Recorded: the lock is released, the attempt settled and the ticket cleared,
\* on whatever the tab holds by then.
Sold(t) ==
    /\ tab[t].selling # Null
    /\ LET r == [tab[t] EXCEPT !.locked = FALSE, !.selling = Null,
                               !.ticket = Null, !.rev = 0, !.attempt = FALSE]
       IN IF tab[t].owner = Null
          THEN tab' = [tab EXCEPT ![t] = r] /\ UNCHANGED << storage, events, writes >>
          ELSE Persist(t, r)
    /\ UNCHANGED << user, by, put >>

NotSold(t) ==
    /\ tab[t].selling # Null
    /\ tab' = [tab EXCEPT ![t].locked = FALSE, ![t].selling = Null]
    /\ UNCHANGED << storage, user, events, writes, by, put >>

-----------------------------------------------------------------------------
\* Parked tickets

Unsettled(t) == tab[t].attempt

Park(t) ==
    LET x == tab[t].ticket IN
    /\ Current(t) /\ ~Unsettled(t) /\ x # Null
    /\ Cardinality(tab[t].parked) < MaxParked
    /\ Commit(t, [tab[t] EXCEPT !.ticket = Null, !.rev = 0, !.attempt = FALSE,
                                !.parked = @ \cup {x}])
    /\ put' = put \cup {x}
    /\ UNCHANGED << user, by >>

Discard(t, x) ==
    /\ Current(t) /\ ~Unsettled(t) /\ x \in tab[t].parked
    /\ Commit(t, [tab[t] EXCEPT !.attempt = FALSE, !.parked = @ \ {x}])
    /\ put' = put \ {x}
    /\ UNCHANGED << user, by >>

\* Resuming reads the ticket's products again, and then looks whether the
\* ticket and the cashier are still there.
StartResume(t, x) ==
    /\ Free(t) /\ tab[t].ticket = Null /\ tab[t].resuming = Null /\ x \in tab[t].parked
    /\ tab' = [tab EXCEPT ![t].resuming = x]
    /\ UNCHANGED << storage, user, events, writes, by, put >>

Resume(t) ==
    LET x == tab[t].resuming IN
    /\ x # Null /\ Current(t)
    /\ ~Unsettled(t) /\ tab[t].ticket = Null /\ x \in tab[t].parked
    /\ Commit(t, [tab[t] EXCEPT !.ticket = x, !.rev = 0, !.attempt = FALSE,
                                !.parked = @ \ {x}, !.resuming = Null])
    /\ put' = put \ {x}
    /\ UNCHANGED << user, by >>

ResumeRefused(t) ==
    /\ tab[t].resuming # Null
    /\ tab' = [tab EXCEPT ![t].resuming = Null]
    /\ UNCHANGED << storage, user, events, writes, by, put >>

\* The shift is closed and its parked tickets discarded (carrying them over
\* only rewrites their shift).
FinishDiscard(t) ==
    /\ Current(t) /\ ~Unsettled(t) /\ tab[t].parked # {}
    /\ Commit(t, [tab[t] EXCEPT !.attempt = FALSE, !.parked = {}])
    /\ put' = put \ tab[t].parked
    /\ UNCHANGED << user, by >>

-----------------------------------------------------------------------------
\* Cashiers and tabs

\* setOwner: the tab starts from what its new cashier saved.  A sale under
\* way goes on; a resume finds another owner.
Owned(r, u) ==
    LET b == IF u = Null THEN Empty ELSE storage[u]
    IN [Load(r, b) EXCEPT !.owner = u, !.locked = FALSE, !.snap = b, !.resuming = Null]

Login(t, u) ==
    /\ MaySwitch /\ tab[t].owner = Null
    /\ writes < MaxWrites /\ writes' = writes + 1
    /\ user' = u
    /\ tab' = [tab EXCEPT ![t] = Owned(tab[t], u)]
    /\ events' = (IF user = u THEN events ELSE Told(t, Signed(u), events))
    /\ UNCHANGED << storage, by, put >>

\* reset: the ticket goes, the parked ones stay saved.
Logout(t) ==
    /\ MaySwitch /\ tab[t].owner # Null
    /\ writes < MaxWrites /\ writes' = writes + 1
    /\ LET u == tab[t].owner
           b == [Empty EXCEPT !.parked = LatestParked(tab[t])]
           told == IF user = Null THEN events ELSE Told(t, Signed(Null), events)
       IN \/ /\ storage' = [storage EXCEPT ![u] = b]
             /\ events' = (IF b = storage[u] THEN told ELSE Told(t, Heard(u, b), told))
          \/ MayFail /\ events' = told /\ UNCHANGED storage
    /\ user' = Null
    /\ tab' = [tab EXCEPT ![t] = [Blank EXCEPT !.selling = tab[t].selling]]
    /\ UNCHANGED << by, put >>

Busy(t) == tab[t].locked

\* onStorage
Hear(t) ==
    /\ events[t] # << >>
    /\ LET e == Head(events[t]) IN
       tab' = [tab EXCEPT ![t] =
           IF e.kind = "user" THEN IF e.of = @.owner THEN @ ELSE Owned(@, e.of)
           ELSE IF e.of # @.owner \/ Busy(t) THEN @
           ELSE [Load(@, e.value) EXCEPT !.snap = e.value]]
    /\ events' = [events EXCEPT ![t] = Tail(@)]
    /\ UNCHANGED << storage, user, writes, by, put >>

Next == \E t \in Tab :
    \/ TakeOver(t) \/ Edit(t) \/ Void(t) \/ Submit(t) \/ Sold(t) \/ NotSold(t)
    \/ Park(t) \/ Resume(t) \/ ResumeRefused(t) \/ FinishDiscard(t) \/ Logout(t) \/ Hear(t)
    \/ \E x \in Ticket : Scan(t, x) \/ Discard(t, x) \/ StartResume(t, x)
    \/ \E u \in Cashier : Login(t, u)

Spec == Init /\ [][Next]_vars

-----------------------------------------------------------------------------
\* No write of any tab loses a parked ticket: it is saved until it is resumed
\* or discarded, and then it is not there any more.
ParkedKept == UNION {storage[u].parked : u \in Cashier} = put

\* A cashier's saved basket holds tickets that this cashier rang up.
OwnTickets ==
    \A u \in Cashier : \A x \in Ticket :
        x = storage[u].ticket \/ x \in storage[u].parked => by[x] = u

\* Moving parked tickets never forgets a checkout whose outcome is unknown.
AttemptOutlivesParking ==
    put' # put => \A u \in Cashier : storage'[u].attempt = storage[u].attempt

\* The ticket that a sale clears is the one that was sold.
ClearsWhatItSold ==
    \A t \in Tab : tab[t].selling # Null /\ tab'[t].selling = Null
      => tab'[t].ticket = tab[t].ticket \/ tab[t].ticket = tab[t].selling

\* "A scan cannot be cleared unsold by the success path."
ScanNotClearedUnsold ==
    \A t \in Tab : tab[t].selling # Null /\ tab'[t].selling = Null
      /\ tab[t].ticket \notin {Null, tab[t].selling} => tab'[t].ticket = tab[t].ticket
=============================================================================
