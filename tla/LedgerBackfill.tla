--------------------------- MODULE LedgerBackfill ---------------------------
(***************************************************************************)
(* The migration that gives every product a stock ledger: it claims a      *)
(* marker, and writes each product's history in a transaction of its own.  *)
(* Runs may die, be taken over, or meet a server that was not stopped.     *)
(***************************************************************************)
EXTENDS Integers, FiniteSets

CONSTANTS
    Run, Product, Null,
    Stock,       \* the stock and known history that products start with
    MaxSales,    \* bound on the sales
    MayOverlap,  \* a run is taken over without making sure that it is dead
    MayForget    \* the server is not always stopped first

LedgerBackfillAssumption ==
    /\ Null \notin Run \cup Product
    /\ Stock \subseteq Int /\ MaxSales \in Nat
    /\ {MayOverlap, MayForget} \subseteq BOOLEAN

VARIABLES
    stock,   \* inventories
    net,     \* what the product's receipts, adjustments and sales sum up to
    bad,     \* products whose history cannot be read as it is
    ledger,  \* stockmovements: openings, balance, rows of the new server
    marker,  \* the migration's marker
    done,    \* the products' markers (their fingerprints)
    run,     \* the processes
    api,     \* the server: of the old version, down, of the new one
    sales

vars == << stock, net, bad, ledger, marker, done, run, api, sales >>

NoLedger == [openings |-> 0, balance |-> 0, live |-> FALSE]
NoRun == [at |-> "start", prior |-> Null, left |-> {}, product |-> Null,
          stock |-> 0, net |-> 0, stale |-> FALSE]

Init ==
    /\ stock \in [Product -> Stock] /\ net \in [Product -> Stock]
    /\ bad \in SUBSET Product
    /\ ledger = [p \in Product |-> NoLedger]
    /\ marker = [status |-> "none", owner |-> Null]
    /\ done = [p \in Product |-> << >>]
    /\ run = [r \in Run |-> NoRun]
    /\ api = "old" /\ sales = 0

\* Records and processes keep their shape; a product has one opening row, and
\* rows that only the migration wrote come with the product's marker.
TypeOK ==
    /\ \A p \in Product : /\ ledger[p].openings \in 0..1
                          /\ ledger[p].openings = 1 /\ ~ledger[p].live => done[p] # << >>
    /\ marker.status \in {"none", "running", "incomplete", "complete"}
    /\ marker.owner \in Run \cup {Null}
    /\ \A r \in Run :
         /\ run[r].at \in {"start", "claim", "next", "history", "txn", "commit", "end", "dead"}
         /\ run[r].left \subseteq Product /\ run[r].product \in Product \cup {Null}
    /\ bad \subseteq Product /\ api \in {"old", "down", "new"} /\ sales \in 0..MaxSales

-----------------------------------------------------------------------------
\* The server

\* onModuleInit: the new server does not start in the middle of a migration.
Startable == marker.status \notin {"running", "incomplete"}

StartApi ==
    /\ api = "down" /\ Startable
    /\ api' = "new"
    /\ UNCHANGED << stock, net, bad, ledger, marker, done, run, sales >>

StopApi ==
    /\ api # "down" /\ api' = "down"
    /\ UNCHANGED << stock, net, bad, ledger, marker, done, run, sales >>

\* A commit to a product's inventory makes every open transaction on it retry.
Disturb(p, rs) ==
    [r \in Run |-> IF rs[r].at = "commit" /\ rs[r].product = p
                   THEN [rs[r] EXCEPT !.stale = TRUE] ELSE rs[r]]

\* A sale of the old server writes no ledger.
SellOld(p) ==
    /\ api = "old" /\ sales < MaxSales /\ sales' = sales + 1
    /\ stock' = [stock EXCEPT ![p] = @ - 1] /\ net' = [net EXCEPT ![p] = @ - 1]
    /\ run' = Disturb(p, run)
    /\ UNCHANGED << bad, ledger, marker, done, api >>

\* record: the first movement opens the ledger; one that does not reconcile
\* is refused.
SellNew(p) ==
    /\ api = "new" /\ sales < MaxSales /\ sales' = sales + 1
    /\ ledger[p].openings = 0 \/ ledger[p].balance = stock[p]
    /\ stock' = [stock EXCEPT ![p] = @ - 1] /\ net' = [net EXCEPT ![p] = @ - 1]
    /\ ledger' = [ledger EXCEPT ![p] = [openings |-> 1, balance |-> stock[p] - 1, live |-> TRUE]]
    /\ run' = Disturb(p, run)
    /\ UNCHANGED << bad, marker, done, api >>

\* The operator resolves a data problem by hand.
Resolve(p) ==
    /\ p \in bad /\ bad' = bad \ {p}
    /\ UNCHANGED << stock, net, ledger, marker, done, run, api, sales >>

-----------------------------------------------------------------------------
\* The migration

Alive(r) == run[r].at \notin {"start", "end", "dead"}

Begin(r) ==
    /\ run[r].at = "start" /\ (MayForget \/ api = "down")
    /\ marker.status = "running" => marker.owner # Null /\ (MayOverlap \/ ~Alive(marker.owner))
    /\ run' = [run EXCEPT ![r].at = "claim", ![r].prior = marker]
    /\ UNCHANGED << stock, net, bad, ledger, marker, done, api, sales >>

Unclaimed(r) == marker = run[r].prior

Claim(r) ==
    /\ run[r].at = "claim"
    /\ IF Unclaimed(r)
       THEN /\ marker' = [status |-> "running", owner |-> r]
            /\ run' = [run EXCEPT ![r].at = "next", ![r].left = Product]
       ELSE run' = [run EXCEPT ![r].at = "end"] /\ UNCHANGED marker
    /\ UNCHANGED << stock, net, bad, ledger, done, api, sales >>

\* An error ends the run; only its own marker says so.
Fail(r) ==
    /\ run' = [run EXCEPT ![r].at = "end"]
    /\ marker' = (IF marker.owner = r THEN [marker EXCEPT !.status = "incomplete"] ELSE marker)

Refuse(r, p) == Fail(r)

\* The product's stock, and whether the new server already opened its ledger.
Look(r) ==
    /\ run[r].at = "next"
    /\ \E p \in run[r].left :
         IF p \in bad \/ ledger[p].live
         THEN Refuse(r, p)
         ELSE /\ run' = [run EXCEPT ![r].at = "history", ![r].product = p,
                                    ![r].stock = stock[p], ![r].left = @ \ {p}]
              /\ UNCHANGED marker
    /\ UNCHANGED << stock, net, bad, ledger, done, api, sales >>

History(r) ==
    /\ run[r].at = "history"
    /\ run' = [run EXCEPT ![r].at = "txn", ![r].net = net[run[r].product]]
    /\ UNCHANGED << stock, net, bad, ledger, marker, done, api, sales >>

SameAsRead(r) ==
    stock[run[r].product] = run[r].stock /\ net[run[r].product] = run[r].net

Fingerprint(r) == << run[r].stock, run[r].net >>

\* What the transaction reads: a finished product is left alone if nothing
\* changed since; otherwise stock and history must be as read before it.
Transaction(r) ==
    LET p == run[r].product IN
    /\ run[r].at = "txn"
    /\ IF ledger[p].openings > 0
       THEN IF done[p] = Fingerprint(r) /\ ~ledger[p].live /\ ledger[p].balance = run[r].stock
            THEN run' = [run EXCEPT ![r].at = "next"] /\ UNCHANGED marker
            ELSE Fail(r)
       ELSE IF SameAsRead(r)
            THEN run' = [run EXCEPT ![r].at = "commit", ![r].stale = FALSE] /\ UNCHANGED marker
            ELSE Fail(r)
    /\ UNCHANGED << stock, net, bad, ledger, done, api, sales >>

\* The opening is what the known history leaves unexplained.
Opening(r) == run[r].stock - run[r].net

Commit(r) ==
    LET p == run[r].product IN
    /\ run[r].at = "commit"
    /\ IF run[r].stale
       THEN /\ run' = [run EXCEPT ![r].at = "txn"] /\ UNCHANGED << ledger, marker, done >>
       ELSE IF ledger[p].openings > 0
       THEN Fail(r) /\ UNCHANGED << ledger, done >>   \* sequence 0 is taken
       ELSE /\ ledger' = [ledger EXCEPT
                  ![p].openings = @ + 1, ![p].balance = Opening(r) + run[r].net]
            /\ done' = [done EXCEPT ![p] = Fingerprint(r)]
            /\ run' = Disturb(p, [run EXCEPT ![r].at = "next"])
            /\ UNCHANGED marker
    /\ UNCHANGED << stock, net, bad, api, sales >>

Finish(r) ==
    /\ run[r].at = "next" /\ run[r].left = {}
    /\ run' = [run EXCEPT ![r].at = "end"]
    /\ marker' = (IF marker.owner = r THEN [marker EXCEPT !.status = "complete"] ELSE marker)
    /\ UNCHANGED << stock, net, bad, ledger, done, api, sales >>

Die(r) ==
    /\ Alive(r)
    /\ run' = [run EXCEPT ![r] = [NoRun EXCEPT !.at = "dead"]]
    /\ UNCHANGED << stock, net, bad, ledger, marker, done, api, sales >>

Next ==
    \/ StartApi \/ StopApi
    \/ \E p \in Product : SellOld(p) \/ SellNew(p) \/ Resolve(p)
    \/ \E r \in Run : \/ Begin(r) \/ Claim(r) \/ Look(r) \/ History(r) \/ Transaction(r)
                      \/ Commit(r) \/ Finish(r) \/ Die(r)

Spec == Init /\ [][Next]_vars

-----------------------------------------------------------------------------
\* A product gets its ledger from the migration with the stock it has then,
\* and once only, even if runs overlap and sales go on.
BaselineTrue ==
    \A p \in Product : done'[p] # done[p] =>
      done[p] = << >> /\ ledger[p].openings = 0 /\ ledger'[p].balance = stock'[p]

\* A complete migration left no product without a ledger.
CompleteMeansAll ==
    marker.status = "complete" => \A p \in Product : ledger[p].openings = 1

\* If the server was stopped, ledger and stock agree.
LedgerReconciles ==
    \A p \in Product : ledger[p].openings = 1 => ledger[p].balance = stock[p]
=============================================================================
