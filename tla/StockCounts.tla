---------------------------- MODULE StockCounts ----------------------------
(***************************************************************************)
(* Stock counts: opened against the stock of the moment, filled in, saved, *)
(* submitted, approved by a manager and posted to stock as differences, on *)
(* pages that may be stale, over a network that loses answers, while goods *)
(* keep moving.  The server side is one MongoDB transaction per request    *)
(* (SnapshotTxn).                                                          *)
(*                                                                         *)
(* Units of a product that tracks expiry lie in lots, other units on the   *)
(* shelf.  A line of a count is about one such place.                      *)
(***************************************************************************)
EXTENDS Integers, FiniteSets, FiniteSetsExt, Functions, TLC

CONSTANTS
    Count, Product, Lot, User, Tab, Txn, Null,
    Shelf,        \* the place of units that are in no lot
    Blank,        \* a line that is not counted
    MaxQty,       \* bound on the units at one place
    MaxVersion    \* bound on the writes to one count

CountAssumption ==
    /\ MaxQty \in Nat /\ MaxVersion \in Nat
    /\ Shelf \notin Lot /\ Blank \notin 0..MaxQty
    /\ Null \notin Count \cup User \cup Txn

VARIABLES
    qty,        \* qty[p][x]: units of p at place x
    lots,       \* lots[p]: the lots of p that have rows
    tracked,    \* tracked[p]: p's units lie in lots
    moved,      \* moved[p][x]: what came and went, counts apart
    count,      \* stock-count documents
    page,       \* page[b]: what tab b shows, types and waits for
    req, snap, missed

INSTANCE SnapshotTxn

documents == << qty, lots, tracked, moved, count >>
vars == << documents, page, txnVars >>

\* What a request reads in its snapshot; a get reads when it answers.
Stock == [qty |-> qty, lots |-> lots, tracked |-> tracked]
Current(op) ==
    CASE op \in {"create", "approve"} -> [count |-> count] @@ Stock
      [] op = "get" -> << >>
      [] OTHER -> [count |-> count]

Place == Product \X (Lot \cup {Shelf})
Line == [expected : 0..MaxQty, counted : 0..MaxQty \cup {Blank}, tracked : BOOLEAN]
Status == {"NONE", "OPEN", "SUBMITTED", "APPROVED", "CANCELLED"}
NoCount == [status |-> "NONE", version |-> 0, lines |-> << >>]

\* A tab that shows the list, waits for nothing and has no approval at hand.
Empty(u) == [owner |-> u, shown |-> Null, entries |-> << >>, waiting |-> Null,
             submitting |-> FALSE, token |-> Null]

Init ==
    /\ qty = [p \in Product |-> [x \in Lot \cup {Shelf} |-> 0]] /\ moved = qty
    /\ lots = [p \in Product |-> {}]
    /\ tracked \in [Product -> BOOLEAN]
    /\ count = [c \in Count |-> NoCount]
    /\ page \in [Tab -> {Empty(u) : u \in User}]
    /\ TxnInit

-----------------------------------------------------------------------------
\* Goods move, by sales, deliveries, returns and adjustments (module Stock).
\* Of the requests of this module only an approval writes what they write.

Outside(writes) ==
    /\ missed' = [t \in Txn |-> IF req[t].op = "approve" THEN missed[t] \cup writes ELSE missed[t]]
    /\ UNCHANGED << count, page, req, snap >>

Move(p, x) ==
    /\ tracked[p] <=> x # Shelf
    /\ \E d \in {-1, 1} :
         /\ qty[p][x] + d \in 0..MaxQty
         /\ qty' = [qty EXCEPT ![p][x] = @ + d]
         /\ moved' = [moved EXCEPT ![p][x] = @ + d]
    /\ lots' = [lots EXCEPT ![p] = @ \cup ({x} \cap Lot)]
    /\ Outside({<< "product", p >>, << "inventory", p >>, << "batch", p, x >>})
    /\ UNCHANGED tracked

\* Expiry tracking is switched only while there are no units and no lots.
SwitchTracking(p) ==
    /\ lots[p] = {} /\ qty[p][Shelf] = 0
    /\ tracked' = [tracked EXCEPT ![p] = ~@]
    /\ Outside({<< "product", p >>})
    /\ UNCHANGED << qty, lots, moved >>

-----------------------------------------------------------------------------
\* The page

Shown(b) == IF page[b].shown = Null THEN NoCount ELSE page[b].shown.doc
Free(b) == page[b].waiting = Null /\ ~page[b].submitting /\ page[b].token = Null

Set(b, p) == page' = [page EXCEPT ![b] = p]

\* run: one request at a time.  It remembers the lines the page showed.
Ask(b, t, request) ==
    /\ Begin(t, request @@ [tab |-> b, by |-> page[b].owner, 
                         seen |-> IF request.op = "get" THEN << >> ELSE Shown(b).lines],
             Current(request.op))
    /\ page' = [page EXCEPT ![b].waiting = t]
    /\ UNCHANGED documents

\* accept: the page shows the answer and forgets what was typed.
EntriesOf(doc) == [x \in DOMAIN doc.lines |-> doc.lines[x].counted]
Accept(p, r, doc) ==
    [p EXCEPT !.shown = [id |-> r.count, doc |-> doc, by |-> r.by], !.entries = EntriesOf(doc)]

\* Another user logs in at this tab; what the page waited for is not its own.
SwitchUser(b) ==
    \E u \in User \ {page[b].owner} : Set(b, Empty(u)) /\ UNCHANGED << documents, req, snap, missed >>

Back(b) ==
    /\ Free(b) /\ page[b].shown # Null
    /\ Set(b, Empty(page[b].owner))
    /\ UNCHANGED << documents, req, snap, missed >>

Load(b, t) ==
    \E c \in Count : Free(b) /\ count[c].status # "NONE" /\ Ask(b, t, [op |-> "get", count |-> c])

Create(b, t) ==
    \E c \in Count, P \in SUBSET Product \ {{}} :
        /\ Free(b) /\ page[b].shown = Null /\ count[c].status = "NONE"
        /\ Ask(b, t, [op |-> "create", count |-> c, products |-> P])

Enter(b) ==
    /\ Free(b) /\ Shown(b).status = "OPEN"
    /\ \E x \in DOMAIN page[b].entries, q \in 0..MaxQty \cup {Blank} :
         Set(b, [page[b] EXCEPT !.entries[x] = q])
    /\ UNCHANGED << documents, req, snap, missed >>

\* The entries that differ; a saved quantity cannot be cleared.
PatchesOf(b) ==
    LET changed == {x \in DOMAIN page[b].entries :
                        page[b].entries[x] \notin {Blank, Shown(b).lines[x].counted}}
    IN  [x \in changed |-> page[b].entries[x]]
Clears(b) == \E x \in DOMAIN page[b].entries :
                page[b].entries[x] = Blank /\ Shown(b).lines[x].counted # Blank

Patch(b, t) ==
    Ask(b, t, [op |-> "save", count |-> page[b].shown.id, version |-> Shown(b).version,
               patches |-> PatchesOf(b)])

Save(b, t) ==
    /\ Free(b) /\ Shown(b).status = "OPEN" /\ ~Clears(b) /\ DOMAIN PatchesOf(b) # {}
    /\ Patch(b, t)

\* Submit saves first when something is unsaved, then submits what came back.
Submit(b) ==
    /\ Free(b) /\ Shown(b).status = "OPEN"
    /\ \A x \in DOMAIN page[b].entries : page[b].entries[x] # Blank
    /\ Set(b, [page[b] EXCEPT !.submitting = TRUE])
    /\ UNCHANGED << documents, req, snap, missed >>

SubmitNext(b, t) ==
    /\ page[b].submitting /\ page[b].waiting = Null
    /\ IF DOMAIN PatchesOf(b) # {} THEN Patch(b, t)
       ELSE Ask(b, t, [op |-> "submit", count |-> page[b].shown.id, version |-> Shown(b).version])

Cancel(b, t) ==
    /\ Free(b) /\ Shown(b).status \in {"OPEN", "SUBMITTED"}
    /\ Ask(b, t, [op |-> "cancel", count |-> page[b].shown.id, version |-> Shown(b).version])

\* A manager types a PIN over the count this page shows; the grant is of the
\* count as stored, if that is still the version shown.  The page sends it once
\* (Accounts says what else makes it void).
Approvable(doc, version) == doc.status = "SUBMITTED" /\ doc.version = version

ManagerApproves(b) ==
    LET c == page[b].shown.id
        g == [count |-> c, version |-> Shown(b).version, by |-> page[b].owner,
              lines |-> count[c].lines]
    IN  /\ Free(b) /\ Shown(b).status = "SUBMITTED" /\ Approvable(count[c], Shown(b).version)
        /\ Set(b, [page[b] EXCEPT !.token = g])
        /\ UNCHANGED << documents, req, snap, missed >>

PostApproval(b, t) ==
    /\ page[b].token # Null /\ page[b].waiting = Null
    /\ Ask(b, t, [op |-> "approve", count |-> page[b].shown.id, version |-> Shown(b).version,
                  token |-> page[b].token])

\* The answer is lost: an error, and the entries stay.
Unanswered(p) == [p EXCEPT !.waiting = Null, !.submitting = FALSE, !.token = Null]
GiveUp(b) ==
    /\ page[b].waiting # Null
    /\ Set(b, Unanswered(page[b]))
    /\ UNCHANGED << documents, req, snap, missed >>

-----------------------------------------------------------------------------
\* Answers.  Only the page that still waits for t takes it (live).

Live(b, t) == req[t].tab = b /\ page[b].waiting = t

Answer(t, doc) ==
    page' = [b \in Tab |->
        IF ~Live(b, t) THEN page[b]
        ELSE LET p == Accept(page[b], req[t], doc)
             IN  IF req[t].op = "save" THEN [p EXCEPT !.waiting = Null] ELSE Unanswered(p)]

Error(t) ==
    /\ Abort(t)
    /\ page' = [b \in Tab |-> IF Live(b, t) THEN Unanswered(page[b]) ELSE page[b]]
    /\ UNCHANGED documents

-----------------------------------------------------------------------------
\* The service

CommitGet(t) ==
    /\ req[t].op = "get"
    /\ Commit(t, {}) /\ Answer(t, count[req[t].count])
    /\ UNCHANGED documents

\* One line per lot of a tracked product, or one for the shelf; a tracked
\* product without lots has a line that can only be counted as zero.
PlacesOf(d, p) ==
    IF d.tracked[p] /\ d.lots[p] # {} THEN {p} \X d.lots[p] ELSE {<< p, Shelf >>}
LinesOf(d, P) ==
    [x \in UNION {PlacesOf(d, p) : p \in P} |->
        [expected |-> d.qty[x[1]][x[2]], counted |-> Blank, tracked |-> d.tracked[x[1]]]]

CommitCreate(t) ==
    LET r == req[t]
        doc == [NoCount EXCEPT !.status = "OPEN", !.lines = LinesOf(snap[t], r.products)]
    IN  /\ r.op = "create" /\ snap[t].count[r.count].status = "NONE"
        /\ Commit(t, {<< "user", r.by >>, << "count", r.count >>})
        /\ count' = [count EXCEPT ![r.count] = doc]
        /\ Answer(t, doc)
        /\ UNCHANGED << qty, lots, tracked, moved >>

\* The actor's account is locked, and the count is written if its version is
\* the one the page showed.
CountUnlocked(c) == {}
CountLock(c) == {<< "count", c >>}

NextVersion(v) == v + 1

Write(t, statuses, writes, doc) ==
    LET r == req[t]
        old == snap[t].count[r.count]
    IN  /\ old.status \in statuses /\ old.version = r.version /\ old.version < MaxVersion
        /\ Commit(t, CountLock(r.count) \cup {<< "user", r.by >>} \cup writes)
        /\ count' = [count EXCEPT ![r.count] = [doc EXCEPT !.version = NextVersion(@)]]

\* A count with these lines counted so.
Counted(doc, patches) ==
    [doc EXCEPT !.lines = [x \in DOMAIN @ |->
        IF x \in DOMAIN patches THEN [@[x] EXCEPT !.counted = patches[x]] ELSE @[x]]]

CommitSave(t) ==
    LET r == req[t] IN
    /\ r.op = "save"
    /\ Write(t, {"OPEN"}, {}, Counted(snap[t].count[r.count], r.patches))
    /\ Answer(t, count'[r.count])
    /\ UNCHANGED << qty, lots, tracked, moved >>

CommitTransition(t) ==
    LET r == req[t]
        doc == snap[t].count[r.count]
    IN  /\ \/ /\ r.op = "submit" /\ \A x \in DOMAIN doc.lines : doc.lines[x].counted # Blank
              /\ Write(t, {"OPEN"}, {}, [doc EXCEPT !.status = "SUBMITTED"])
           \/ /\ r.op = "cancel"
              /\ Write(t, {"OPEN", "SUBMITTED"}, {}, [doc EXCEPT !.status = "CANCELLED"])
        /\ Answer(t, count'[r.count])
        /\ UNCHANGED << qty, lots, tracked, moved >>

Variance(line) == line.counted - line.expected
Postable(d, x, line) ==
    /\ d.tracked[x[1]] = line.tracked
    /\ Variance(line) # 0 /\ line.tracked => x[2] # Shelf

\* No posting makes stock negative; the upper bound is the model's.
Enough(d, x, line) == d.qty[x[1]][x[2]] + Variance(line) \in 0..MaxQty

\* inventory.adjust locks the product, its inventory row and the batches.
PostLock(x) == {<< "product", x[1] >>, << "inventory", x[1] >>, << "batch", x[1], x[2] >>}

CommitApprove(t) ==
    LET r == req[t]
        d == snap[t]
        doc == d.count[r.count]
        differ == {x \in DOMAIN doc.lines : Variance(doc.lines[x]) # 0}
        change(p, y) == IF << p, y >> \in differ THEN Variance(doc.lines[<< p, y >>]) ELSE 0
    IN  /\ r.op = "approve" /\ r.token.by = r.by /\ r.token.count = r.count /\ r.token.lines = doc.lines
        /\ r.token.version = doc.version
        /\ \A x \in DOMAIN doc.lines : Postable(d, x, doc.lines[x])
        /\ \A x \in differ : Enough(d, x, doc.lines[x])
        /\ Write(t, {"SUBMITTED"}, {<< "grant", r.token >>} \cup UNION {PostLock(x) : x \in differ},
                 [doc EXCEPT !.status = "APPROVED"])
        /\ qty' = [p \in Product |-> [y \in Lot \cup {Shelf} |-> qty[p][y] + change(p, y)]]
        /\ Answer(t, count'[r.count])
        /\ UNCHANGED << lots, tracked, moved >>

\* Approving an approved count answers as the first approval did.
CommitApproved(t) ==
    LET r == req[t] IN
    /\ r.op = "approve" /\ snap[t].count[r.count].status = "APPROVED"
    /\ Commit(t, {<< "user", r.by >>}) /\ Answer(t, count[r.count])
    /\ UNCHANGED documents

Rerun(t) == Retry(t, Current(req[t].op)) /\ UNCHANGED << documents, page >>

TabStep(b) ==
    \/ SwitchUser(b) \/ Back(b) \/ Enter(b) \/ Submit(b) \/ ManagerApproves(b) \/ GiveUp(b)
    \/ \E t \in Txn : \/ Load(b, t) \/ Create(b, t) \/ Save(b, t) \/ SubmitNext(b, t)
                      \/ Cancel(b, t) \/ PostApproval(b, t)

Serve(t) ==
    \/ CommitGet(t) \/ CommitCreate(t) \/ CommitSave(t) \/ CommitTransition(t)
    \/ CommitApprove(t) \/ CommitApproved(t) \/ Rerun(t) \/ Error(t)

Next ==
    \/ \E b \in Tab : TabStep(b)
    \/ \E t \in Txn : Serve(t)
    \/ \E p \in Product : SwitchTracking(p) \/ \E x \in Lot \cup {Shelf} : Move(p, x)

Spec == Init /\ [][Next]_vars

-----------------------------------------------------------------------------
\* Properties

Approved == {c \in Count : count[c].status = "APPROVED"}

TypeOK ==
    /\ qty \in [Product -> [Lot \cup {Shelf} -> 0..MaxQty]]
    /\ lots \in [Product -> SUBSET Lot] /\ tracked \in [Product -> BOOLEAN]
    /\ \A c \in Count : /\ count[c].status \in Status /\ count[c].version \in 0..MaxVersion
                        /\ DOMAIN count[c].lines \subseteq Place
                        /\ Range(count[c].lines) \subseteq Line
    /\ \A b \in Tab : page[b].owner \in User /\ page[b].waiting \in Txn \cup {Null}

\* What lies at a place is what came and went plus what approved counts found,
\* each posted once: no movement since a count was opened is undone by it.
MovementsKept ==
    \A p \in Product, y \in Lot \cup {Shelf} :
        LET posting == {c \in Approved : << p, y >> \in DOMAIN count[c].lines}
        IN  qty[p][y] = moved[p][y] + MapThenSumSet(LAMBDA c : Variance(count[c].lines[<< p, y >>]), posting)

\* Units of a product that tracks expiry are in lots, although tracking may be
\* switched while a count of the product is open or being approved.
UnitsHaveALot == \A p \in Product : tracked[p] => qty[p][Shelf] = 0

\* A submitted count is complete, and nothing a stale page sends changes it.
SubmittedIsFrozen ==
    \A c \in Count :
      /\ count[c].status \in {"SUBMITTED", "APPROVED"} => count'[c].lines = count[c].lines
      /\ count'[c].status \in {"SUBMITTED", "APPROVED"} =>
            \A x \in DOMAIN count'[c].lines : count'[c].lines[x].counted # Blank
      /\ count[c].status \in {"APPROVED", "CANCELLED"} => count'[c] = count[c]

\* No saved quantity is lost and none is approved unseen: a count changes only
\* by a request of a page that showed its lines as they are.
WritesSeeTheCount ==
    \A c \in Count, t \in Txn :
      (count'[c] # count[c] /\ Running(t) /\ req'[t] = Idle /\ req[t].op # "create") =>
         req[t].seen = count[c].lines

\* A tab shows no count that was fetched for another user.
ShownIsOwn == \A b \in Tab : page[b].shown # Null => page[b].shown.by = page[b].owner
=============================================================================
