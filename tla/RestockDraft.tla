---------------------------- MODULE RestockDraft ----------------------------
(***************************************************************************)
(* The restock draft page: lines handed over from the low-stock list or    *)
(* entered in the dialog, the cost defaults and the product check they     *)
(* wait for, and the save that posts them.                                 *)
(*                                                                         *)
(* A handler runs to its first await.  The answers under way come in any   *)
(* order, after the user has closed, reopened or retyped the dialog.  The  *)
(* generation a cost request compares is kept as the call's live flag.     *)
(* One name stands for the fields only a new product has (its name, price  *)
(* and barcode); quantity, batch number and category are left out.         *)
(***************************************************************************)
EXTENDS ProductSearch, Sequences, SequencesExt

CONSTANTS
    LastCost,    \* the latest receipt cost of a product, or Null: unknown
    Tracked,     \* the products that track expiry
    Imported,    \* the low-stock list handed over
    Name, Cost,  \* what is typed
    User,
    Patient,     \* the user leaves the dialog alone while it checks
    MayFail,     \* requests may fail
    MaxRows, MaxCalls, MaxSaves, MaxLogins \* bounds

DraftAssumption ==
    /\ LastCost \in [Product -> Nat \cup {Null}]
    /\ Tracked \subseteq Product /\ Imported \in Seq(Product)
    /\ Cost \subseteq Nat /\ Patient \in BOOLEAN /\ MayFail \in BOOLEAN
    /\ {MaxRows, MaxCalls, MaxSaves, MaxLogins} \subseteq Nat

VARIABLES
    user, handoff,      \* who is logged in; the prefill store's lines, or Null
    here,               \* the page is mounted
    items, nextId,      \* the draft rows
    pendingDefaults,    \* costDefaultsPending
    open, item, editing,\* the dialog, the row it was opened on, its draftId
    form, picked,       \* the dialog's fields and pick
    asking,             \* the open question: Null, or its kind and rows
    saveOpen, saving,   \* the save dialog
    calls,              \* requests under way, searches aside
    \* History
    asked, logins,      \* cost requests and checks; logins
    confirmed,          \* rows whose zero cost was confirmed on this save
    posted,             \* saves sent
    told                \* the row the last insert error named, and its row

session == << user, handoff, logins >>
rows == << items, nextId, pendingDefaults >>
dialog == << open, item, editing, form, picked >>
question == << asking, confirmed >>
save == << saveOpen, saving, posted, told >>
vars == << allSearch, session, here, rows, dialog, question, save, calls, asked >>

NoForm == [new |-> FALSE, name |-> Blank, cost |-> Blank, of |-> Null,
           tracks |-> FALSE, dated |-> FALSE]

\* A row: of is the product whose default its cost is, or Null if typed.
Line(new, product, name, cost, of, tracks, dated) ==
    [new |-> new, product |-> product, name |-> name, cost |-> cost, of |-> of,
     tracks |-> tracks, dated |-> dated, entered |-> TRUE]

\* What prepare makes of the listed rows: no cost, no expiry date.
ImportedLine(p) ==
    [Line(FALSE, p, Blank, 0, Null, p \in Tracked, FALSE) EXCEPT !.entered = FALSE]

WithId(line, id) == line @@ [id |-> id]
Ids(seq) == {seq[i].id : i \in DOMAIN seq}
Row(id) == CHOOSE i \in DOMAIN items : items[i].id = id
ZeroCost(seq) == {seq[i].id : i \in {j \in DOMAIN seq : seq[j].cost = 0}}
PageFree == here /\ ~open /\ ~saveOpen /\ asking = Null

\* What the dialog accepts; an expiry date is due on a tracked line.
Acceptable(line) ==
    /\ line.cost # Blank
    /\ line.new => line.name # Blank
    /\ line.tracks => line.dated

NewLines(seq) == SelectSeq([i \in DOMAIN seq |-> i], LAMBDA i : seq[i].new)

Blanked ==
    /\ items' = << >> /\ pendingDefaults' = FALSE
    /\ open' = FALSE /\ item' = Null /\ editing' = Null
    /\ form' = NoForm /\ picked' = Null
    /\ asking' = Null /\ saveOpen' = FALSE /\ saving' = FALSE
    /\ calls' = {}
    /\ text' = Blank /\ Remounted /\ timer' = Null /\ searches' = {}
    /\ shown' = Null /\ loading' = FALSE /\ latest' = Null

Init ==
    /\ SearchInit
    /\ user \in User /\ handoff = Null /\ logins = 1 /\ here = FALSE
    /\ items = << >> /\ nextId = 1 /\ pendingDefaults = FALSE
    /\ open = FALSE /\ item = Null /\ editing = Null
    /\ form = NoForm /\ picked = Null
    /\ asking = Null /\ confirmed = {}
    /\ saveOpen = FALSE /\ saving = FALSE /\ posted = 0 /\ told = Null
    /\ calls = {} /\ asked = 0

\* The state has its shape; row ids are unique and the dialog edits a row.
TypeOK ==
    /\ user \in User \cup {Null} /\ here \in BOOLEAN
    /\ nextId <= MaxRows + 1 /\ Cardinality(Ids(items)) = Len(items)
    /\ \A id \in Ids(items) : id < nextId
    /\ picked \in Product \cup {Null}
    /\ form.name \in Name \cup {Blank} /\ form.cost \in Nat \cup {Blank}
    /\ saving => saveOpen
    /\ \A c \in calls : c.kind \in {"defaults", "cost", "check", "save"}
    /\ shown \in Term \cup {Null}

-----------------------------------------------------------------------------
\* The handover and the page

\* The list belongs to the login that prepared it.
Prepare ==
    /\ user # Null /\ ~here /\ handoff = Null /\ Imported # << >>
    /\ handoff' = [owner |-> user, login |-> logins]
    /\ UNCHANGED << allSearch, user, logins, here, rows, dialog, question, save, calls, asked >>

\* A change of user forgets the handover; a forced logout takes the page.
Logout ==
    /\ user # Null /\ user' = Null /\ handoff' = Null /\ here' = FALSE
    /\ Blanked
    /\ UNCHANGED << logins, nextId, confirmed, posted, told, asked, sent, entered >>

Login(u) ==
    /\ user = Null /\ logins < MaxLogins
    /\ user' = u /\ logins' = logins + 1
    /\ UNCHANGED << allSearch, handoff, here, rows, dialog, question, save, calls, asked >>

\* Setup takes the handover once and asks for the costs of its products.
Mount ==
    LET own == handoff # Null /\ handoff.owner = user
        lines == IF own THEN Imported ELSE << >>
        taken == [i \in DOMAIN lines |-> WithId(ImportedLine(lines[i]), nextId + i - 1)]
    IN
    /\ user # Null /\ ~here /\ here' = TRUE
    /\ nextId + Len(lines) <= MaxRows + 1
    /\ handoff' = Null
    /\ items' = taken /\ nextId' = nextId + Len(taken)
    /\ pendingDefaults' = (taken # << >>)
    /\ calls' = IF taken = << >> THEN {} ELSE {[kind |-> "defaults", lines |-> taken]}
    /\ UNCHANGED << allSearch, user, logins, dialog, question, save, asked >>

Go == here' = FALSE /\ Blanked /\ UNCHANGED << session, nextId, sent, entered, asked >>

\* Leaving asks while there are drafts, and waits for a save.
Leave ==
    /\ here /\ ~saving
    /\ IF items = << >>
       THEN Go /\ UNCHANGED << confirmed, posted, told >>
       ELSE /\ asking' = [kind |-> "leave", ids |-> {}]
            /\ UNCHANGED << allSearch, session, here, rows, dialog, confirmed, save, calls, asked >>

\* Only rows still as they were handed over take a known cost.
WithDefault(line, snapshot) ==
    IF line \in snapshot /\ ~line.new /\ LastCost[line.product] # Null
    THEN [line EXCEPT !.cost = LastCost[line.product], !.of = line.product]
    ELSE line

AnswerDefaults(c) ==
    /\ c \in calls /\ c.kind = "defaults" /\ calls' = calls \ {c}
    /\ items' = [i \in DOMAIN items |-> WithDefault(items[i], ToSet(c.lines))]
    /\ pendingDefaults' = FALSE
    /\ UNCHANGED << allSearch, session, here, nextId, dialog, question, save, asked >>

FailDefaults(c) ==
    /\ c \in calls /\ c.kind = "defaults" /\ calls' = calls \ {c}
    /\ pendingDefaults' = FALSE
    /\ UNCHANGED << allSearch, session, here, items, nextId, dialog, question, save, asked >>

-----------------------------------------------------------------------------
\* The dialog

Outdated == {IF c.kind = "cost" THEN [c EXCEPT !.live = FALSE] ELSE c : c \in calls}

\* The watch on the dialog's opening fills it from the row and starts over.
Fill(line, p) ==
    /\ form' = [new |-> line.new, name |-> line.name, cost |-> line.cost, of |-> line.of,
                tracks |-> line.new /\ line.tracks, dated |-> line.dated]
    /\ picked' = p
    /\ calls' = Outdated
    /\ text' = IF p = Null THEN Blank ELSE p
    /\ Reset /\ Remounted /\ UNCHANGED << sent, entered >>

OpenAdd ==
    /\ PageFree
    /\ open' = TRUE /\ item' = Null /\ editing' = Null /\ Fill(NoForm, Null)
    /\ UNCHANGED << session, here, rows, question, save, asked >>

EditDraft(i) ==
    /\ PageFree
    /\ open' = TRUE /\ item' = items[i] /\ editing' = items[i].id
    /\ Fill(items[i], items[i].product)
    /\ UNCHANGED << session, here, rows, question, save, asked >>

Checking == \E c \in calls : c.kind = "check"
Entering == here /\ open /\ asking = Null /\ (Patient => ~Checking)

\* Cancel, Escape or the backdrop; the debounce and the check go on.
CloseDialog ==
    /\ Entering /\ open' = FALSE /\ calls' = Outdated
    /\ UNCHANGED << allSearch, session, here, rows, item, editing, form, picked,
                    question, save, asked >>

\* A key in the search box drops the pick it follows.
TypeText(t) ==
    /\ Entering /\ ~form.new /\ t # text /\ Type(t)
    /\ picked' = Null
    /\ form' = IF picked = Null THEN form ELSE [form EXCEPT !.dated = FALSE]
    /\ calls' = IF picked = Null THEN calls ELSE Outdated
    /\ UNCHANGED << session, here, rows, open, item, editing, question, save, asked >>

\* A pick on a row being added asks for the product's cost.
PickProduct(p, byEnter) ==
    /\ Entering /\ ~form.new /\ Choose(p, byEnter)
    /\ picked' = p
    /\ form' = IF p = picked THEN form ELSE [form EXCEPT !.dated = FALSE]
    /\ IF item = Null
       THEN /\ asked < MaxCalls /\ asked' = asked + 1
            /\ calls' = Outdated \cup {[kind |-> "cost", n |-> asked', product |-> p,
                                        cost |-> form.cost, live |-> TRUE]}
       ELSE calls' = Outdated /\ UNCHANGED asked
    /\ UNCHANGED << session, here, rows, open, item, editing, question, save >>

\* The default is dropped after another pick, a reopening or a typed cost.
AnswerCost(c) ==
    LET cost == LastCost[c.product] IN
    /\ c \in calls /\ c.kind = "cost" /\ calls' = calls \ {c}
    /\ form' = IF c.live /\ open /\ picked = c.product /\ form.cost = c.cost /\ cost # Null
               THEN [form EXCEPT !.cost = cost, !.of = c.product]
               ELSE form
    /\ UNCHANGED << allSearch, session, here, rows, open, item, editing, picked,
                    question, save, asked >>

FailCost(c) ==
    /\ c \in calls /\ c.kind = "cost" /\ calls' = calls \ {c}
    /\ UNCHANGED << allSearch, session, here, rows, dialog, question, save, asked >>

\* The fields of the form; a typed cost is nobody's default.
Retyped ==
    \/ \E cost \in Cost \cup {Blank} : cost # form.cost
           /\ form' = [form EXCEPT !.cost = cost, !.of = Null]
    \/ \E name \in Name : form.new /\ name # form.name /\ form' = [form EXCEPT !.name = name]
    \/ form.new /\ Tracked # {} /\ form' = [form EXCEPT !.tracks = ~form.tracks]
    \/ /\ (IF form.new THEN form.tracks ELSE picked \in Tracked) /\ ~form.dated
       /\ form' = [form EXCEPT !.dated = TRUE]

EditForm ==
    /\ Entering /\ Retyped
    /\ UNCHANGED << allSearch, session, here, rows, open, item, editing, picked,
                    question, save, calls, asked >>

\* Switching the mode starts that part of the line over; the cost stays.
SetNewProduct ==
    /\ Entering
    /\ form' = [NoForm EXCEPT !.new = ~form.new, !.cost = form.cost, !.of = form.of]
    /\ picked' = Null /\ text' = Blank /\ Reset /\ Remounted
    /\ UNCHANGED << sent, entered, session, here, rows, open, item, editing, question, save, calls, asked >>

\* A new product never carries a product id; an existing one is the pick.
Payload(tracks) ==
    IF form.new \/ picked = Null
    THEN Line(TRUE, Null, form.name, form.cost, form.of, tracks, tracks /\ form.dated)
    ELSE Line(FALSE, picked, Blank, form.cost, form.of, tracks, tracks /\ form.dated)

\* What the fields say at this moment goes to the page, which adds a row or
\* replaces the one it is editing.
Commit(tracks) ==
    /\ IF item = Null
       THEN /\ nextId <= MaxRows
            /\ items' = Append(items, WithId(Payload(tracks), nextId))
            /\ nextId' = nextId + 1 /\ UNCHANGED editing
       ELSE /\ items' = IF editing \in Ids(items)
                        THEN [items EXCEPT ![Row(editing)] = WithId(Payload(tracks), editing)]
                        ELSE items
            /\ editing' = Null /\ UNCHANGED nextId
    /\ open' = FALSE

Draft == Payload(IF form.new THEN form.tracks ELSE picked \in Tracked)

\* An existing product goes at once, a new one once its check is answered.
Submit ==
    /\ Entering /\ Acceptable(Draft) /\ (form.new \/ picked # Null)
    /\ IF form.new
       THEN /\ asked < MaxCalls /\ asked' = asked + 1
            /\ calls' = calls \cup {[kind |-> "check", n |-> asked', tracks |-> form.tracks]}
            /\ UNCHANGED << items, nextId, open, editing >>
       ELSE Commit(picked \in Tracked) /\ calls' = Outdated /\ UNCHANGED asked
    /\ UNCHANGED << allSearch, session, here, pendingDefaults, item, form, picked,
                    question, save >>

AnswerCheck(c) ==
    /\ c \in calls /\ c.kind = "check" /\ Commit(c.tracks)
    /\ calls' = IF open THEN Outdated \ {c} ELSE calls \ {c}
    /\ UNCHANGED << allSearch, session, here, pendingDefaults, item, form, picked,
                    question, save, asked >>

FailCheck(c) ==
    /\ c \in calls /\ c.kind = "check" /\ calls' = calls \ {c}
    /\ UNCHANGED << allSearch, session, here, rows, dialog, question, save, asked >>

-----------------------------------------------------------------------------
\* The list and the save

DeleteDraft(i) ==
    /\ PageFree /\ items' = RemoveAt(items, i)
    /\ UNCHANGED << allSearch, session, here, nextId, pendingDefaults, dialog, question,
                    save, calls, asked >>

ConfirmClear ==
    /\ PageFree /\ items # << >> /\ asking' = [kind |-> "clear", ids |-> {}]
    /\ UNCHANGED << allSearch, session, here, rows, dialog, confirmed, save, calls, asked >>

\* Rows at no cost are named and confirmed before the save dialog opens.
OpenSave ==
    /\ PageFree /\ ~pendingDefaults /\ items # << >>
    /\ IF ZeroCost(items) = {}
       THEN saveOpen' = TRUE /\ confirmed' = {} /\ UNCHANGED asking
       ELSE /\ asking' = [kind |-> "zero", ids |-> ZeroCost(items)]
            /\ UNCHANGED << saveOpen, confirmed >>
    /\ UNCHANGED << allSearch, session, here, rows, dialog, saving, posted, told, calls, asked >>

Refuse ==
    /\ asking # Null /\ asking' = Null
    /\ UNCHANGED << allSearch, session, here, rows, dialog, confirmed, save, calls, asked >>

Accept ==
    /\ asking # Null
    /\ \/ /\ asking.kind = "zero" /\ asking' = Null
          /\ saveOpen' = TRUE /\ confirmed' = asking.ids
          /\ UNCHANGED << allSearch, session, here, rows, dialog, saving, posted, told, calls, asked >>
       \/ /\ asking.kind = "clear" /\ asking' = Null /\ items' = << >>
          /\ UNCHANGED << allSearch, session, here, nextId, pendingDefaults, dialog, confirmed,
                          save, calls, asked >>
       \/ asking.kind = "leave" /\ Go /\ UNCHANGED << confirmed, posted, told >>

\* Nothing closes the save dialog while it saves.
CancelSave ==
    /\ saveOpen /\ ~saving /\ asking = Null /\ saveOpen' = FALSE
    /\ UNCHANGED << allSearch, session, here, rows, dialog, question, saving, posted, told,
                    calls, asked >>

Dated(seq) == \A i \in DOMAIN seq : seq[i].tracks => seq[i].dated

SaveToDB ==
    /\ saveOpen /\ ~saving /\ asking = Null /\ items # << >> /\ Dated(items)
    /\ posted < MaxSaves /\ posted' = posted + 1 /\ saving' = TRUE
    /\ calls' = calls \cup {[kind |-> "save", lines |-> items, newLines |-> NewLines(items)]}
    /\ UNCHANGED << allSearch, session, here, rows, dialog, question, saveOpen, told, asked >>

\* Saved: the drafts are cleared and the page left.
AnswerSave(c) ==
    /\ c \in calls /\ c.kind = "save"
    /\ Go /\ UNCHANGED << confirmed, posted, told >>

\* A lost answer, or a refusal: everything stays.
FailSave(c) ==
    /\ c \in calls /\ c.kind = "save" /\ calls' = calls \ {c} /\ saving' = FALSE
    /\ UNCHANGED << allSearch, session, here, rows, dialog, question, saveOpen, posted, told, asked >>

\* The API refuses the k-th new product, numbering the new ones alone.
RefuseLine(c) ==
    /\ c \in calls /\ c.kind = "save" /\ calls' = calls \ {c} /\ saving' = FALSE
    /\ \E i \in DOMAIN c.lines :
           LET row == c.newLines[Cardinality({j \in 1..i : c.lines[j].new})] IN
           /\ c.lines[i].new
           /\ told' = [fault |-> c.lines[i].id,
                       named |-> IF row \in DOMAIN items THEN items[row].id ELSE Null]
    /\ UNCHANGED << allSearch, session, here, rows, dialog, question, saveOpen, posted, asked >>

-----------------------------------------------------------------------------
Page == << session, here, rows, dialog, question, save, calls, asked >>

SearchNext ==
    /\ here /\ UNCHANGED Page
    /\ \/ Search
       \/ \E c \in searches : AnswerSearch(c) \/ (MayFail /\ FailSearch(c))

Answers ==
    \E c \in calls :
        \/ AnswerDefaults(c) \/ AnswerCost(c) \/ AnswerCheck(c) \/ AnswerSave(c)
        \/ RefuseLine(c)
        \/ MayFail /\ (FailDefaults(c) \/ FailCost(c) \/ FailCheck(c) \/ FailSave(c))

Enters ==
    \/ OpenAdd \/ CloseDialog \/ EditForm \/ SetNewProduct \/ Submit
    \/ \E i \in DOMAIN items : EditDraft(i) \/ DeleteDraft(i)
    \/ \E t \in Term \cup {Blank} : TypeText(t)
    \/ \E p \in Product, byEnter \in BOOLEAN : PickProduct(p, byEnter)

Next ==
    \/ Prepare \/ Mount \/ Logout \/ Leave \/ \E u \in User : Login(u)
    \/ Enters \/ ConfirmClear \/ OpenSave \/ Refuse \/ Accept \/ CancelSave \/ SaveToDB
    \/ Answers \/ SearchNext

Spec == Init /\ [][Next]_vars

\* Requests are answered; the debounce runs out.
FairSpec == Spec /\ WF_vars(SearchNext)

-----------------------------------------------------------------------------
Saving == {c \in calls : c.kind = "save"}

\* What is posted passes the line rules: every new product is named and
\* every tracked line dated, the imported ones included.
SentComplete == \A c \in Saving : \A i \in DOMAIN c.lines : Acceptable(c.lines[i])

\* No row is posted at no cost that the user was not asked about.
ZeroCostConfirmed == \A c \in Saving : ZeroCost(c.lines) \subseteq confirmed

\* A cost nobody typed is the last receipt cost of the row's own product: an
\* unknown cost stays unknown, whatever was picked in the dialog before.
DefaultIsOwn ==
    \A i \in DOMAIN items : ~items[i].new => items[i].of \in {Null, items[i].product}

\* An insert error names the row of the product that was refused, though
\* the API numbers only the new ones.
ErrorNamesRow == told # Null => told.fault = told.named

\* Defaults that come late change no row the user has gone over.
ReviewedKept ==
    \A c \in calls : AnswerDefaults(c) =>
        \A i \in DOMAIN items : items[i].entered => items'[i] = items[i]

\* A save that succeeds clears only rows that it sent.
OnlySentCleared ==
    \A c \in Saving : AnswerSave(c) => Ids(items) \subseteq Ids(c.lines)

\* Rows handed over were prepared in the login that takes them.
HandoffOwn ==
    ~here /\ here' /\ items' # << >> => handoff.login = logins
=============================================================================
