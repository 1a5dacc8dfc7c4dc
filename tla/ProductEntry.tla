---------------------------- MODULE ProductEntry ----------------------------
(***************************************************************************)
(* New products: the draft page with its dialog, and the API that numbers  *)
(* the products without a barcode and inserts them in one transaction,     *)
(* beside other requests that create products too (a restock).             *)
(*                                                                         *)
(* A barcode is a model value when it is typed and a number when it is     *)
(* from the reserved range that the counter fills.  Prices, units and      *)
(* categories are left out.                                                *)
(***************************************************************************)
EXTENDS Integers, FiniteSets, Sequences, SequencesExt

CONSTANTS
    Name,        \* product names
    Barcode,     \* barcodes printed on goods
    Auto,        \* no barcode: the API generates one
    Blank, Null,
    Codes,       \* how many numbers the counter's digits hold
    Others,      \* what other requests create: sequences of lines
    Patient,     \* the user leaves the dialog alone while it checks
    MayFail,     \* requests may fail, answers may be lost
    MaxRows, MaxChecks, MaxSaves, MaxOthers \* bounds

Reserved == 0..(Codes - 1)
EAN == Barcode \cup {Auto}

EntryAssumption ==
    /\ Codes \in Nat /\ {MaxRows, MaxChecks, MaxSaves, MaxOthers} \subseteq Nat
    /\ Patient \in BOOLEAN /\ MayFail \in BOOLEAN
    /\ \A lines \in Others : \A i \in DOMAIN lines :
           lines[i].name \in Name /\ lines[i].ean \in EAN \cup Reserved

VARIABLES
    products, counter,  \* the catalogue and the barcode counter
    requests,           \* creations under way
    items, nextId,      \* the draft rows
    open, editing,      \* the dialog and the row it edits, or Null
    edits,              \* the dialog was opened on a row
    form,               \* its fields
    checks,             \* ensureValid requests under way
    saving,             \* a save is under way
    done,               \* the page was left after a save
    \* History
    asked, saves, others, \* checks, saves and other requests so far
    refused             \* barcodes for which the API refused a request

server == << products, counter, requests, refused, others >>
page == << items, nextId, open, editing, edits, form, checks, saving, done, asked, saves >>
vars == << server, page >>

NoForm == [name |-> Blank, ean |-> Blank]
Ids == {items[i].id : i \in DOMAIN items}
Row(id) == CHOOSE i \in DOMAIN items : items[i].id = id
Names(set) == {p.name : p \in set}
EANs(set) == {p.ean : p \in set}

Init ==
    /\ products = {} /\ counter = 0 /\ requests = {}
    /\ refused = {} /\ others = 0
    /\ items = << >> /\ nextId = 1 /\ open = FALSE /\ editing = Null /\ edits = FALSE
    /\ form = NoForm /\ checks = {} /\ saving = FALSE /\ done = FALSE
    /\ asked = 0 /\ saves = 0

\* The state has its shape; barcodes and names are unique in the catalogue.
TypeOK ==
    /\ counter \in 0..Codes
    /\ \A p \in products : p.name \in Name /\ p.ean \in Barcode \cup Nat
    /\ Cardinality(Names(products)) = Cardinality(products)
    /\ Cardinality(EANs(products)) = Cardinality(products)
    /\ Cardinality(Ids) = Len(items)
    /\ form.name \in Name \cup {Blank} /\ form.ean \in EAN \cup {Blank}
    /\ \A r \in requests : r.state \in {"sent", "running"}
    /\ saving => \E r \in requests : r.page

-----------------------------------------------------------------------------
\* The API

\* A typed barcode is refused in the reserved range.
Typable(lines) == \A i \in DOMAIN lines : lines[i].ean \notin Reserved

\* Products without a barcode take the counter's next values, in order.
WithEANs(r, from) ==
    [i \in DOMAIN r.lines |->
        IF r.lines[i].ean = Auto
        THEN [r.lines[i] EXCEPT !.ean =
                 from + Cardinality({j \in 1..i : r.lines[j].ean = Auto})]
        ELSE r.lines[i]]

Generated(r) == Cardinality({i \in DOMAIN r.lines : r.lines[i].ean = Auto})

\* The request's transaction begins: it sees the counter as it is now.
Begin(r) ==
    /\ r \in requests /\ r.state = "sent"
    /\ requests' = (requests \ {r}) \cup
           {[r EXCEPT !.state = "running", !.seen = counter, !.made = WithEANs(r, counter)]}
    /\ UNCHANGED << products, counter, refused, others, page >>

\* Another request has moved the counter since: the callback runs again,
\* from the lines as they were sent.
RunAgain(r) ==
    /\ r \in requests /\ r.state = "running" /\ Generated(r) > 0 /\ r.seen # counter
    /\ requests' = (requests \ {r}) \cup {[r EXCEPT !.state = "sent"]}
    /\ UNCHANGED << products, counter, refused, others, page >>

Current(r) ==
    r \in requests /\ r.state = "running" /\ (Generated(r) = 0 \/ r.seen = counter)

Exhausted(r) == Generated(r) > 0 /\ r.seen + Generated(r) >= Codes

\* Whether the unique indexes of barcode and name take the lines.
Clashing(made) ==
    {i \in DOMAIN made :
        \/ made[i].ean \in EANs(products) \/ made[i].name \in Names(products)
        \/ \E j \in DOMAIN made \ {i} :
               made[j].ean = made[i].ean \/ made[j].name = made[i].name}

\* Where the page is once its save has been answered.
PageSaved(r) ==
    IF r.page
    THEN items' = << >> /\ saving' = FALSE /\ done' = TRUE
    ELSE UNCHANGED << items, saving, done >>

PageRefused(r) ==
    /\ saving' = (saving /\ ~r.page)
    /\ UNCHANGED << items, done >>

pageRest == << nextId, open, editing, edits, form, checks, asked, saves >>

Created(r) == [i \in DOMAIN r.made |-> [name |-> r.made[i].name, ean |-> r.made[i].ean]]

\* All the products are inserted, or none.
Commit(r) ==
    /\ Current(r) /\ Typable(r.lines) /\ ~Exhausted(r) /\ Clashing(r.made) = {}
    /\ products' = products \cup ToSet(Created(r))
    /\ counter' = counter + Generated(r)
    /\ requests' = requests \ {r}
    /\ UNCHANGED << refused, others, pageRest >>
    /\ PageSaved(r) \/ (MayFail /\ PageRefused(r))

\* A refusal or an exhausted counter rolls everything back.
Refuse(r) ==
    /\ Current(r) /\ (~Typable(r.lines) \/ Exhausted(r) \/ Clashing(r.made) # {})
    /\ requests' = requests \ {r}
    /\ refused' = IF Typable(r.lines) /\ ~Exhausted(r)
                  THEN refused \cup {r.made[i].ean : i \in {j \in DOMAIN r.made :
                                         r.made[j].ean \in EANs(products)}}
                  ELSE refused
    /\ UNCHANGED << products, counter, others, pageRest >>
    /\ PageRefused(r)

Other(lines) ==
    /\ others < MaxOthers /\ others' = others + 1
    /\ requests' = requests \cup
           {[n |-> others', page |-> FALSE, lines |-> lines, state |-> "sent",
             seen |-> 0, made |-> << >>]}
    /\ UNCHANGED << products, counter, refused, page >>

-----------------------------------------------------------------------------
\* The page and its dialog

PageFree == ~open /\ ~saving /\ ~done
Entering == open /\ ~done /\ (Patient => checks = {})
Acceptable(row) == row.name # Blank /\ row.ean # Blank

OpenAdd ==
    /\ PageFree /\ open' = TRUE /\ editing' = Null /\ edits' = FALSE /\ form' = NoForm
    /\ UNCHANGED << server, items, nextId, checks, saving, done, asked, saves >>

EditDraft(i) ==
    /\ PageFree /\ open' = TRUE /\ editing' = items[i].id /\ edits' = TRUE
    /\ form' = [name |-> items[i].name, ean |-> items[i].ean]
    /\ UNCHANGED << server, items, nextId, checks, saving, done, asked, saves >>

CloseDialog ==
    /\ Entering /\ open' = FALSE
    /\ UNCHANGED << server, items, nextId, editing, edits, form, checks, saving, done, asked, saves >>

EditForm ==
    /\ Entering
    /\ \/ \E name \in Name : name # form.name /\ form' = [form EXCEPT !.name = name]
       \/ \E ean \in EAN : ean # form.ean /\ form' = [form EXCEPT !.ean = ean]
    /\ UNCHANGED << server, items, nextId, open, editing, edits, checks, saving, done, asked, saves >>

\* The form is checked here and then by the API.
Submit ==
    /\ Entering /\ Acceptable(form) /\ asked < MaxChecks /\ asked' = asked + 1
    /\ checks' = checks \cup {[n |-> asked', name |-> form.name, ean |-> form.ean]}
    /\ UNCHANGED << server, items, nextId, open, editing, edits, form, saving, done, saves >>

\* What the form says when the answer comes is what is added.
Emit ==
    /\ IF edits
       THEN /\ items' = IF editing \in Ids
                        THEN [items EXCEPT ![Row(editing)] =
                                 [id |-> editing, name |-> form.name, ean |-> form.ean]]
                        ELSE items
            /\ editing' = Null /\ UNCHANGED nextId
       ELSE /\ nextId <= MaxRows
            /\ items' = Append(items, [id |-> nextId, name |-> form.name, ean |-> form.ean])
            /\ nextId' = nextId + 1 /\ UNCHANGED editing
    /\ open' = FALSE

\* ensureValid: a barcode to be generated is not looked up, a typed one is
\* required.
Taken(c) ==
    \/ c.ean = Blank
    \/ c.ean # Auto /\ c.ean \in EANs(products)
    \/ c.name \in Names(products)

AnswerCheck(c) ==
    /\ c \in checks /\ checks' = checks \ {c} /\ ~done
    /\ IF Taken(c) THEN UNCHANGED << items, nextId, open, editing >> ELSE Emit
    /\ UNCHANGED << server, edits, form, saving, done, asked, saves >>

FailCheck(c) ==
    /\ MayFail /\ c \in checks /\ checks' = checks \ {c}
    /\ UNCHANGED << server, items, nextId, open, editing, edits, form, saving, done, asked, saves >>

DeleteDraft(i) ==
    /\ PageFree /\ items' = RemoveAt(items, i)
    /\ UNCHANGED << server, nextId, open, editing, edits, form, checks, saving, done, asked, saves >>

ClearDrafts ==
    /\ PageFree /\ items # << >> /\ items' = << >>
    /\ UNCHANGED << server, nextId, open, editing, edits, form, checks, saving, done, asked, saves >>

SaveToDB ==
    /\ PageFree /\ items # << >>
    /\ saves < MaxSaves /\ saves' = saves + 1 /\ saving' = TRUE
    /\ requests' = requests \cup
           {[n |-> saves', page |-> TRUE, lines |-> items, state |-> "sent",
             seen |-> 0, made |-> << >>]}
    /\ UNCHANGED << products, counter, refused, others, items, nextId, open, editing,
                    edits, form, checks, done, asked >>

-----------------------------------------------------------------------------
Server == \E r \in requests : Begin(r) \/ RunAgain(r) \/ Commit(r) \/ Refuse(r)

Page ==
    \/ OpenAdd \/ CloseDialog \/ EditForm \/ Submit \/ ClearDrafts \/ SaveToDB
    \/ \E i \in DOMAIN items : EditDraft(i) \/ DeleteDraft(i)
    \/ \E c \in checks : AnswerCheck(c) \/ FailCheck(c)

Next == Server \/ Page \/ \E lines \in Others : Other(lines)

Spec == Init /\ [][Next]_vars

\* The API goes on with every request it has.
FairSpec == Spec /\ WF_vars(Server)

-----------------------------------------------------------------------------
\* A request is never refused for a barcode that the API generated itself,
\* however often its transaction has run again.
GeneratedAccepted == refused \cap Nat = {}

\* Generated barcodes keep to the reserved range, up to its last number.
GeneratedInRange == \A p \in products : p.ean \in Nat => p.ean \in 1..(Codes - 1)

\* What the page posts was accepted by the dialog's rules.
PostedAcceptable ==
    \A r \in requests : r.page => \A i \in DOMAIN r.lines : Acceptable(r.lines[i])

\* A barcode, once given, is never given to another product; no number is
\* skipped by a transaction that rolled back.
CounterKept == counter = Cardinality({p \in products : p.ean \in Nat})

\* A save that succeeds clears only rows that it sent.
OnlySentCleared ==
    ~done /\ done' => \A i \in DOMAIN items :
        \E r \in requests \ requests' : r.page /\ items[i] \in ToSet(r.lines)

\* Every save is answered, though other requests keep taking numbers.
SavesEnd == saving ~> ~saving
=============================================================================
