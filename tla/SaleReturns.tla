---------------------------- MODULE SaleReturns ----------------------------
(* The sales page (views/User/Sales/Index.vue): its paged list, the details *)
(* of the sale clicked, and the void or refund of that sale, from the form  *)
(* over the manager's approval to the server's answer. Every request may be *)
(* answered late, in any order, or fail.                                    *)
EXTENDS Naturals

CONSTANTS
    Sales, Shifts, Reasons, Pages, Filters,
    Null,
    ShiftOf,    \* Sales -> Shifts \cup {Null}: the shift that rang the sale up
    CashSales,  \* the sales whose reversal hands cash back
    Listing,    \* [Pages \X Filters -> SUBSET Sales]: what the server lists
    Admin,      \* is the page an admin's?
    MaxLists, MaxDetails, MaxShiftLoads, MaxPosts,   \* bounds: requests
    MaxShifts                                        \* bound: opens and closes

ReturnsAssumption ==
    /\ ShiftOf \in [Sales -> Shifts \cup {Null}]
    /\ CashSales \subseteq Sales
    /\ 1 \in Pages
    /\ "none" \in Filters /\ "bad" \in Filters
    /\ Admin \in BOOLEAN

VARIABLES
    status, open, paidBy,            \* server: sales, open shifts, drawers charged
    page, typed, applied, searchError, list, listReqs,
    offline,
    dialog, selected, seen,          \* isDialogOpen, selectedId, selectedSale.status
    details, detailReqs,
    form, shiftReqs,                 \* the reversal form, GET /shifts in flight
    reversing, approval, posts,      \* confirmReversal: its step, the dialog, the POST
    refetch,                         \* the list load confirmReversal waits for
    picked,                          \* ghost: the drawers chosen in this form
    lists, loads, posted, changes    \* counted against the bounds

server  == <<status, open, paidBy, changes>>
listing == <<page, typed, applied, searchError, list, listReqs, lists>>
detail  == <<dialog, selected, seen, details, detailReqs>>
reverse == <<form, shiftReqs, loads, reversing, approval, posts, refetch, picked,
             posted>>
vars    == <<server, listing, detail, reverse, offline>>

Types     == {"void", "refund"}
Completed == "completed"
(* ReversalStatus of a type. *)
Reversed(type) == IF type = "void" THEN "voided" ELSE "refunded"

NoForm == [type |-> Null, reason |-> Null, payout |-> Null, required |-> FALSE,
           shifts |-> {}, loading |-> FALSE, error |-> FALSE]

NoRows == [asked |-> Null, sales |-> {}]
Rows(p, f) == {[id |-> s, status |-> status[s]] : s \in Listing[p, f]}

Init ==
    /\ status = [s \in Sales |-> Completed]
    /\ open \in SUBSET Shifts
    /\ paidBy = [s \in Sales |-> Null]
    /\ changes = 0
    /\ page = 1 /\ typed = "none" /\ applied = "none" /\ searchError = FALSE
    /\ list = [rows |-> NoRows, latest |-> 1, loading |-> TRUE, error |-> FALSE]
    /\ listReqs = {[call |-> 1, page |-> 1, filter |-> "none"]}
    /\ lists = 1
    /\ offline = FALSE
    /\ dialog = FALSE /\ selected = Null /\ seen = Null
    /\ details = [of |-> Null, call |-> 0, loading |-> FALSE, error |-> FALSE]
    /\ detailReqs = {}
    /\ form = NoForm /\ shiftReqs = {} /\ loads = 0
    /\ reversing = "idle" /\ approval = Null /\ posts = Null /\ posted = 0
    /\ refetch = 0 /\ picked = {}

-----------------------------------------------------------------------------
(* The list: useListFetch and useListPaging. *)

(* load: counts the call and asks for page p with the filters applied f. *)
Load(p, f) ==
    /\ lists' = lists + 1
    /\ list' = [list EXCEPT !.latest = list.latest + 1, !.loading = TRUE,
                            !.error = FALSE]
    /\ listReqs' = listReqs \cup
          {[call |-> list.latest + 1, page |-> p, filter |-> f]}

TypeFilter(f) ==
    /\ ~dialog /\ typed # f
    /\ typed' = f
    /\ UNCHANGED <<server, page, applied, searchError, list, listReqs, lists,
                   detail, reverse, offline>>

(* applyFilters: a malformed sale number or date range is not searched for. *)
ApplyFilters ==
    /\ ~dialog /\ lists < MaxLists
    /\ searchError' = (typed = "bad")
    /\ IF typed = "bad" THEN UNCHANGED <<page, applied, list, listReqs, lists>>
       ELSE applied' = typed /\ page' = 1 /\ Load(1, typed)
    /\ UNCHANGED <<server, typed, detail, reverse, offline>>

ChangePage(p) ==
    /\ ~dialog /\ p # page /\ lists < MaxLists
    /\ page' = p /\ Load(p, applied)
    /\ UNCHANGED <<server, typed, applied, searchError, detail, reverse, offline>>

(* A new page size goes back to the first page. *)
ChangeLimit ==
    /\ ~dialog /\ lists < MaxLists
    /\ page' = 1 /\ Load(1, applied)
    /\ UNCHANGED <<server, typed, applied, searchError, detail, reverse, offline>>

Retry ==
    /\ ~dialog /\ list.error /\ lists < MaxLists
    /\ Load(page, applied)
    /\ UNCHANGED <<server, page, typed, applied, searchError, detail, reverse,
                   offline>>

(* What an answer to request r does to the list; only the latest may write. *)
ListAfter(r, ok) ==
    IF r.call # list.latest THEN list
    ELSE [list EXCEPT !.loading = FALSE, !.error = ~ok,
                      !.rows = IF ok THEN [asked |-> <<r.page, r.filter>>,
                                           sales |-> Rows(r.page, r.filter)]
                                     ELSE @]

(* A superseded load that never tells its caller it ended. *)

(* confirmReversal awaits the list it reloaded, until that load ends. *)
ListAnswer(r, ok) ==
    /\ r \in listReqs
    /\ listReqs' = listReqs \ {r}
    /\ list' = ListAfter(r, ok)
    /\ IF refetch = r.call THEN refetch' = 0 /\ reversing' = "idle"
                           ELSE UNCHANGED <<refetch, reversing>>
    /\ UNCHANGED <<server, page, typed, applied, searchError, lists, detail,
                   form, shiftReqs, loads, approval, posts, picked, posted,
                   offline>>

-----------------------------------------------------------------------------
(* The details of a sale. *)

LoadDetails(s) ==
    /\ details' = [of |-> Null, call |-> details.call + 1, loading |-> TRUE,
                   error |-> FALSE]
    /\ detailReqs' = detailReqs \cup {[call |-> details.call + 1, sale |-> s]}

(* A list row may be clicked while no dialog covers the list. *)
ShowDetails(row) ==
    /\ ~dialog /\ row \in list.rows.sales
    /\ details.call < MaxDetails
    /\ dialog' = TRUE /\ selected' = row.id /\ seen' = row.status
    /\ form' = [NoForm EXCEPT !.shifts = form.shifts, !.loading = form.loading]
    /\ LoadDetails(row.id)
    /\ UNCHANGED <<server, listing, shiftReqs, loads, reversing, approval, posts,
                   refetch, picked, posted, offline>>

RetryDetails ==
    /\ dialog /\ details.error /\ details.call < MaxDetails
    /\ LoadDetails(selected)
    /\ UNCHANGED <<server, listing, dialog, selected, seen, reverse, offline>>

DetailsAfter(r, ok) ==
    IF r.call # details.call THEN details
    ELSE [details EXCEPT !.of = IF ok THEN r.sale ELSE Null,
                         !.loading = FALSE, !.error = ~ok]

DetailsAnswer(r, ok) ==
    /\ r \in detailReqs
    /\ detailReqs' = detailReqs \ {r}
    /\ details' = DetailsAfter(r, ok)
    /\ UNCHANGED <<server, listing, dialog, selected, seen, reverse, offline>>

AlwaysClosable == TRUE

(* The dialog cannot be closed while a reversal is being confirmed. *)
Closable == reversing = "idle"
CloseDialog ==
    /\ dialog /\ Closable
    /\ dialog' = FALSE
    /\ UNCHANGED <<server, listing, selected, seen, details, detailReqs, reverse,
                   offline>>

-----------------------------------------------------------------------------
(* The reversal form. *)

CanReverse == dialog /\ ~offline /\ seen = Completed

(* reversalCash, as the API pays it out. *)
CashBack == selected \in CashSales

(* cancelReversal; the shifts once loaded stay, no answer is called off. *)
Cleared(f) == [NoForm EXCEPT !.shifts = f.shifts, !.loading = f.loading]
(* loadPayoutShifts, from the form f: only an admin with cash to hand back  *)
(* asks for the open shifts. caller is the confirmation that waits for it.  *)
LoadShifts(f, force, caller) ==
    IF ~CashBack \/ ~Admin
    THEN /\ form' = [f EXCEPT !.required = FALSE]
         /\ UNCHANGED <<shiftReqs, loads>>
    ELSE /\ form' = [f EXCEPT !.loading = TRUE, !.error = FALSE]
         /\ shiftReqs' = shiftReqs \cup
               {[sale |-> selected, force |-> force, caller |-> caller,
                 n |-> loads + 1]}
         /\ loads' = loads + 1

StartReversal(type) ==
    /\ CanReverse /\ form.type = Null
    /\ loads < MaxShiftLoads
    /\ LoadShifts([Cleared(form) EXCEPT !.type = type], FALSE, FALSE)
    /\ picked' = {}
    /\ UNCHANGED <<server, listing, detail, reversing, approval, posts, refetch,
                   posted, offline>>

CancelReversal ==
    /\ dialog /\ form.type # Null /\ reversing = "idle"
    /\ form' = Cleared(form)
    /\ UNCHANGED <<server, listing, detail, shiftReqs, loads, reversing, approval,
                   posts, refetch, picked, posted, offline>>

TypeReason(reason) ==
    /\ dialog /\ form.type # Null /\ form.reason # reason
    /\ form' = [form EXCEPT !.reason = reason]
    /\ UNCHANGED <<server, listing, detail, shiftReqs, loads, reversing, approval,
                   posts, refetch, picked, posted, offline>>

(* The choice is offered once the shifts are shown. *)
ChooseShift(shift) ==
    /\ dialog /\ form.type # Null
    /\ CashBack /\ ~form.loading /\ ~form.error /\ form.required
    /\ shift \in form.shifts /\ shift # form.payout
    /\ form' = [form EXCEPT !.payout = shift]
    /\ picked' = picked \cup {shift}
    /\ UNCHANGED <<server, listing, detail, shiftReqs, loads, reversing, approval,
                   posts, refetch, posted, offline>>

RetryShifts ==
    /\ dialog /\ form.type # Null /\ form.error /\ ~form.loading
    /\ loads < MaxShiftLoads
    /\ LoadShifts(form, form.required, FALSE)
    /\ UNCHANGED <<server, listing, detail, reversing, approval, posts, refetch,
                   picked, posted, offline>>

(* The answer to a load of the shifts, whichever sale it was begun for. A   *)
(* choice no longer open is dropped; none is ever made for the admin.       *)
FormAfter(r, ok) ==
    IF ~ok THEN [form EXCEPT !.shifts = {}, !.required = r.force,
                             !.loading = FALSE, !.error = TRUE]
    ELSE LET required == r.force \/ ShiftOf[r.sale] \notin open
         IN [form EXCEPT !.shifts = open, !.loading = FALSE, !.required = required,
                         !.payout = IF required /\ @ \in open THEN @ ELSE Null]

ShiftsAnswer(r, ok) ==
    /\ r \in shiftReqs
    /\ shiftReqs' = shiftReqs \ {r}
    /\ form' = FormAfter(r, ok)
    /\ reversing' = IF r.caller THEN "idle" ELSE reversing
    /\ UNCHANGED <<server, listing, detail, loads, approval, posts, refetch,
                   picked, posted, offline>>

-----------------------------------------------------------------------------
(* confirmReversal. *)

CanConfirm ==
    /\ form.reason # Null /\ ~form.loading
    /\ ~form.required \/ form.payout # Null

(* The body sent, and what the manager is asked to approve. *)
Body == [type |-> form.type, reason |-> form.reason,
         payout |-> IF form.required THEN form.payout ELSE Null]

Confirm ==
    /\ dialog /\ form.type # Null /\ CanConfirm /\ reversing = "idle"
    /\ posted < MaxPosts
    /\ reversing' = "approving"
    /\ approval' = [sale |-> selected, body |-> Body]
    /\ UNCHANGED <<server, listing, detail, form, shiftReqs, loads, posts, refetch,
                   picked, posted, offline>>

(* The manager's dialog is closed without an approval. *)
CancelApproval ==
    /\ reversing = "approving"
    /\ reversing' = "idle" /\ approval' = Null
    /\ UNCHANGED <<server, listing, detail, form, shiftReqs, loads, posts, refetch,
                   picked, posted, offline>>

(* The approval is for the context asked; the sale posted to is the one     *)
(* selected now, the body the one approved.                                 *)
Approve ==
    /\ reversing = "approving"
    /\ reversing' = "posting"
    /\ posts' = [sale |-> selected, body |-> approval.body, token |-> approval,
                 answer |-> Null]
    /\ posted' = posted + 1
    /\ approval' = Null
    /\ UNCHANGED <<server, listing, detail, form, shiftReqs, loads, refetch,
                   picked, offline>>

(* The drawer payOutReversal charges, or why it refuses: the sale's own     *)
(* shift while it is open, else the open shift named.                       *)
Charge(p) ==
    LET own == ShiftOf[p.sale] IN
    IF p.sale \notin CashSales THEN Null
    ELSE IF own \in open
         THEN IF p.body.payout \in {Null, own} THEN own ELSE "invalid"
    ELSE IF p.body.payout = Null
         THEN IF open = {} THEN "no open shift" ELSE "payout required"
    ELSE IF p.body.payout \in open THEN p.body.payout ELSE "shift closed"

Refusals == {"invalid", "no open shift", "payout required", "shift closed",
             "not reversible", "not approved"}

(* The server's transaction: the approval is consumed for exactly what was  *)
(* approved, the sale is claimed while completed, the drawer is charged.    *)
Serve ==
    /\ reversing = "posting" /\ posts.answer = Null
    /\ LET p == posts
           answer == IF p.token # [sale |-> p.sale, body |-> p.body]
                        \/ (~Admin /\ p.body.payout # Null) THEN "not approved"
                     ELSE IF status[p.sale] # Completed THEN "not reversible"
                     ELSE IF Charge(p) \in Refusals THEN Charge(p) ELSE "done"
       IN /\ posts' = [p EXCEPT !.answer = answer]
          /\ IF answer = "done"
             THEN /\ status' = [status EXCEPT ![p.sale] = Reversed(p.body.type)]
                  /\ paidBy' = [paidBy EXCEPT ![p.sale] = Charge(p)]
             ELSE UNCHANGED <<status, paidBy>>
    /\ UNCHANGED <<open, changes, listing, detail, form, shiftReqs, loads,
                   reversing, approval, refetch, picked, posted, offline>>

(* A reversal done closes the dialog and reloads the list. *)
Done ==
    /\ reversing = "posting" /\ posts.answer = "done"
    /\ form' = Cleared(form)
    /\ dialog' = FALSE
    /\ reversing' = "refetching"
    /\ Load(page, applied)
    /\ refetch' = list.latest + 1 /\ posts' = Null
    /\ UNCHANGED <<server, page, typed, applied, searchError, selected, seen,
                   details, detailReqs, shiftReqs, loads, approval, picked,
                   posted, offline>>

AsksForShift == {"payout required", "shift closed"}

(* The refusal of a drawer asks for a shift, before it is shown. *)
Refused ==
    /\ reversing = "posting" /\ posts.answer \in Refusals
    /\ posts' = Null
    /\ IF posts.answer \in AsksForShift /\ CashBack /\ Admin
       THEN reversing' = "asking" /\ LoadShifts(form, TRUE, TRUE)
       ELSE /\ reversing' = "idle" /\ UNCHANGED <<shiftReqs, loads>>
            /\ form' = IF posts.answer \in AsksForShift
                       THEN [form EXCEPT !.required = FALSE] ELSE form
    /\ UNCHANGED <<server, listing, detail, approval, refetch, picked, posted,
                   offline>>

(* The request, or its answer, is lost. *)
Lost ==
    /\ reversing = "posting"
    /\ reversing' = "idle" /\ posts' = Null
    /\ UNCHANGED <<server, listing, detail, form, shiftReqs, loads, approval,
                   refetch, picked, posted, offline>>

-----------------------------------------------------------------------------
(* The rest of the store. *)

OpenShift(s) ==
    /\ s \notin open /\ changes < MaxShifts
    /\ open' = open \cup {s} /\ changes' = changes + 1
    /\ \A x \in Sales : ShiftOf[x] # s    \* a shift once closed never reopens
    /\ UNCHANGED <<status, paidBy, listing, detail, reverse, offline>>

CloseShift(s) ==
    /\ s \in open /\ changes < MaxShifts
    /\ open' = open \ {s} /\ changes' = changes + 1
    /\ UNCHANGED <<status, paidBy, listing, detail, reverse, offline>>

ReverseElsewhere(s) ==
    /\ status[s] = Completed /\ changes < MaxShifts
    /\ status' = [status EXCEPT ![s] = "voided"] /\ changes' = changes + 1
    /\ UNCHANGED <<open, paidBy, listing, detail, reverse, offline>>

GoOffline ==
    /\ ~offline /\ changes < MaxShifts
    /\ offline' = TRUE /\ changes' = changes + 1
    /\ UNCHANGED <<status, open, paidBy, listing, detail, reverse>>

Answers ==
    \/ \E r \in listReqs, ok \in BOOLEAN : ListAnswer(r, ok)
    \/ \E r \in detailReqs, ok \in BOOLEAN : DetailsAnswer(r, ok)
    \/ \E r \in shiftReqs, ok \in BOOLEAN : ShiftsAnswer(r, ok)

(* The steps of confirmReversal after the manager's answer. *)
Confirming == Serve \/ Done \/ Refused

Next ==
    \/ \E f \in Filters : TypeFilter(f)
    \/ ApplyFilters \/ ChangeLimit \/ Retry
    \/ \E p \in Pages : ChangePage(p)
    \/ \E s \in Sales, st \in {Completed, "voided", "refunded"} :
          ShowDetails([id |-> s, status |-> st])
    \/ RetryDetails \/ CloseDialog
    \/ \E t \in Types : StartReversal(t)
    \/ CancelReversal
    \/ \E r \in Reasons : TypeReason(r)
    \/ \E s \in Shifts : ChooseShift(s)
    \/ RetryShifts
    \/ Confirm \/ CancelApproval \/ Approve \/ Lost
    \/ Answers \/ Confirming
    \/ \E s \in Shifts : OpenShift(s) \/ CloseShift(s)
    \/ \E s \in Sales : ReverseElsewhere(s)
    \/ GoOffline

Spec == Init /\ [][Next]_vars

(* Requests settle (the HTTP client times out), the server serves what it   *)
(* got, and the manager answers the approval or closes it.                  *)
FairSpec ==
    /\ Spec
    /\ WF_vars(Serve) /\ WF_vars(Done) /\ WF_vars(Refused)
    /\ WF_vars(CancelApproval \/ Approve)
    /\ \A n \in 1..(MaxLists + MaxPosts) :
          WF_vars(\E r \in listReqs, ok \in BOOLEAN :
                     r.call = n /\ ListAnswer(r, ok))
    /\ \A n \in 1..(MaxShiftLoads + MaxPosts) :
          WF_vars(\E r \in shiftReqs, ok \in BOOLEAN :
                     r.n = n /\ ShiftsAnswer(r, ok))

-----------------------------------------------------------------------------
(* The variables hold what the page, its requests and the server can hold. *)
TypeOK ==
    /\ status \in [Sales -> {Completed, "voided", "refunded"}]
    /\ open \subseteq Shifts
    /\ paidBy \in [Sales -> Shifts \cup {Null}]
    /\ page \in Pages /\ typed \in Filters /\ applied \in Filters \ {"bad"}
    /\ searchError \in BOOLEAN /\ offline \in BOOLEAN /\ dialog \in BOOLEAN
    /\ \A r \in listReqs : r.call <= list.latest /\ r.page \in Pages
    /\ list.latest = lists
    /\ selected \in Sales \cup {Null}
    /\ details.of \in Sales \cup {Null}
    /\ \A r \in detailReqs : r.call <= details.call /\ r.sale \in Sales
    /\ form.type \in Types \cup {Null} /\ form.reason \in Reasons \cup {Null}
    /\ form.payout \in Shifts \cup {Null} /\ form.shifts \subseteq Shifts
    /\ \A r \in shiftReqs : r.sale \in Sales /\ r.n <= loads
    /\ reversing \in {"idle", "approving", "posting", "asking", "refetching"}
    /\ (approval # Null) = (reversing = "approving")
    /\ (posts # Null) = (reversing = "posting")
    /\ (refetch # 0) = (reversing = "refetching")

(* A list at rest shows the page and the applied filters asked for last:    *)
(* neither an older answer that came late nor a filter typed and not        *)
(* searched for decides its rows (useListFetch, useListPaging).             *)
ListAsAsked ==
    ~list.loading /\ ~list.error => list.rows.asked = <<page, applied>>

(* The lines under a sale's heading are that sale's, whichever details are  *)
(* answered when (loadDetails, detailsCall).                                *)
DetailsOfSelected == details.of # Null => details.of = selected

(* The reversal sent is word for word the one the manager approved: its     *)
(* sale, its kind, its reason and the drawer that pays (confirmReversal     *)
(* reads the sale selected again after the approval).                       *)
ApprovedIsReversed ==
    posts # Null => posts.token = [sale |-> posts.sale, body |-> posts.body]

(* Cash leaves the drawer of the sale's own shift while that is open, else  *)
(* one the admin picked in the form of that very reversal: a choice made    *)
(* for another sale, or for a form cancelled since, pays nothing.           *)
DrawerPicked ==
    \A s \in Sales : paidBy'[s] # paidBy[s] =>
       IF ShiftOf[s] \in open THEN paidBy'[s] = ShiftOf[s]
       ELSE paidBy'[s] \in picked /\ s = selected

(* Confirming a reversal ends, so the dialog it locks can be closed: after  *)
(* a refusal that reloads the shifts, a lost answer, a list reload that     *)
(* another one overtook.                                                    *)
ReversingEnds == (reversing # "idle") ~> (reversing = "idle")

(* "True when an open shift must be chosen to pay the cash back" (line      *)
(* 750), said of the form once the shifts are loaded and while none opens   *)
(* or closes.                                                               *)
RequiredWhenNeeded ==
    form.type # Null /\ Admin /\ CashBack /\ ~form.loading /\ ~form.error
        => form.required = (ShiftOf[selected] \notin open)
=============================================================================
