------------------------------ MODULE Checkout ------------------------------
(***************************************************************************)
(* A register checks tickets out over a network that loses requests and    *)
(* answers.  The ticket and its checkout attempt (an idempotency key and   *)
(* the lines it was made for) are saved in the browser and survive a       *)
(* reload; the request in flight does not.  The server looks the key up,   *)
(* records the sale under the unique index of keys, and after any failure  *)
(* looks the key up again.  A request the register gave up on goes on      *)
(* running, so that several requests with one key can be in progress.      *)
(*                                                                         *)
(* A ticket is its customer and its lines (products, quantities, discount). *)
(* The customer is not part of the request: the next customer may well buy *)
(* the same, and their tickets then look alike to the program.             *)
(* Requests and sales carry their customer for the properties only.        *)
(***************************************************************************)
EXTENDS Naturals

CONSTANTS
    Customer,
    Lines,       \* the contents a ticket can have (its signature)
    Payment,     \* the payments a cashier can enter
    Request,     \* connections: requests that can be in progress at once
    Null,
    MaxKeys,     \* bound: keys the register makes
    MaxFaults    \* bound: requests and answers lost, timeouts, reloads

Key == 1..MaxKeys

Ticket  == [for : Customer, lines : Lines]
Attempt == [key : Key, lines : Lines]
Body    == [for : Customer, key : Key, lines : Lines, payment : Payment]

ASSUME CheckoutAssumption ==
    /\ MaxKeys \in Nat /\ MaxFaults \in Nat
    /\ Null \notin Request \cup Attempt \cup Ticket

VARIABLES
    basket,      \* the ticket on the register, or Null
    attempt,     \* the saved checkout attempt, or Null
    waiting,     \* the request whose answer the register awaits (the lock)
    come,        \* customers who have come to the register
    made,        \* made[k]: the ticket key k was made for, or Null if not made
    shown,       \* shown[c]: the receipt customer c was given, or Null
    conn,        \* conn[r]: what the server is doing with request r
    sale,        \* sale[k]: the sale recorded under key k, or NoSale
    shiftOpen,   \* the cashier has an open shift
    faults,
    emptied      \* history: keys saved when their ticket lost its last line

register == << basket, attempt, waiting, come, made, shown >>
server   == << sale, shiftOpen >>
vars     == << register, conn, server, faults, emptied >>

NoSale == [status |-> "NONE"]
SaleDoc == [status : {"COMPLETED", "VOIDED"}, for : Customer, lines : Lines,
            payment : Payment]
Recorded(k) == sale[k] # NoSale

Idle == [at |-> "idle"]
At(place, body) == [at |-> place, body |-> body]
Answer(body, reply) == [at |-> "answered", body |-> body, reply |-> reply]
Refusal == [kind |-> "error"]
Replies == {Refusal} \cup
           [kind : {"receipt", "mismatch"}, sale : SaleDoc]
Conn == {Idle} \cup [at : {"arrived", "recording", "failed"}, body : Body]
               \cup [at : {"answered"}, body : Body, reply : Replies]

Init ==
    /\ basket = Null /\ attempt = Null /\ waiting = Null
    /\ come = {}
    /\ made = [k \in Key |-> Null]
    /\ shown = [c \in Customer |-> Null]
    /\ conn = [r \in Request |-> Idle]
    /\ sale = [k \in Key |-> NoSale]
    /\ shiftOpen = TRUE
    /\ faults = 0
    /\ emptied = {}

Fault == faults < MaxFaults /\ faults' = faults + 1

-----------------------------------------------------------------------------
\* The register

Locked == waiting # Null

Scan ==
    /\ ~Locked /\ basket = Null
    /\ \E c \in Customer \ come, l \in Lines :
         /\ basket' = [for |-> c, lines |-> l]
         /\ come' = come \cup {c}
    /\ UNCHANGED << attempt, waiting, made, shown, conn, server, faults, emptied >>

\* Adding, removing and restoring lines, changing a quantity or the discount.
EditedLines(ticket) == Lines \ {ticket.lines}
Edit ==
    /\ ~Locked /\ basket # Null
    /\ \E l \in EditedLines(basket) : basket' = [basket EXCEPT !.lines = l]
    /\ UNCHANGED << attempt, waiting, come, made, shown, conn, server, faults, emptied >>

\* Removing the last line ends the ticket too, but keeps the attempt.
RemoveLastLine ==
    /\ ~Locked /\ basket # Null
    /\ basket' = Null
    /\ emptied' = (IF attempt = Null THEN emptied ELSE emptied \cup {attempt.key})
    /\ UNCHANGED << attempt, waiting, come, made, shown, conn, server, faults >>

\* Voiding the ticket forgets its attempt: the next one may be identical.
AfterVoidKept == attempt
AfterVoid == Null
Void ==
    /\ ~Locked /\ basket # Null
    /\ basket' = Null
    /\ attempt' = AfterVoid
    /\ UNCHANGED << waiting, come, made, shown, conn, server, faults, emptied >>

\* Keys are random UUIDs: a new one is one never made before.  They are
\* numbered in the order they are made.
NewKeys == {k \in Key : \A j \in Key : made[j] = Null <=> j >= k}

\* keyFor: a retry of the same lines keeps its key.
KeyForAlwaysNew(ticket) == NewKeys
KeyFor(ticket) ==
    IF attempt # Null /\ attempt.lines = ticket.lines THEN {attempt.key} ELSE NewKeys

Submit ==
    /\ ~Locked /\ basket # Null
    /\ \E k \in KeyFor(basket), p \in Payment, r \in Request :
         /\ conn[r] = Idle
         /\ attempt' = [key |-> k, lines |-> basket.lines]
         /\ made' = IF made[k] = Null THEN [made EXCEPT ![k] = basket] ELSE made
         /\ conn' = [conn EXCEPT ![r] =
                       At("arrived", [for |-> basket.for, key |-> k,
                                      lines |-> basket.lines, payment |-> p])]
         /\ waiting' = r
    /\ UNCHANGED << basket, come, shown, server, faults, emptied >>

\* An error leaves the ticket and its attempt for a retry.
ReceiveError ==
    /\ Locked /\ conn[waiting].at = "answered"
    /\ conn[waiting].reply = Refusal
    /\ waiting' = Null
    /\ conn' = [conn EXCEPT ![waiting] = Idle]
    /\ UNCHANGED << basket, attempt, come, made, shown, server, faults, emptied >>

\* The register shows the stored sale, with a notice if it was recorded with
\* another payment than the one just entered, and clears the ticket.
ReceiveReceipt ==
    /\ Locked /\ conn[waiting].at = "answered"
    /\ conn[waiting].reply # Refusal
    /\ LET answer == conn[waiting].reply IN
         /\ answer.sale.status = "COMPLETED"
         /\ shown' = [shown EXCEPT ![basket.for] =
                        [key |-> conn[waiting].body.key, sale |-> answer.sale,
                         entered |-> conn[waiting].body.payment,
                         notice |-> answer.kind = "mismatch"]]
    /\ basket' = Null /\ attempt' = Null /\ waiting' = Null
    /\ conn' = [conn EXCEPT ![waiting] = Idle]
    /\ UNCHANGED << come, made, server, faults, emptied >>

\* The sale was reversed since: the ticket stays and gets a new key.
ReceiveReversed ==
    /\ Locked /\ conn[waiting].at = "answered"
    /\ conn[waiting].reply # Refusal
    /\ conn[waiting].reply.sale.status # "COMPLETED"
    /\ attempt' = Null /\ waiting' = Null
    /\ conn' = [conn EXCEPT ![waiting] = Idle]
    /\ UNCHANGED << basket, come, made, shown, server, faults, emptied >>

\* The request or its answer was lost, and the timeout ends the wait.
TimeOutNever == FALSE
TimeOut ==
    /\ Locked /\ conn[waiting] = Idle
    /\ waiting' = Null
    /\ UNCHANGED << basket, attempt, come, made, shown, conn, server, faults, emptied >>

\* The answer is late (or the page reloads): the request goes on without the
\* register.
GiveUp ==
    /\ Locked /\ Fault
    /\ waiting' = Null
    /\ UNCHANGED << basket, attempt, come, made, shown, conn, server, emptied >>

-----------------------------------------------------------------------------
\* The server

\* findReplay: the receipt of the sale recorded under the request's key.  It
\* needs no open shift.
Replayable(k) == Recorded(k)

Replay(body) ==
    LET found == sale[body.key] IN
    [kind |-> IF found.lines = body.lines /\ found.payment = body.payment
              THEN "receipt" ELSE "mismatch",
     sale |-> found]

LookUp(r) ==
    /\ conn[r].at = "arrived"
    /\ LET body == conn[r].body IN
       conn' = [conn EXCEPT ![r] = IF Replayable(body.key) THEN Answer(body, Replay(body))
                                   ELSE At("recording", body)]
    /\ UNCHANGED << register, server, faults, emptied >>

\* The transaction commits: only one sale gets the key.  The server may still
\* fail to learn that it has.
KeyFreeUnchecked(k) == TRUE
KeyFree(k) == ~Recorded(k)

Record(r) ==
    /\ conn[r].at = "recording"
    /\ shiftOpen
    /\ LET body == conn[r].body
           new  == [status |-> "COMPLETED", for |-> body.for, lines |-> body.lines,
                    payment |-> body.payment]
       IN  /\ KeyFree(body.key)
           /\ sale' = [sale EXCEPT ![body.key] = new]
           /\ \E outcome \in {Answer(body, [kind |-> "receipt", sale |-> new]),
                              At("failed", body)} :
                conn' = [conn EXCEPT ![r] = outcome]
    /\ UNCHANGED << register, shiftOpen, faults, emptied >>

\* Nothing is recorded: no open shift, too little stock, a used key or GCash
\* reference, a write conflict, ...
Fail(r) ==
    /\ conn[r].at = "recording"
    /\ conn' = [conn EXCEPT ![r] = At("failed", @.body)]
    /\ UNCHANGED << register, server, faults, emptied >>

\* Before it refuses, sell looks the key up again: another request with this
\* key may have recorded the sale and caused the failure.
LookUpAgain(r) ==
    /\ conn[r].at = "failed"
    /\ LET body == conn[r].body IN
       conn' = [conn EXCEPT ![r] =
                  Answer(body, IF Replayable(body.key) THEN Replay(body) ELSE Refusal)]
    /\ UNCHANGED << register, server, faults, emptied >>

\* The answer of a request nobody waits for any more is dropped.
Drop(r) ==
    /\ conn[r].at = "answered" /\ waiting # r
    /\ conn' = [conn EXCEPT ![r] = Idle]
    /\ UNCHANGED << register, server, faults, emptied >>

\* The request does not reach the server, the process dies, the answer is lost.
Lose(r) ==
    /\ conn[r] # Idle
    /\ Fault
    /\ conn' = [conn EXCEPT ![r] = Idle]
    /\ UNCHANGED << register, server, emptied >>

\* Others void (or refund) sales, and close and open the cashier's shift.
Reverse(k) ==
    /\ Recorded(k) /\ sale[k].status = "COMPLETED"
    /\ sale' = [sale EXCEPT ![k].status = "VOIDED"]
    /\ UNCHANGED << register, conn, shiftOpen, faults, emptied >>

ToggleShift ==
    /\ shiftOpen' = ~shiftOpen
    /\ UNCHANGED << register, conn, sale, faults, emptied >>

-----------------------------------------------------------------------------

Receive == ReceiveError \/ ReceiveReceipt \/ ReceiveReversed
Serve(r) == LookUp(r) \/ Record(r) \/ Fail(r) \/ LookUpAgain(r) \/ Drop(r)

Next ==
    \/ Scan \/ Edit \/ RemoveLastLine \/ Void \/ Submit
    \/ Receive \/ TimeOut \/ GiveUp
    \/ \E r \in Request : Serve(r) \/ Lose(r)
    \/ \E k \in Key : Reverse(k)
    \/ ToggleShift

\* The server gets on with its requests, the register with its answers and its
\* timeout (axios), and the cashier presses Retry.
Fairness ==
    /\ \A r \in Request : WF_vars(Serve(r))
    /\ WF_vars(Receive) /\ WF_vars(TimeOut) /\ WF_vars(Submit)

Spec == Init /\ [][Next]_vars /\ Fairness

-----------------------------------------------------------------------------

\* The shapes of the register's and the server's state.
TypeOK ==
    /\ basket \in Ticket \cup {Null}
    /\ attempt \in Attempt \cup {Null}
    /\ waiting \in Request \cup {Null}
    /\ come \in SUBSET Customer
    /\ made \in [Key -> Ticket \cup {Null}]
    /\ shown \in [Customer -> [key : Key, sale : SaleDoc, entered : Payment,
                               notice : BOOLEAN] \cup {Null}]
    /\ conn \in [Request -> Conn]
    /\ sale \in [Key -> SaleDoc \cup {NoSale}]
    /\ shiftOpen \in BOOLEAN
    /\ faults \in 0..MaxFaults
    /\ emptied \in SUBSET Key

\* A customer is charged once.  If the register makes two keys, one after the
\* other, for the same customer and the same lines, then the first one's sale
\* has been reversed: lost answers, retries with another payment, timeouts,
\* reloads and concurrent requests never charge an unchanged ticket twice.
ChargedOnce ==
    \A k \in Key : k + 1 \in Key /\ made[k] # Null /\ made[k + 1] = made[k]
        => Recorded(k) /\ sale[k].status = "VOIDED"

\* The receipt a customer is given is of a recorded sale of the lines on it,
\* with the payment it was recorded with; the notice tells that this is not the
\* payment just entered.
ReceiptIsRecorded ==
    \A c \in Customer : shown[c] # Null =>
        LET receipt == shown[c] IN
        /\ Recorded(receipt.key)
        /\ sale[receipt.key].lines = receipt.sale.lines
        /\ sale[receipt.key].payment = receipt.sale.payment
        /\ receipt.notice <=> receipt.entered # receipt.sale.payment

\* No customer is given the receipt of a sale recorded for an earlier one, even
\* if they buy the same: "An identical next ticket must not replay a sale this
\* one may have recorded before its response was lost" (Sell.vue:1906).  It is
\* met only where no ticket is emptied line by line.
ReceiptIsTheirs ==
    \A c \in Customer : shown[c] # Null => shown[c].sale.for = c

\* The only way to another customer's receipt is an attempt that outlived its
\* ticket, because the ticket was emptied line by line: selling, voiding,
\* editing, reloading, retrying and late answers never lead there, in whatever
\* order they come (sale-submission.ts keyFor, cart.ts clear).
MixedOnlyIfEmptied ==
    \A c \in Customer : shown[c] # Null /\ shown[c].sale.for # c
        => shown[c].key \in emptied

\* A recorded sale is only ever reversed: no request rewrites what another one
\* recorded under its key.
SalesStand ==
    [][\A k \in Key : Recorded(k) =>
         sale'[k] \in {sale[k], [sale[k] EXCEPT !.status = "VOIDED"]}]_vars

\* Why a customer is charged once.  Keys are made in order, and an attempt has
\* the last one made; a sale and a request carry the lines their key was made
\* for; an answer tells what is recorded; and a ticket without an attempt has
\* had none, or one whose sale was reversed.
Last(k) == made[k] # Null /\ \A j \in Key : j > k => made[j] = Null

KeysInOrder ==
    /\ \A j, k \in Key : j < k /\ made[k] # Null => made[j] # Null
    /\ \A k \in Key : made[k] # Null => made[k].for \in come
    /\ basket # Null => basket.for \in come

AttemptIsLast ==
    /\ attempt # Null => Last(attempt.key) /\ made[attempt.key].lines = attempt.lines
    /\ Locked => /\ basket # Null /\ attempt # Null /\ attempt.lines = basket.lines
                 /\ conn[waiting] # Idle => conn[waiting].body.key = attempt.key

SalesAsMade ==
    \A k \in Key : Recorded(k) => made[k] # Null /\ sale[k].lines = made[k].lines

Tells(body, reply) ==
    /\ Recorded(body.key)
    /\ reply.sale.lines = sale[body.key].lines
    /\ reply.sale.payment = sale[body.key].payment
    /\ reply.sale.status # "COMPLETED" => sale[body.key].status = "VOIDED"
    /\ reply.kind = "mismatch" <=> body.payment # reply.sale.payment

RequestsAsMade ==
    \A r \in Request : conn[r] # Idle =>
        /\ made[conn[r].body.key] # Null
        /\ made[conn[r].body.key].lines = conn[r].body.lines
        /\ conn[r].at = "answered" /\ conn[r].reply # Refusal
             => Tells(conn[r].body, conn[r].reply)

NewKeyNeeded ==
    \A k \in Key : Last(k) /\ attempt = Null /\ basket # Null /\ made[k].for = basket.for
        => Recorded(k) /\ sale[k].status = "VOIDED"

\* The inductive invariant of the checkout.
Invariant ==
    /\ TypeOK
    /\ KeysInOrder
    /\ AttemptIsLast
    /\ SalesAsMade
    /\ RequestsAsMade
    /\ NewKeyNeeded
    /\ ChargedOnce
    /\ ReceiptIsRecorded

\* Unless its ticket was emptied line by line, an attempt is the customer's
\* own, and so are the requests and the sales under its key.
Theirs ==
    /\ attempt # Null /\ attempt.key \notin emptied
         => basket # Null /\ made[attempt.key].for = basket.for
    /\ \A r \in Request : conn[r] # Idle /\ conn[r].body.key \notin emptied =>
         /\ conn[r].body.for = made[conn[r].body.key].for
         /\ conn[r].at = "answered" /\ conn[r].reply # Refusal
              => conn[r].reply.sale.for = conn[r].body.for
    /\ \A k \in Key : Recorded(k) /\ k \notin emptied => sale[k].for = made[k].for

\* Every checkout ends: the ticket does not stay locked.
Unlocks == Locked ~> ~Locked

\* If a ticket's sale has been recorded, retrying settles it, whether the shift
\* has been closed since or not, unless the cashier edits or ends the ticket.
RetrySettles ==
    \A k \in Key :
        (Recorded(k) /\ attempt # Null /\ attempt.key = k)
          ~> (\/ attempt = Null \/ attempt.key # k
              \/ basket = Null \/ basket.lines # attempt.lines)
=============================================================================
