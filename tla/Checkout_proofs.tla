-------------------------- MODULE Checkout_proofs --------------------------
(***************************************************************************)
(* Proofs about Checkout, for any number of customers, requests, keys and  *)
(* faults.                                                                 *)
(***************************************************************************)
EXTENDS Checkout, TLAPS

\* The empty register satisfies the invariant.
LEMMA InitInvariant == Init => Invariant
<1> SUFFICES ASSUME Init PROVE Invariant
  OBVIOUS
<1> USE CheckoutAssumption DEF Init
<1>1. TypeOK
  BY DEF TypeOK, Conn, NoSale
<1>2. KeysInOrder /\ AttemptIsLast /\ NewKeyNeeded /\ ChargedOnce
  BY DEF KeysInOrder, AttemptIsLast, NewKeyNeeded, ChargedOnce, Last, Locked,
     Key
<1>3. SalesAsMade /\ RequestsAsMade /\ ReceiptIsRecorded
  BY DEF SalesAsMade, RequestsAsMade, ReceiptIsRecorded, Recorded
<1> QED
  BY <1>1, <1>2, <1>3 DEF Invariant

\* Every step keeps the invariant.  Under each action, a step for each part of
\* the invariant that speaks of a variable the action changes.
LEMMA StepInvariant == Invariant /\ [Next]_vars => Invariant'
<1> SUFFICES ASSUME Invariant, [Next]_vars PROVE Invariant'
  OBVIOUS
<1> USE CheckoutAssumption
<1>0. CASE UNCHANGED vars
  BY <1>0 DEF vars, TypeOK, KeysInOrder, AttemptIsLast, SalesAsMade,
     RequestsAsMade, NewKeyNeeded, ChargedOnce, ReceiptIsRecorded, Invariant,
     Last, Recorded, Locked, register, server, Tells
<1>1. ASSUME Scan PROVE Invariant'
  <2>1. TypeOK'
    BY <1>1 DEF Invariant, Scan, TypeOK, Ticket, register, server
  <2>2. KeysInOrder'
    BY <1>1 DEF Invariant, Scan, KeysInOrder, TypeOK, register, server
  <2>3. AttemptIsLast'
    BY <1>1 DEF Invariant, Scan, AttemptIsLast, Last, Locked, register, server
  <2>4. NewKeyNeeded'
    BY <1>1 DEF Invariant, Scan, NewKeyNeeded, Last, Recorded, KeysInOrder,
       TypeOK, register, server
  <2>5. SalesAsMade' /\ RequestsAsMade' /\ ChargedOnce' /\ ReceiptIsRecorded'
    BY <1>1 DEF Invariant, Scan, SalesAsMade, Recorded, RequestsAsMade, Tells,
       ChargedOnce, ReceiptIsRecorded, register, server
  <2> QED
    BY <2>1, <2>2, <2>3, <2>4, <2>5 DEF Invariant
<1>2. ASSUME Edit PROVE Invariant'
  <2>1. TypeOK'
    BY <1>2 DEF Invariant, Edit, EditedLines, TypeOK, Ticket, register, server
  <2>2. KeysInOrder'
    BY <1>2 DEF Invariant, Edit, EditedLines, KeysInOrder, TypeOK, Ticket,
       register, server
  <2>3. AttemptIsLast'
    BY <1>2 DEF Invariant, Edit, EditedLines, AttemptIsLast, Last, Locked,
       register, server
  <2>4. NewKeyNeeded'
    BY <1>2 DEF Invariant, Edit, EditedLines, NewKeyNeeded, Last, Recorded,
       TypeOK, Ticket, register, server
  <2>5. SalesAsMade' /\ RequestsAsMade' /\ ChargedOnce' /\ ReceiptIsRecorded'
    BY <1>2 DEF Invariant, Edit, SalesAsMade, Recorded, RequestsAsMade, Tells,
       ChargedOnce, ReceiptIsRecorded, register, server
  <2> QED
    BY <2>1, <2>2, <2>3, <2>4, <2>5 DEF Invariant
<1>3. ASSUME RemoveLastLine PROVE Invariant'
  <2>1. TypeOK'
    BY <1>3 DEF Invariant, RemoveLastLine, TypeOK, Attempt, register, server
  <2>2. KeysInOrder'
    BY <1>3 DEF Invariant, RemoveLastLine, KeysInOrder, register, server
  <2>3. AttemptIsLast'
    BY <1>3 DEF Invariant, RemoveLastLine, AttemptIsLast, Last, Locked,
       register, server
  <2>4. NewKeyNeeded'
    BY <1>3 DEF Invariant, RemoveLastLine, NewKeyNeeded, Last, Recorded,
       register, server
  <2>5. SalesAsMade' /\ RequestsAsMade' /\ ChargedOnce' /\ ReceiptIsRecorded'
    BY <1>3 DEF Invariant, RemoveLastLine, SalesAsMade, Recorded,
       RequestsAsMade, Tells, ChargedOnce, ReceiptIsRecorded, register, server
  <2> QED
    BY <2>1, <2>2, <2>3, <2>4, <2>5 DEF Invariant
<1>4. ASSUME Void PROVE Invariant'
  <2>1. TypeOK'
    BY <1>4 DEF Invariant, Void, AfterVoid, TypeOK, register, server
  <2>2. KeysInOrder'
    BY <1>4 DEF Invariant, Void, AfterVoid, KeysInOrder, register, server
  <2>3. AttemptIsLast'
    BY <1>4 DEF Invariant, Void, AfterVoid, AttemptIsLast, Last, Locked,
       register, server
  <2>4. NewKeyNeeded'
    BY <1>4 DEF Invariant, Void, AfterVoid, NewKeyNeeded, Last, Recorded,
       register, server
  <2>5. SalesAsMade' /\ RequestsAsMade' /\ ChargedOnce' /\ ReceiptIsRecorded'
    BY <1>4 DEF Invariant, Void, SalesAsMade, Recorded, RequestsAsMade, Tells,
       ChargedOnce, ReceiptIsRecorded, register, server
  <2> QED
    BY <2>1, <2>2, <2>3, <2>4, <2>5 DEF Invariant
<1>5. ASSUME Submit PROVE Invariant'
  <2> PICK k \in KeyFor(basket), p \in Payment, r \in Request :
        /\ conn[r] = Idle
        /\ attempt' = [key |-> k, lines |-> basket.lines]
        /\ made' = IF made[k] = Null THEN [made EXCEPT ![k] = basket] ELSE made
        /\ conn' = [conn EXCEPT ![r] =
             At("arrived", [for |-> basket.for, key |-> k,
                            lines |-> basket.lines, payment |-> p])]
        /\ waiting' = r
    BY <1>5 DEF Submit
  <2>1. /\ basket # Null /\ basket \in Ticket
        /\ UNCHANGED << basket, come, shown, server, faults, emptied >>
    BY <1>5 DEF Submit, Invariant, TypeOK
  <2>2. k \in Key /\ (\/ k \in NewKeys
                      \/ Last(k) /\ made[k].lines = basket.lines)
    <3>1. NewKeys \subseteq Key
      BY DEF NewKeys
    <3>2. CASE attempt # Null /\ attempt.lines = basket.lines
      BY <3>2 DEF KeyFor, Invariant, TypeOK, Attempt, AttemptIsLast
    <3>3. CASE ~(attempt # Null /\ attempt.lines = basket.lines)
      BY <3>1, <3>3 DEF KeyFor
    <3> QED
      BY <3>2, <3>3
  <2>3. k \in NewKeys => made' = [made EXCEPT ![k] = basket]
    BY <2>2 DEF NewKeys, Key
  <2>4. ~(k \in NewKeys) => made' = made
    BY <2>2 DEF Last
  <2>5. \A j \in Key : made'[j] = IF k \in NewKeys /\ j = k THEN basket ELSE made[j]
    BY <2>2, <2>3, <2>4 DEF Invariant, TypeOK
  <2>6. k \in NewKeys => \A j \in Key : made[j] = Null <=> j >= k
    BY DEF NewKeys
  <2>7. Last(k)' /\ made'[k].lines = basket.lines
    <3>1. CASE k \in NewKeys
      BY <3>1, <2>1, <2>2, <2>5, <2>6 DEF Last, Key
    <3>2. CASE ~(k \in NewKeys)
      BY <3>2, <2>2, <2>4 DEF Last
    <3> QED
      BY <3>1, <3>2
  <2>8. TypeOK'
    <3>1. made' \in [Key -> Ticket \cup {Null}]
      BY <2>1, <2>2, <2>3, <2>4 DEF Invariant, TypeOK
    <3>2. conn' \in [Request -> Conn]
      BY <2>1, <2>2 DEF Invariant, TypeOK, Conn, At, Body, Ticket
    <3>3. attempt' \in Attempt
      BY <2>1, <2>2 DEF Attempt, Ticket
    <3> QED
      BY <2>1, <3>1, <3>2, <3>3 DEF Invariant, TypeOK, server
  <2>9. KeysInOrder'
    <3>1. CASE k \in NewKeys
      BY <3>1, <2>1, <2>2, <2>5, <2>6 DEF Invariant, KeysInOrder, Key
    <3>2. CASE ~(k \in NewKeys)
      BY <3>2, <2>1, <2>4 DEF Invariant, KeysInOrder
    <3> QED
      BY <3>1, <3>2
  <2>10. AttemptIsLast'
    <3>1. conn'[r].body.key = k
      BY DEF Invariant, TypeOK, At
    <3>2. attempt'.key = k /\ attempt'.lines = basket.lines /\ attempt' # Null
      BY <2>1, <2>2 DEF Attempt, Ticket
    <3> QED
      BY <2>1, <2>7, <3>1, <3>2 DEF AttemptIsLast
  <2>11. SalesAsMade'
    BY <2>1, <2>2, <2>5, <2>6 DEF Invariant, SalesAsMade, Recorded, server, Key
  <2>12. RequestsAsMade'
    <3> SUFFICES ASSUME NEW q \in Request, conn'[q] # Idle
                 PROVE  /\ made'[conn'[q].body.key] # Null
                        /\ made'[conn'[q].body.key].lines = conn'[q].body.lines
                        /\ conn'[q].at = "answered" /\ conn'[q].reply # Refusal
                             => Tells(conn'[q].body, conn'[q].reply)
      BY <2>1 DEF RequestsAsMade, Tells, Recorded, server
    <3>1. CASE q = r
      BY <3>1, <2>7 DEF Invariant, TypeOK, At, Last
    <3>2. CASE q # r
      <4>1. conn'[q] = conn[q] /\ conn[q].body.key \in Key
        BY <3>2 DEF Invariant, TypeOK, Conn, Body, Idle
      <4>2. made[conn[q].body.key] # Null
        BY <4>1 DEF Invariant, RequestsAsMade
      <4>3. made'[conn[q].body.key] = made[conn[q].body.key]
        BY <4>1, <4>2, <2>2, <2>5, <2>6 DEF Key
      <4> QED
        BY <4>1, <4>2, <4>3, <3>2 DEF Invariant, RequestsAsMade
    <3> QED
      BY <3>1, <3>2
  <2>13. NewKeyNeeded'
    BY <2>1, <2>2 DEF NewKeyNeeded, Attempt, Ticket
  <2>14. ChargedOnce'
    <3> SUFFICES ASSUME NEW j \in Key, j + 1 \in Key, made'[j] # Null,
                        made'[j + 1] = made'[j]
                 PROVE  Recorded(j) /\ sale[j].status = "VOIDED"
      BY <2>1 DEF ChargedOnce, Recorded, server
    <3>1. CASE k \in NewKeys /\ j + 1 = k
      <4>1. made'[j] = made[j] /\ made[j] = basket /\ Last(j)
        BY <3>1, <2>5, <2>6 DEF Last, Key
      <4>2. attempt # Null => attempt.key = j
        BY <4>1, <2>1 DEF Invariant, TypeOK, Attempt, AttemptIsLast, Last, Key
      <4>3. attempt = Null
        BY <3>1, <4>1, <4>2, <2>1, <2>6 DEF Invariant, AttemptIsLast, KeyFor, Key
      <4> QED
        BY <4>1, <4>3, <2>1 DEF Invariant, NewKeyNeeded
    <3>2. CASE ~(k \in NewKeys /\ j + 1 = k)
      <4>1. made'[j + 1] = made[j + 1]
        BY <3>2, <2>5
      <4>2. made'[j] = made[j]
        BY <3>2, <2>1, <2>5, <2>6, <4>1 DEF Key
      <4> QED
        BY <4>1, <4>2 DEF Invariant, ChargedOnce
    <3> QED
      BY <3>1, <3>2
  <2>15. ReceiptIsRecorded'
    BY <2>1 DEF Invariant, ReceiptIsRecorded, Recorded, server
  <2> QED
    BY <2>8, <2>9, <2>10, <2>11, <2>12, <2>13, <2>14, <2>15 DEF Invariant
<1>6. ASSUME ReceiveError PROVE Invariant'
  <2>1. TypeOK'
    BY <1>6 DEF Invariant, ReceiveError, TypeOK, Conn, Locked, register, server
  <2>2. AttemptIsLast'
    BY <1>6 DEF Invariant, ReceiveError, AttemptIsLast, Last, Locked, register,
       server
  <2>3. RequestsAsMade'
    BY <1>6 DEF Invariant, ReceiveError, RequestsAsMade, Tells, Recorded,
       TypeOK, Idle, register, server
  <2>4. /\ KeysInOrder'
        /\ SalesAsMade'
        /\ NewKeyNeeded'
        /\ ChargedOnce'
        /\ ReceiptIsRecorded'
    BY <1>6 DEF Invariant, ReceiveError, KeysInOrder, SalesAsMade, Recorded,
       NewKeyNeeded, Last, ChargedOnce, ReceiptIsRecorded, register, server
  <2> QED
    BY <2>1, <2>2, <2>3, <2>4 DEF Invariant
<1>7. ASSUME ReceiveReceipt PROVE Invariant'
  <2>1. TypeOK'
    BY <1>7 DEF Invariant, ReceiveReceipt, TypeOK, Conn, Replies, Locked,
       Ticket, Refusal, Body, register, server, SaleDoc, Idle, AttemptIsLast,
       NoSale, RequestsAsMade, Tells
  <2>2. KeysInOrder'
    BY <1>7 DEF Invariant, ReceiveReceipt, KeysInOrder, register, server
  <2>3. AttemptIsLast'
    BY <1>7 DEF Invariant, ReceiveReceipt, AttemptIsLast, Last, Locked,
       register, server
  <2>4. RequestsAsMade'
    BY <1>7 DEF Invariant, ReceiveReceipt, RequestsAsMade, Tells, Recorded,
       TypeOK, Idle, register, server
  <2>5. NewKeyNeeded'
    BY <1>7 DEF Invariant, ReceiveReceipt, NewKeyNeeded, Last, Recorded,
       register, server
  <2>6. ReceiptIsRecorded'
    <3> DEFINE body == conn[waiting].body
               reply == conn[waiting].reply
               receipt == [key |-> body.key, sale |-> reply.sale,
                           entered |-> body.payment,
                           notice |-> reply.kind = "mismatch"]
    <3>1. Tells(body, reply)
      BY <1>7 DEF Invariant, ReceiveReceipt, RequestsAsMade, TypeOK, Locked,
         Idle
    <3>2. shown' = [shown EXCEPT ![basket.for] = receipt] /\ UNCHANGED sale
      BY <1>7 DEF ReceiveReceipt, server
    <3>3. \A c \in Customer : shown'[c] = shown[c] \/ shown'[c] = receipt
      BY <3>2 DEF Invariant, TypeOK
    <3> DEFINE Good(r) == /\ Recorded(r.key)
                          /\ sale[r.key].lines = r.sale.lines
                          /\ sale[r.key].payment = r.sale.payment
                          /\ r.notice <=> r.entered # r.sale.payment
    <3>4. Good(receipt)
      BY <3>1 DEF Tells
    <3>5. \A c \in Customer : shown[c] # Null => Good(shown[c])
      BY DEF Invariant, ReceiptIsRecorded
    <3>6. \A c \in Customer : shown'[c] # Null => Good(shown'[c])
      <4> HIDE DEF Good, receipt
      <4> QED
        BY <3>3, <3>4, <3>5
    <3> QED
      BY <3>2, <3>6 DEF ReceiptIsRecorded, Recorded
  <2>7. SalesAsMade' /\ ChargedOnce'
    BY <1>7 DEF Invariant, ReceiveReceipt, SalesAsMade, Recorded, ChargedOnce,
       register, server
  <2> QED
    BY <2>1, <2>2, <2>3, <2>4, <2>5, <2>6, <2>7 DEF Invariant
<1>8. ASSUME ReceiveReversed PROVE Invariant'
  <2>1. TypeOK'
    BY <1>8 DEF Invariant, ReceiveReversed, TypeOK, Conn, Locked, register,
       server
  <2>2. AttemptIsLast'
    BY <1>8 DEF Invariant, ReceiveReversed, AttemptIsLast, Last, Locked,
       register, server
  <2>3. RequestsAsMade'
    BY <1>8 DEF Invariant, ReceiveReversed, RequestsAsMade, Tells, Recorded,
       TypeOK, Idle, register, server
  <2>4. NewKeyNeeded'
    BY <1>8 DEF Invariant, ReceiveReversed, NewKeyNeeded, Last, Recorded,
       TypeOK, Conn, Idle, Locked, AttemptIsLast, RequestsAsMade, Tells, Key,
       register, server, Replies, SaleDoc, Body, Refusal, NoSale
  <2>5. KeysInOrder' /\ SalesAsMade' /\ ChargedOnce' /\ ReceiptIsRecorded'
    BY <1>8 DEF Invariant, ReceiveReversed, KeysInOrder, SalesAsMade, Recorded,
       ChargedOnce, ReceiptIsRecorded, register, server
  <2> QED
    BY <2>1, <2>2, <2>3, <2>4, <2>5 DEF Invariant
<1>9. ASSUME TimeOut PROVE Invariant'
  <2>1. TypeOK'
    BY <1>9 DEF Invariant, TimeOut, TypeOK, register, server
  <2>2. AttemptIsLast'
    BY <1>9 DEF Invariant, TimeOut, AttemptIsLast, Last, Locked, register,
       server
  <2>3. /\ KeysInOrder'
        /\ SalesAsMade'
        /\ RequestsAsMade'
        /\ NewKeyNeeded'
        /\ ChargedOnce'
        /\ ReceiptIsRecorded'
    BY <1>9 DEF Invariant, TimeOut, KeysInOrder, SalesAsMade, Recorded,
       RequestsAsMade, Tells, NewKeyNeeded, Last, ChargedOnce,
       ReceiptIsRecorded, register, server
  <2> QED
    BY <2>1, <2>2, <2>3 DEF Invariant
<1>10. ASSUME GiveUp PROVE Invariant'
  <2>1. TypeOK'
    BY <1>10 DEF Invariant, GiveUp, TypeOK, Fault, register, server
  <2>2. AttemptIsLast'
    BY <1>10 DEF Invariant, GiveUp, AttemptIsLast, Last, Locked, register,
       server
  <2>3. /\ KeysInOrder'
        /\ SalesAsMade'
        /\ RequestsAsMade'
        /\ NewKeyNeeded'
        /\ ChargedOnce'
        /\ ReceiptIsRecorded'
    BY <1>10 DEF Invariant, GiveUp, KeysInOrder, SalesAsMade, Recorded,
       RequestsAsMade, Tells, NewKeyNeeded, Last, ChargedOnce,
       ReceiptIsRecorded, register, server
  <2> QED
    BY <2>1, <2>2, <2>3 DEF Invariant
<1>11. ASSUME NEW r \in Request, LookUp(r) PROVE Invariant'
  <2>1. TypeOK'
    BY <1>11 DEF Invariant, LookUp, TypeOK, Conn, Body, At, Answer, Replayable,
       Replay, Replies, Recorded, register, server, Idle, NoSale, SaleDoc, Key
  <2>2. AttemptIsLast'
    BY <1>11 DEF Invariant, LookUp, AttemptIsLast, Last, Locked, TypeOK, At,
       Answer, Idle, register, server
  <2>3. RequestsAsMade'
    BY <1>11 DEF Invariant, LookUp, RequestsAsMade, Tells, Recorded, TypeOK,
       Conn, Body, At, Answer, Replayable, Replay, Idle, SaleDoc, NoSale,
       SalesAsMade, register, server
  <2>4. /\ KeysInOrder'
        /\ SalesAsMade'
        /\ NewKeyNeeded'
        /\ ChargedOnce'
        /\ ReceiptIsRecorded'
    BY <1>11 DEF Invariant, LookUp, KeysInOrder, SalesAsMade, Recorded,
       NewKeyNeeded, Last, ChargedOnce, ReceiptIsRecorded, register, server
  <2> QED
    BY <2>1, <2>2, <2>3, <2>4 DEF Invariant
<1>12. ASSUME NEW r \in Request, Record(r) PROVE Invariant'
  <2>1. TypeOK'
    BY <1>12 DEF Invariant, Record, TypeOK, Conn, Body, At, Answer, KeyFree,
       Replies, SaleDoc, register, server, Idle, NoSale
  <2>2. AttemptIsLast'
    BY <1>12 DEF Invariant, Record, AttemptIsLast, Last, Locked, TypeOK, At,
       Answer, Idle, register, server
  <2>3. SalesAsMade'
    BY <1>12 DEF Invariant, Record, SalesAsMade, Recorded, TypeOK, Conn, Idle,
       RequestsAsMade, register, server
  <2>4. RequestsAsMade'
    BY <1>12 DEF Invariant, Record, RequestsAsMade, Tells, Recorded, TypeOK,
       Conn, Body, At, Answer, KeyFree, Idle, SaleDoc, NoSale, register, server
  <2>5. NewKeyNeeded'
    BY <1>12 DEF Invariant, Record, NewKeyNeeded, Last, Recorded, TypeOK, Conn,
       Body, Idle, KeyFree, register, server
  <2>6. ChargedOnce'
    BY <1>12 DEF Invariant, Record, ChargedOnce, Recorded, TypeOK, KeyFree,
       register, server
  <2>7. ReceiptIsRecorded'
    BY <1>12 DEF Invariant, Record, ReceiptIsRecorded, Recorded, TypeOK,
       KeyFree, register, server
  <2>8. KeysInOrder'
    BY <1>12 DEF Invariant, Record, KeysInOrder, register, server
  <2> QED
    BY <2>1, <2>2, <2>3, <2>4, <2>5, <2>6, <2>7, <2>8 DEF Invariant
<1>13. ASSUME NEW r \in Request, Fail(r) PROVE Invariant'
  <2>1. TypeOK'
    BY <1>13 DEF Invariant, Fail, TypeOK, Conn, Body, At, register, server,
       Idle
  <2>2. AttemptIsLast'
    BY <1>13 DEF Invariant, Fail, AttemptIsLast, Last, Locked, TypeOK, At,
       Idle, register, server
  <2>3. RequestsAsMade'
    BY <1>13 DEF Invariant, Fail, RequestsAsMade, Tells, Recorded, TypeOK, At,
       Idle, register, server
  <2>4. /\ KeysInOrder'
        /\ SalesAsMade'
        /\ NewKeyNeeded'
        /\ ChargedOnce'
        /\ ReceiptIsRecorded'
    BY <1>13 DEF Invariant, Fail, KeysInOrder, SalesAsMade, Recorded,
       NewKeyNeeded, Last, ChargedOnce, ReceiptIsRecorded, register, server
  <2> QED
    BY <2>1, <2>2, <2>3, <2>4 DEF Invariant
<1>14. ASSUME NEW r \in Request, LookUpAgain(r) PROVE Invariant'
  <2>1. TypeOK'
    BY <1>14 DEF Invariant, LookUpAgain, TypeOK, Conn, Body, At, Answer,
       Replayable, Replay, Replies, Recorded, register, server, Idle, NoSale,
       SaleDoc, Key
  <2>2. AttemptIsLast'
    BY <1>14 DEF Invariant, LookUpAgain, AttemptIsLast, Last, Locked, TypeOK,
       Answer, Idle, register, server
  <2>3. RequestsAsMade'
    BY <1>14 DEF Invariant, LookUpAgain, RequestsAsMade, Tells, Recorded,
       TypeOK, Conn, Body, Answer, Replayable, Replay, Idle, SaleDoc, NoSale,
       SalesAsMade, register, server
  <2>4. /\ KeysInOrder'
        /\ SalesAsMade'
        /\ NewKeyNeeded'
        /\ ChargedOnce'
        /\ ReceiptIsRecorded'
    BY <1>14 DEF Invariant, LookUpAgain, KeysInOrder, SalesAsMade, Recorded,
       NewKeyNeeded, Last, ChargedOnce, ReceiptIsRecorded, register, server
  <2> QED
    BY <2>1, <2>2, <2>3, <2>4 DEF Invariant
<1>15. ASSUME NEW r \in Request, Drop(r) PROVE Invariant'
  <2>1. TypeOK'
    BY <1>15 DEF Invariant, Drop, TypeOK, Conn, register, server
  <2>2. AttemptIsLast'
    BY <1>15 DEF Invariant, Drop, AttemptIsLast, Last, Locked, TypeOK, Idle,
       register, server
  <2>3. RequestsAsMade'
    BY <1>15 DEF Invariant, Drop, RequestsAsMade, Tells, Recorded, TypeOK,
       Idle, register, server
  <2>4. /\ KeysInOrder'
        /\ SalesAsMade'
        /\ NewKeyNeeded'
        /\ ChargedOnce'
        /\ ReceiptIsRecorded'
    BY <1>15 DEF Invariant, Drop, KeysInOrder, SalesAsMade, Recorded,
       NewKeyNeeded, Last, ChargedOnce, ReceiptIsRecorded, register, server
  <2> QED
    BY <2>1, <2>2, <2>3, <2>4 DEF Invariant
<1>16. ASSUME NEW r \in Request, Lose(r) PROVE Invariant'
  <2>1. TypeOK'
    BY <1>16 DEF Invariant, Lose, TypeOK, Conn, Fault, register, server
  <2>2. AttemptIsLast'
    BY <1>16 DEF Invariant, Lose, AttemptIsLast, Last, Locked, TypeOK, Idle,
       register, server
  <2>3. RequestsAsMade'
    BY <1>16 DEF Invariant, Lose, RequestsAsMade, Tells, Recorded, TypeOK,
       Idle, register, server
  <2>4. /\ KeysInOrder'
        /\ SalesAsMade'
        /\ NewKeyNeeded'
        /\ ChargedOnce'
        /\ ReceiptIsRecorded'
    BY <1>16 DEF Invariant, Lose, KeysInOrder, SalesAsMade, Recorded,
       NewKeyNeeded, Last, ChargedOnce, ReceiptIsRecorded, register, server
  <2> QED
    BY <2>1, <2>2, <2>3, <2>4 DEF Invariant
<1>17. ASSUME NEW k \in Key, Reverse(k) PROVE Invariant'
  <2>1. TypeOK'
    BY <1>17 DEF Invariant, Reverse, TypeOK, SaleDoc, NoSale, register, server
  <2>2. SalesAsMade'
    BY <1>17 DEF Invariant, Reverse, SalesAsMade, Recorded, TypeOK, SaleDoc,
       NoSale, register, server
  <2>3. RequestsAsMade'
    BY <1>17 DEF Invariant, Reverse, RequestsAsMade, Tells, Recorded, TypeOK,
       SaleDoc, NoSale, register, server
  <2>4. NewKeyNeeded'
    BY <1>17 DEF Invariant, Reverse, NewKeyNeeded, Last, Recorded, TypeOK,
       SaleDoc, NoSale, register, server
  <2>5. ChargedOnce'
    BY <1>17 DEF Invariant, Reverse, ChargedOnce, Recorded, TypeOK, SaleDoc,
       NoSale, register, server
  <2>6. ReceiptIsRecorded'
    BY <1>17 DEF Invariant, Reverse, ReceiptIsRecorded, Recorded, TypeOK,
       SaleDoc, NoSale, register, server
  <2>7. KeysInOrder' /\ AttemptIsLast'
    BY <1>17 DEF Invariant, Reverse, KeysInOrder, AttemptIsLast, Last, Locked,
       register, server
  <2> QED
    BY <2>1, <2>2, <2>3, <2>4, <2>5, <2>6, <2>7 DEF Invariant
<1>18. ASSUME ToggleShift PROVE Invariant'
  <2>1. TypeOK'
    BY <1>18 DEF Invariant, ToggleShift, TypeOK, register, server
  <2>2. /\ KeysInOrder'
        /\ AttemptIsLast'
        /\ SalesAsMade'
        /\ RequestsAsMade'
        /\ NewKeyNeeded'
        /\ ChargedOnce'
        /\ ReceiptIsRecorded'
    BY <1>18 DEF Invariant, ToggleShift, KeysInOrder, AttemptIsLast, Last,
       Locked, SalesAsMade, Recorded, RequestsAsMade, Tells, NewKeyNeeded,
       ChargedOnce, ReceiptIsRecorded, register, server
  <2> QED
    BY <2>1, <2>2 DEF Invariant
<1> QED
  BY <1>0, <1>1, <1>2, <1>3, <1>4, <1>5, <1>6, <1>7, <1>8, <1>9, <1>10, <1>11,
     <1>12, <1>13, <1>14, <1>15, <1>16, <1>17, <1>18 DEF Next, Receive, Serve

\* The invariant holds in every reachable state.
THEOREM CheckoutInvariant == Spec => []Invariant
<1>1. Init => Invariant
  BY InitInvariant
<1>2. Invariant /\ [Next]_vars => Invariant'
  BY StepInvariant
<1> QED
  BY <1>1, <1>2, PTL DEF Spec

\* Type correctness of the register's and the server's state.
THEOREM CheckoutTypeOK == Spec => []TypeOK
<1>1. Invariant => TypeOK
  BY DEF Invariant
<1> QED
  BY <1>1, CheckoutInvariant, PTL

\* No unchanged ticket is charged twice, whatever is lost, late or retried.
THEOREM NoDoubleCharge == Spec => []ChargedOnce
<1>1. Invariant => ChargedOnce
  BY DEF Invariant
<1> QED
  BY <1>1, CheckoutInvariant, PTL

\* Receipts are of recorded sales, and tell the payment that was recorded.
THEOREM ReceiptsAreTrue == Spec => []ReceiptIsRecorded
<1>1. Invariant => ReceiptIsRecorded
  BY DEF Invariant
<1> QED
  BY <1>1, CheckoutInvariant, PTL

\* No request rewrites a recorded sale.
THEOREM RecordedSalesStand == Spec => SalesStand
<1> DEFINE Kept == \A k \in Key : Recorded(k) =>
                     sale'[k] \in {sale[k], [sale[k] EXCEPT !.status = "VOIDED"]}
<1>1. Invariant /\ [Next]_vars => [Kept]_vars
  <2> SUFFICES ASSUME Invariant, Next PROVE Kept
    BY DEF vars
  <2>1. CASE UNCHANGED sale
    BY <2>1
  <2>2. ASSUME NEW r \in Request, Record(r) PROVE Kept
    BY <2>2 DEF Record, KeyFree, Recorded, Invariant, TypeOK
  <2>3. ASSUME NEW k \in Key, Reverse(k) PROVE Kept
    BY <2>3 DEF Reverse, Invariant, TypeOK
  <2> QED
    BY <2>1, <2>2, <2>3 DEF Next, Receive, Serve, Scan, Edit, RemoveLastLine,
       Void, Submit, ReceiveError, ReceiveReceipt, ReceiveReversed, TimeOut,
       GiveUp, LookUp, Fail, LookUpAgain, Drop, Lose, ToggleShift, server
<1> QED
  BY <1>1, CheckoutInvariant, PTL DEF Spec, SalesStand

\* A customer is given the receipt of another's sale only under a key whose
\* ticket was emptied line by line: whatever is sold, voided, edited, retried,
\* reloaded, lost or late, no other step hands an attempt on.
THEOREM NextTicketIsNew == Spec => []MixedOnlyIfEmptied
<1>1. Init => Theirs /\ MixedOnlyIfEmptied
  BY DEF Init, Theirs, MixedOnlyIfEmptied, Recorded
<1>2. Invariant /\ Theirs /\ [Next]_vars => Theirs'
  <2> SUFFICES ASSUME Invariant, Theirs, [Next]_vars PROVE Theirs'
    OBVIOUS
  <2> USE CheckoutAssumption DEF Invariant
  <2>1. CASE UNCHANGED vars
    BY <2>1 DEF vars, register, server, Theirs, Recorded
  <2>2. CASE Scan
    BY <2>2 DEF Scan, Theirs, Recorded, server
  <2>3. CASE Edit
    <3>1. PICK l \in Lines : basket' = [basket EXCEPT !.lines = l]
      BY <2>3 DEF Edit, EditedLines
    <3>2. basket' # Null /\ basket'.for = basket.for
      BY <2>3, <3>1 DEF Edit, TypeOK, Ticket
    <3> QED
      BY <2>3, <3>2 DEF Edit, Theirs, Recorded, server
  <2>4. CASE Void
    BY <2>4 DEF Void, AfterVoid, Theirs, Recorded, server
  <2>5. CASE Submit
    <3> PICK k \in KeyFor(basket), p \in Payment, r \in Request :
          /\ attempt' = [key |-> k, lines |-> basket.lines]
          /\ made' = IF made[k] = Null THEN [made EXCEPT ![k] = basket] ELSE made
          /\ conn' = [conn EXCEPT ![r] =
               At("arrived", [for |-> basket.for, key |-> k,
                              lines |-> basket.lines, payment |-> p])]
      BY <2>5 DEF Submit
    <3>1. k \in Key /\ (made[k] = Null \/ (attempt # Null /\ k = attempt.key))
      BY DEF KeyFor, NewKeys, TypeOK, Attempt, Key
    <3>2. basket # Null /\ UNCHANGED << basket, sale, emptied >>
      BY <2>5 DEF Submit, server
    <3>3. \A j \in Key : made[j] # Null => made'[j] = made[j]
      BY DEF TypeOK
    <3>4. k \notin emptied => made'[k].for = basket.for
      BY <3>1, <3>2 DEF TypeOK, AttemptIsLast, Last, Theirs
    <3>5. attempt' # Null /\ attempt'.key \notin emptied
            => basket' # Null /\ made'[attempt'.key].for = basket'.for
      BY <3>2, <3>4
    <3>6. ASSUME NEW q \in Request, conn'[q] # Idle, conn'[q].body.key \notin emptied
          PROVE  /\ conn'[q].body.for = made'[conn'[q].body.key].for
                 /\ conn'[q].at = "answered" /\ conn'[q].reply # Refusal
                      => conn'[q].reply.sale.for = conn'[q].body.for
      <4>1. CASE q = r
        BY <4>1, <3>4, <3>6 DEF TypeOK, At
      <4>2. CASE q # r
        <5>1. conn'[q] = conn[q] /\ conn[q].body.key \in Key
          BY <3>6, <4>2 DEF TypeOK, Conn, Body, Idle
        <5> QED
          BY <3>3, <3>6, <5>1 DEF Theirs, RequestsAsMade
      <4> QED
        BY <4>1, <4>2
    <3>7. \A j \in Key : Recorded(j)' /\ j \notin emptied => sale'[j].for = made'[j].for
      BY <3>2, <3>3 DEF Theirs, SalesAsMade, Recorded
    <3> QED
      BY <3>2, <3>5, <3>6, <3>7 DEF Theirs
  <2>6. CASE TimeOut \/ GiveUp
    BY <2>6 DEF TimeOut, GiveUp, Theirs, Recorded, server
  <2>7. CASE Receive
    BY <2>7 DEF Receive, ReceiveError, ReceiveReceipt, ReceiveReversed, Theirs,
       Recorded, server, TypeOK
  <2>8. ASSUME NEW r \in Request, LookUp(r) \/ LookUpAgain(r) PROVE Theirs'
    BY <2>8 DEF LookUp, LookUpAgain, Replayable, Replay, Answer, At, Theirs,
       Recorded, register, server, TypeOK, Conn, Body, Idle, Refusal
  <2>9. ASSUME NEW r \in Request, Record(r) PROVE Theirs'
    BY <2>9 DEF Record, Answer, At, Theirs, Recorded, register, TypeOK, Conn,
       Body, Idle, Refusal
  <2>10. ASSUME NEW r \in Request, Fail(r) \/ Drop(r) \/ Lose(r) PROVE Theirs'
    BY <2>10 DEF Fail, Drop, Lose, At, Theirs, Recorded, register, server,
       TypeOK, Idle
  <2>11. ASSUME NEW k \in Key, Reverse(k) PROVE Theirs'
    BY <2>11 DEF Reverse, Theirs, Recorded, register, TypeOK, SaleDoc, NoSale
  <2>12. CASE ToggleShift
    BY <2>12 DEF ToggleShift, Theirs, Recorded, register
  <2>13. CASE RemoveLastLine
    BY <2>13 DEF RemoveLastLine, Theirs, Recorded, server
  <2> QED
    BY <2>1, <2>2, <2>3, <2>4, <2>5, <2>6, <2>7, <2>8, <2>9, <2>10, <2>11,
       <2>12, <2>13 DEF Next, Serve
<1>3. Invariant /\ Theirs /\ MixedOnlyIfEmptied /\ [Next]_vars => MixedOnlyIfEmptied'
  <2> SUFFICES ASSUME Invariant, Theirs, MixedOnlyIfEmptied, [Next]_vars
               PROVE  MixedOnlyIfEmptied'
    OBVIOUS
  <2>0. emptied \subseteq emptied'
    BY DEF Next, Receive, Serve, Scan, Edit, RemoveLastLine, Void, Submit,
       ReceiveError, ReceiveReceipt, ReceiveReversed, TimeOut, GiveUp, LookUp,
       Record, Fail, LookUpAgain, Drop, Lose, Reverse, ToggleShift, vars
  <2>1. CASE UNCHANGED shown
    BY <2>0, <2>1 DEF MixedOnlyIfEmptied
  <2>2. CASE ReceiveReceipt
    BY <2>2 DEF ReceiveReceipt, MixedOnlyIfEmptied, Theirs, Invariant, TypeOK,
       AttemptIsLast, Locked, Idle
  <2> QED
    BY <2>1, <2>2 DEF Next, Receive, Serve, Scan, Edit, RemoveLastLine, Void,
       Submit, ReceiveError, ReceiveReversed, TimeOut, GiveUp, LookUp, Record,
       Fail, LookUpAgain, Drop, Lose, Reverse, ToggleShift, vars, register
<1> QED
  BY <1>1, <1>2, <1>3, CheckoutInvariant, PTL DEF Spec
=============================================================================
