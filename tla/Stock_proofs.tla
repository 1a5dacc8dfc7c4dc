---------------------------- MODULE Stock_proofs ----------------------------
(***************************************************************************)
(* What interleaved transactions keep of the stock, for any number of      *)
(* products, batches, sales and requests: the lots of a tracked product    *)
(* add up to its stock, every unit of a lot is accounted for, sales are    *)
(* rung up on the terms of the moment and from the lots that expire first, *)
(* record never finds that the ledger does not reconcile, and Stock        *)
(* implements StockBook.                                                   *)
(*                                                                         *)
(* A request decides on a snapshot that may be old.  Every request that    *)
(* moves a product's stock bumps the product's saleVersion, so that what   *)
(* it read of the product, and which lots there are of it, is true when it *)
(* commits (Fresh).  Each such commit is then one movement (Moved): n more *)
(* units of a product, gain[b] of them in batch b, with the gains of a     *)
(* tracked product adding up to n.  MovedKeeps shows once that a movement  *)
(* keeps the invariant, and each operation is shown to be a movement.      *)
(*                                                                         *)
(* What the proofs need of sums over sets is in SetSums.                   *)
(***************************************************************************)
EXTENDS Stock, SetSums

-----------------------------------------------------------------------------
\* The invariant

\* What a request read of a product, of its stock and its lots, and of a sale
\* is true until another request writes it: whoever moves the stock or the lots
\* of a product writes the product.
FreshProduct(t, p) ==
    /\ snap[t].product[p] = product[p] /\ snap[t].inventory[p] = inventory[p]
    /\ \A b \in Batch : snap[t].batch[b].product = p \/ batch[b].product = p =>
                            snap[t].batch[b] = batch[b]
FreshFor(t) ==
    /\ \A p \in Product : << "product", p >> \notin missed[t] => FreshProduct(t, p)
    /\ \A s \in Sale : << "sale", s >> \notin missed[t] => snap[t].sale[s] = sale[s]
Fresh == \A t \in Txn : Running(t) => FreshFor(t)

\* An adjustment has a change for each batch it names, or for none.
Asked(request) ==
    request.op = "adjust" =>
        \E chosen \in SUBSET (Batch \cup {Null}) : request.lines \in [chosen -> Int]

TxnFits ==
    /\ DOMAIN req = Txn /\ DOMAIN snap = Txn /\ DOMAIN missed = Txn
    /\ \A t \in Txn : Running(t) => snap[t].today \in Day /\ Asked(req[t])

InBounds == \A p \in Product : inventory[p].stock \in -MaxStock..MaxStock

\* A batch document is unused, or a lot with an expiry date, or quarantined.
LotFits(b) ==
    IF batch[b].product = Null THEN batch[b] = NoBatch /\ adjusted[b] = 0
    ELSE /\ batch[b].product \in Product
         /\ IF batch[b].quarantined THEN batch[b].expiry = Null
                                    ELSE batch[b].expiry \in Day \ {Null}
LotsFit == \A b \in Batch : LotFits(b)

\* A sale took units of one product, all of them from lots or none.
SaleFits(s) ==
    IF sale[s].status = "NONE" THEN sale[s] = NoSale
    ELSE /\ sale[s].product \in Product /\ sale[s].quantity # 0
         /\ \A b \in Batch : sale[s].alloc[b] # 0 => batch[b].product = sale[s].product
         /\ GaveTo(sale[s].alloc) # {} =>
                SumFunctionOnSet(sale[s].alloc, Batch) = sale[s].quantity
SalesFit == \A s \in Sale : SaleFits(s)

\* Lots belong to products whose expiry dates are tracked.
LotsBelong ==
    \A b \in Batch : batch[b].product # Null =>
        batch[b].product \in Product /\ product[batch[b].product].tracked

\* The ledger's last balance is the stock, in the database and in every
\* snapshot: record never finds "Stock ledger does not reconcile".
LedgerAgrees ==
    /\ LedgerReconciles
    /\ \A t \in Txn : Running(t) => \A p \in Product : Reconciles(snap[t], p)

\* BooksBalance and LotsAccountedFor, in the terms of the proofs below.
Balance(p) ==
    /\ product[p].tracked => Remaining(batch, p) = inventory[p].stock
    /\ inventory[p].stock < 0 => inventory[p].shortfall
Standing == {s \in Sale : sale[s].status = "COMPLETED"}
Out(b) == SumFunctionOnSet([s \in Sale |-> sale[s].alloc[b]], Standing)
Accounted(b) ==
    batch[b].product # Null /\ ~batch[b].quarantined =>
        batch[b].remaining + Out(b) = batch[b].received + adjusted[b]
Balances == (\A p \in Product : Balance(p)) /\ \A b \in Batch : Accounted(b)

Documents ==
    TypeOK /\ InBounds /\ LotsFit /\ SalesFit /\ LotsBelong /\ LedgerReconciles /\ Balances

IInv == Documents /\ TxnFits /\ Fresh /\ LedgerAgrees

\* A register sale takes no more than is there when it is recorded.
SoldWhatIsThere ==
    [][\A s \in Sale : (sale[s].status = "NONE" /\ sale'[s].price # Null) =>
         inventory[sale'[s].product].stock >= sale'[s].quantity]_vars

\* A recorded sale is reversed or stays as it is.
SalesAreFinal ==
    [][\A s \in Sale : sale[s].status # "NONE" =>
         sale'[s] \in {sale[s], [sale[s] EXCEPT !.status = "REVERSED"]}]_vars

-----------------------------------------------------------------------------
\* Transactions

\* What a commit changes, it writes.
Covered(w) ==
    /\ \A p \in Product : << "product", p >> \notin w =>
         /\ product'[p] = product[p] /\ inventory'[p] = inventory[p]
         /\ \A b \in Batch : batch'[b].product = p \/ batch[b].product = p =>
                                 batch'[b] = batch[b]
    /\ \A s \in Sale : << "sale", s >> \notin w => sale'[s] = sale[s]

\* A commit ends its own request and leaves the others their snapshots.
LEMMA OthersRunOn ==
  ASSUME TxnFits, NEW t \in Txn, NEW w, Commit(t, w)
  PROVE  /\ DOMAIN req' = Txn /\ DOMAIN snap' = Txn /\ DOMAIN missed' = Txn
         /\ \A u \in Txn : Running(u)' =>
              /\ u # t /\ Running(u) /\ req'[u] = req[u] /\ snap'[u] = snap[u]
              /\ missed'[u] = missed[u] \cup w
<1>1. /\ req' = [req EXCEPT ![t] = Idle] /\ snap' = [snap EXCEPT ![t] = Idle]
      /\ missed' = [v \in Txn |-> IF v = t \/ ~Running(v) THEN {} ELSE missed[v] \cup w]
  BY Zenon DEF Commit
<1>2. DOMAIN req' = Txn /\ DOMAIN snap' = Txn /\ DOMAIN missed' = Txn
  BY <1>1 DEF TxnFits
<1>3. ASSUME NEW u \in Txn, Running(u)'
      PROVE  u # t /\ Running(u) /\ req'[u] = req[u] /\ snap'[u] = snap[u]
  BY <1>1, <1>3 DEF TxnFits, Running
<1>4. \A u \in Txn : u # t /\ Running(u) => missed'[u] = missed[u] \cup w
  BY <1>1
<1> QED
  BY <1>2, <1>3, <1>4

\* A commit that covers its changes leaves the other requests' snapshots fresh.
LEMMA FreshStep ==
  ASSUME TxnFits, Fresh, NEW t \in Txn, NEW w, Commit(t, w), Covered(w)
  PROVE  Fresh'
<1> SUFFICES ASSUME NEW u \in Txn, Running(u)' PROVE FreshFor(u)'
  BY DEF Fresh
<1>1. Running(u) /\ snap'[u] = snap[u] /\ missed'[u] = missed[u] \cup w
  BY OthersRunOn
<1>2. FreshFor(u)
  BY <1>1 DEF Fresh
<1>3. ASSUME NEW p \in Product, << "product", p >> \notin missed'[u] PROVE FreshProduct(u, p)'
  <2>1. << "product", p >> \notin missed[u] /\ << "product", p >> \notin w
    BY <1>1, <1>3
  <2>2. FreshProduct(u, p)
    BY <1>2, <2>1 DEF FreshFor
  <2>3. /\ product'[p] = product[p] /\ inventory'[p] = inventory[p]
        /\ \A b \in Batch : batch'[b].product = p \/ batch[b].product = p =>
                                batch'[b] = batch[b]
    BY <2>1 DEF Covered
  <2> QED
    BY <1>1, <2>2, <2>3 DEF FreshProduct
<1>4. ASSUME NEW s \in Sale, << "sale", s >> \notin missed'[u]
      PROVE  snap'[u].sale[s] = sale'[s]
  BY <1>1, <1>2, <1>4 DEF FreshFor, Covered
<1> QED
  BY <1>3, <1>4 DEF FreshFor

\* A commit that covers its changes keeps the invariant if it keeps the documents.
LEMMA CommitStep ==
  ASSUME IInv, NEW t \in Txn, NEW w, Commit(t, w), Covered(w), Documents'
  PROVE  IInv'
<1>1. TxnFits'
  <2>1. DOMAIN req' = Txn /\ DOMAIN snap' = Txn /\ DOMAIN missed' = Txn
    BY OthersRunOn DEF IInv
  <2>2. ASSUME NEW u \in Txn, Running(u)' PROVE snap'[u].today \in Day /\ Asked(req'[u])
    <3>1. Running(u) /\ req'[u] = req[u] /\ snap'[u] = snap[u]
      BY <2>2, OthersRunOn DEF IInv
    <3> QED
      BY <3>1 DEF IInv, TxnFits
  <2> QED
    BY <2>1, <2>2 DEF TxnFits
<1>2. ASSUME NEW u \in Txn, Running(u)', NEW p \in Product PROVE Reconciles(snap[u], p)'
  <2>1. Running(u) /\ snap'[u] = snap[u]
    BY <1>2, OthersRunOn DEF IInv
  <2> QED
    BY <2>1 DEF IInv, LedgerAgrees, Reconciles
<1>3. LedgerAgrees'
  BY <1>2 DEF Documents, LedgerAgrees
<1>4. Fresh'
  BY FreshStep DEF IInv
<1> QED
  BY <1>1, <1>3, <1>4 DEF IInv

\* What a commit writes was fresh in its snapshot.
LEMMA ReadFresh ==
  ASSUME IInv, NEW t \in Txn, Running(t), NEW w, Commit(t, w)
  PROVE  /\ \A p \in Product : << "product", p >> \in w => FreshProduct(t, p)
         /\ \A s \in Sale : << "sale", s >> \in w => snap[t].sale[s] = sale[s]
<1>1. missed[t] \cap w = {}
  BY Zenon DEF Commit
<1>2. FreshFor(t)
  BY DEF IInv, Fresh
<1> QED
  BY <1>1, <1>2 DEF FreshFor

LEMMA Written ==
  ASSUME NEW p, NEW lots PROVE << "product", p >> \in StockWrites(p, lots)
  BY DEF StockWrites, ProductLock

-----------------------------------------------------------------------------
\* Requests, snapshots and the calendar

\* The documents stay what they should be while nobody writes them.
LEMMA DocumentsStep ==
  ASSUME Documents, UNCHANGED << documents, adjusted >>, today' \in Day
  PROVE  Documents'
<1>1. UNCHANGED << product, inventory, batch, ledger, sale, adjusted >>
  BY DEF documents
<1>2. TypeOK' /\ InBounds' /\ LotsBelong'
  BY <1>1 DEF Documents, TypeOK, InBounds, LotsBelong
<1>3. LedgerReconciles'
  BY <1>1 DEF Documents, LedgerReconciles, Reconciles, Current
<1>4. LotsFit' /\ SalesFit'
  BY <1>1 DEF Documents, LotsFit, LotFits, SalesFit, SaleFits
<1>5. \A b \in Batch : Out(b)' = Out(b)
  BY Zenon, <1>1 DEF Out, Standing
<1>6. Balances'
  BY <1>1, <1>5 DEF Documents, Balances, Balance, Accounted
<1> QED
  BY <1>2, <1>3, <1>4, <1>6 DEF Documents

\* Beginning a request or running it again takes a fresh snapshot; a request
\* that fails has changed nothing.
LEMMA SnapshotStep ==
  ASSUME IInv, NEW t \in Txn, UNCHANGED << documents, today, adjusted >>,
         DOMAIN req' = Txn, DOMAIN snap' = Txn, DOMAIN missed' = Txn,
         \A u \in Txn \ {t} : req'[u] = req[u] /\ snap'[u] = snap[u] /\ missed'[u] = missed[u],
         Running(t)' => snap'[t] = Current /\ Asked(req'[t])
  PROVE  IInv'
<1>1. UNCHANGED << product, inventory, batch, ledger, sale >>
  BY DEF documents
<1>2. today \in Day /\ today' \in Day
  BY DEF IInv, Documents, TypeOK
<1>3. Documents'
  BY <1>2, DocumentsStep DEF IInv
<1>4. ASSUME NEW u \in Txn, Running(u)'
      PROVE  /\ snap'[u].today \in Day /\ Asked(req'[u])
             /\ FreshFor(u)' /\ \A p \in Product : Reconciles(snap[u], p)'
  <2>1. CASE u = t
    <3>1. /\ snap'[u].product = product' /\ snap'[u].inventory = inventory'
          /\ snap'[u].batch = batch' /\ snap'[u].ledger = ledger' /\ snap'[u].sale = sale'
          /\ snap'[u].today \in Day /\ Asked(req'[u])
      BY <1>1, <1>2, <1>4, <2>1 DEF Current
    <3>2. FreshFor(u)'
      BY <3>1 DEF FreshFor, FreshProduct
    <3>3. \A p \in Product : ledger'[p] \in {Null, inventory'[p].stock}
      BY <1>3 DEF Documents, LedgerReconciles, Reconciles, Current
    <3> QED
      BY <3>1, <3>2, <3>3 DEF Reconciles
  <2>2. CASE u # t
    <3>1. Running(u) /\ req'[u] = req[u] /\ snap'[u] = snap[u] /\ missed'[u] = missed[u]
      BY <1>4, <2>2 DEF Running
    <3>2. snap[u].today \in Day /\ Asked(req[u]) /\ FreshFor(u)
      BY <3>1 DEF IInv, TxnFits, Fresh
    <3>3. FreshFor(u)'
      BY <1>1, <3>1, <3>2 DEF FreshFor, FreshProduct
    <3> QED
      BY <1>1, <3>1, <3>2, <3>3 DEF IInv, LedgerAgrees, Reconciles
  <2> QED
    BY <2>1, <2>2
<1> QED
  BY <1>3, <1>4 DEF IInv, Documents, TxnFits, Fresh, LedgerAgrees

LEMMA ArriveKeeps == ASSUME IInv, NEW t \in Txn, NEW r, Asked(r), Arrive(t, r) PROVE IInv'
<1>1. /\ req' = [req EXCEPT ![t] = r] /\ snap' = [snap EXCEPT ![t] = Current]
      /\ UNCHANGED << missed, documents, today, adjusted >>
  BY Zenon DEF Arrive, Begin
<1>2. DOMAIN req = Txn /\ DOMAIN snap = Txn /\ DOMAIN missed = Txn
  BY DEF IInv, TxnFits
<1>3. /\ DOMAIN req' = Txn /\ DOMAIN snap' = Txn /\ DOMAIN missed' = Txn
      /\ snap'[t] = Current /\ Asked(req'[t])
  BY <1>1, <1>2
<1>4. \A u \in Txn \ {t} : req'[u] = req[u] /\ snap'[u] = snap[u] /\ missed'[u] = missed[u]
  BY <1>1, <1>2
<1>5. UNCHANGED << documents, today, adjusted >>
  BY <1>1
<1> QED
  BY <1>3, <1>4, <1>5, SnapshotStep

\* The requests that arrive are those of the handlers.
LEMMA ArriveAsks ==
  ASSUME StockAssumption, NEW t \in Txn,
         \/ ArriveRestock(t) \/ ArriveSale(t) \/ ArriveReversal(t) \/ ArriveAdjust(t)
         \/ ArriveEdit(t)
  PROVE  \E r : Asked(r) /\ Arrive(t, r)
<1>1. CASE ArriveRestock(t)
  <2>1. PICK p \in Product, n \in Quantity, day \in Day \cup {Null} :
          Arrive(t, AskRestock(p, n, day))
    BY Zenon, <1>1 DEF ArriveRestock
  <2>2. Asked(AskRestock(p, n, day))
    BY DEF Asked, AskRestock
  <2> QED
    BY Zenon, <2>1, <2>2
<1>2. CASE ArriveSale(t)
  <2>1. PICK s \in Sale, p \in Product, n \in Quantity :
          \/ Arrive(t, AskSale(s, p, n))
          \/ \E admin \in BOOLEAN : Arrive(t, AskSync(s, p, n, admin))
    BY Zenon, <1>2 DEF ArriveSale
  <2>2. Asked(AskSale(s, p, n)) /\ \A admin \in BOOLEAN : Asked(AskSync(s, p, n, admin))
    BY DEF Asked, AskSale, AskSync
  <2> QED
    BY Zenon, <2>1, <2>2
<1>3. CASE ArriveReversal(t)
  <2>1. PICK s \in Sale : Arrive(t, AskReversal(s))
    BY Zenon, <1>3 DEF ArriveReversal
  <2>2. Asked(AskReversal(s))
    BY DEF Asked, AskReversal
  <2> QED
    BY Zenon, <2>1, <2>2
<1>4. CASE ArriveAdjust(t)
  <2>1. PICK p \in Product : \E chosen \in SUBSET (BatchesOf(batch, p) \cup {Null}) \ {{}} :
           \E lines \in [chosen -> Quantity \cup {-n : n \in Quantity}] :
             Arrive(t, AskAdjust(p, lines))
    BY Zenon, <1>4 DEF ArriveAdjust
  <2>2. PICK chosen \in SUBSET (BatchesOf(batch, p) \cup {Null}) \ {{}} :
           \E lines \in [chosen -> Quantity \cup {-n : n \in Quantity}] :
             Arrive(t, AskAdjust(p, lines))
    BY Zenon, <2>1
  <2>3. PICK lines \in [chosen -> Quantity \cup {-n : n \in Quantity}] :
             Arrive(t, AskAdjust(p, lines))
    BY Zenon, <2>2
  <2>4. chosen \in SUBSET (Batch \cup {Null}) /\ lines \in [chosen -> Int]
    <3>1. BatchesOf(batch, p) \in SUBSET Batch
      BY DEF BatchesOf
    <3>2. chosen \in SUBSET (Batch \cup {Null})
      BY <3>1
    <3>3. Quantity \cup {-n : n \in Quantity} \subseteq Int
      <4>1. \A n \in Quantity : n \in Int /\ -n \in Int
        BY DEF StockAssumption
      <4> QED
        BY Zenon, <4>1
    <3> QED
      BY <3>2, <3>3
  <2>5. Asked(AskAdjust(p, lines))
    <3>1. AskAdjust(p, lines).lines = lines
      BY DEF AskAdjust
    <3> QED
      BY Zenon, <2>4, <3>1 DEF Asked
  <2> QED
    BY Zenon, <2>3, <2>5
<1>5. CASE ArriveEdit(t)
  <2>1. PICK p \in Product, terms \in ProductDoc : Arrive(t, AskEdit(p, terms))
    BY Zenon, <1>5 DEF ArriveEdit
  <2>2. Asked(AskEdit(p, terms))
    BY DEF Asked, AskEdit
  <2> QED
    BY Zenon, <2>1, <2>2
<1> QED
  BY <1>1, <1>2, <1>3, <1>4, <1>5

LEMMA RerunKeeps == ASSUME IInv, NEW t \in Txn, Rerun(t) PROVE IInv'
<1>1. /\ snap' = [snap EXCEPT ![t] = Current] /\ missed' = [missed EXCEPT ![t] = {}]
      /\ Running(t) /\ UNCHANGED << req, documents, today, adjusted >>
  BY Zenon DEF Rerun, Retry
<1>2. DOMAIN req = Txn /\ DOMAIN snap = Txn /\ DOMAIN missed = Txn /\ Asked(req[t])
  BY <1>1 DEF IInv, TxnFits
<1>3. /\ DOMAIN req' = Txn /\ DOMAIN snap' = Txn /\ DOMAIN missed' = Txn
      /\ snap'[t] = Current /\ Asked(req'[t])
  BY <1>1, <1>2
<1>4. \A u \in Txn \ {t} : req'[u] = req[u] /\ snap'[u] = snap[u] /\ missed'[u] = missed[u]
  BY <1>1, <1>2
<1>5. UNCHANGED << documents, today, adjusted >>
  BY <1>1
<1> QED
  BY <1>3, <1>4, <1>5, SnapshotStep

LEMMA RefuseKeeps == ASSUME IInv, NEW t \in Txn, Refuse(t) PROVE IInv'
<1>1. /\ req' = [req EXCEPT ![t] = Idle] /\ snap' = [snap EXCEPT ![t] = Idle]
      /\ missed' = [missed EXCEPT ![t] = {}] /\ UNCHANGED << documents, today, adjusted >>
  BY Zenon DEF Refuse, Abort
<1>2. DOMAIN req = Txn /\ DOMAIN snap = Txn /\ DOMAIN missed = Txn
  BY DEF IInv, TxnFits
<1>3. DOMAIN req' = Txn /\ DOMAIN snap' = Txn /\ DOMAIN missed' = Txn /\ ~Running(t)'
  BY <1>1, <1>2 DEF Running
<1>4. \A u \in Txn \ {t} : req'[u] = req[u] /\ snap'[u] = snap[u] /\ missed'[u] = missed[u]
  BY <1>1, <1>2
<1>5. UNCHANGED << documents, today, adjusted >>
  BY <1>1
<1> QED
  BY <1>3, <1>4, <1>5, SnapshotStep

LEMMA QuietKeeps ==
  ASSUME IInv, UNCHANGED << documents, adjusted, req, snap, missed >>, today' \in Day PROVE IInv'
<1>1. UNCHANGED << product, inventory, batch, ledger, sale, req, snap, missed >>
  BY DEF documents
<1>2. Documents'
  BY DocumentsStep DEF IInv
<1>3. TxnFits' /\ Fresh'
  BY <1>1 DEF IInv, TxnFits, Fresh, FreshFor, FreshProduct, Running
<1>4. LedgerAgrees'
  BY <1>1, <1>2 DEF IInv, Documents, LedgerAgrees, Reconciles, Running
<1> QED
  BY <1>2, <1>3, <1>4 DEF IInv

-----------------------------------------------------------------------------
\* What every request that moves stock does: n units of product p more in its
\* inventory row, gain[b] more in each batch b, of which new are new.

StockStep(p, n) ==
    /\ inventory' \in [Product -> InventoryDoc] /\ ledger' \in [Product -> Int \cup {Null}]
    /\ \A q \in Product : q # p => inventory'[q] = inventory[q]
    /\ inventory'[p].stock = inventory[p].stock + n
    /\ inventory'[p].stock \in -MaxStock..MaxStock
    /\ \/ /\ n < 0 => inventory[p].stock + n >= 0
          /\ inventory'[p].shortfall = inventory[p].shortfall
       \/ /\ n < 0
          /\ inventory'[p].shortfall = (inventory[p].shortfall \/ inventory[p].stock < -n)
    /\ LedgerReconciles'

NewLot(p, b, n) ==
    /\ batch[b] = NoBatch /\ batch'[b].product = p /\ batch'[b].remaining = n
    /\ IF batch'[b].quarantined THEN batch'[b].expiry = Null
       ELSE batch'[b].expiry \in Day \ {Null} /\ batch'[b].received = n
OldLot(b, n) ==
    /\ batch'[b].product = batch[b].product /\ batch'[b].expiry = batch[b].expiry
    /\ batch'[b].quarantined = batch[b].quarantined
    /\ batch'[b].received = batch[b].received
    /\ batch'[b].remaining = batch[b].remaining + n
    /\ n = 0 => batch'[b] = batch[b]
LotsStep(p, gain, new) ==
    /\ batch' \in [Batch -> BatchDoc] /\ gain \in [Batch -> Int] /\ new \in SUBSET Batch
    /\ \A b \in Batch : batch'[b].remaining < 0 => batch'[b].quarantined
    /\ \A b \in Batch : gain[b] # 0 => batch'[b].product = p
    /\ \A b \in Batch : IF b \in new THEN NewLot(p, b, gain[b]) ELSE OldLot(b, gain[b])

\* What leaves a lot is in a sale that stands, or written off.
UnitsStep(gain, new) ==
    /\ adjusted' \in [Batch -> Int]
    /\ \A b \in Batch : batch[b].product = Null => adjusted'[b] = adjusted[b]
    /\ \A b \in Batch : Out(b)' = Out(b) + (adjusted'[b] - adjusted[b])
                                    - (IF b \in new THEN 0 ELSE gain[b])

SalesStep(w) ==
    /\ sale' \in [Sale -> SaleDoc]
    /\ \A s \in Sale : << "sale", s >> \notin w => sale'[s] = sale[s]
    /\ \A s \in Sale : sale'[s] # sale[s] => SaleFits(s)'

Moved(t, p, n, gain, new, w) ==
    /\ Running(t) /\ Commit(t, w) /\ << "product", p >> \in w
    /\ UNCHANGED << product, today >>
    /\ StockStep(p, n) /\ LotsStep(p, gain, new) /\ UnitsStep(gain, new) /\ SalesStep(w)
    /\ new # {} => product[p].tracked
    /\ product[p].tracked => SumFunctionOnSet(gain, Batch) = n

\* What the lots of a product hold moves by what they gain.
LEMMA RemainingMoves ==
  ASSUME StockAssumption, IInv, NEW p \in Product, NEW gain, NEW new,
         LotsStep(p, gain, new), NEW q \in Product
  PROVE  /\ Remaining(batch, q) \in Int
         /\ q = p => Remaining(batch', q) = Remaining(batch, q) + SumFunctionOnSet(gain, Batch)
         /\ q # p => Remaining(batch', q) = Remaining(batch, q)
<1> DEFINE was == [b \in Batch |-> batch[b].remaining]
           is == [b \in Batch |-> batch'[b].remaining]
           before == [b \in Batch |-> IF batch[b].product = q THEN batch[b].remaining ELSE 0]
           after == [b \in Batch |-> IF batch'[b].product = q THEN batch'[b].remaining ELSE 0]
<1>1. IsFiniteSet(Batch) /\ q # Null
  BY DEF StockAssumption
<1>2. ASSUME NEW b \in Batch
      PROVE  batch[b].remaining \in Int /\ batch'[b].remaining \in Int /\ gain[b] \in Int
  BY DEF IInv, Documents, TypeOK, LotsStep, BatchDoc
<1>3. \A b \in Batch : before[b] \in Int /\ after[b] \in Int
  BY <1>2
<1>4. Remaining(batch, q) = SumFunctionOnSet(before, Batch) /\ Remaining(batch, q) \in Int
  <2>1. /\ BatchesOf(batch, q) \in SUBSET Batch
        /\ \A b \in BatchesOf(batch, q) : before[b] = was[b]
        /\ \A b \in Batch \ BatchesOf(batch, q) : before[b] = 0
    BY DEF BatchesOf
  <2>2. Remaining(batch, q) = SumFunctionOnSet(was, BatchesOf(batch, q))
    BY Zenon DEF Remaining
  <2> HIDE DEF before, was
  <2>3. SumFunctionOnSet(before, Batch) = SumFunctionOnSet(was, BatchesOf(batch, q))
    BY <1>1, <1>3, <2>1, SumPart
  <2>4. SumFunctionOnSet(before, Batch) \in Int
    BY <1>1, <1>3, SumRemove
  <2> QED
    BY <2>2, <2>3, <2>4
<1>5. Remaining(batch', q) = SumFunctionOnSet(after, Batch)
  <2>1. /\ BatchesOf(batch', q) \in SUBSET Batch
        /\ \A b \in BatchesOf(batch', q) : after[b] = is[b]
        /\ \A b \in Batch \ BatchesOf(batch', q) : after[b] = 0
    BY DEF BatchesOf
  <2>2. Remaining(batch', q) = SumFunctionOnSet(is, BatchesOf(batch', q))
    BY Zenon DEF Remaining
  <2> HIDE DEF after, is
  <2>3. SumFunctionOnSet(after, Batch) = SumFunctionOnSet(is, BatchesOf(batch', q))
    BY <1>1, <1>3, <2>1, SumPart
  <2> QED
    BY <2>2, <2>3
<1>6. ASSUME q = p PROVE Remaining(batch', q) = Remaining(batch, q) + SumFunctionOnSet(gain, Batch)
  <2>1. ASSUME NEW b \in Batch PROVE after[b] = before[b] + gain[b]
    <3>1. gain[b] # 0 => batch'[b].product = p
      BY DEF LotsStep
    <3>2. CASE b \in new
      <4>1. batch[b].product = Null /\ batch'[b].product = p /\ batch'[b].remaining = gain[b]
        BY <3>2 DEF LotsStep, NewLot, NoBatch
      <4> QED
        BY <1>1, <1>2, <1>6, <4>1
    <3>3. CASE b \notin new
      <4>1. /\ batch'[b].product = batch[b].product
            /\ batch'[b].remaining = batch[b].remaining + gain[b]
        BY <3>3 DEF LotsStep, OldLot
      <4> QED
        BY <1>2, <1>6, <3>1, <4>1
    <3> QED
      BY <3>2, <3>3
  <2>2. \A b \in Batch : /\ before[b] \in Int /\ gain[b] \in Int
                         /\ after[b] = before[b] + gain[b]
    BY <1>2, <1>3, <2>1
  <2> HIDE DEF before, after
  <2>3. SumFunctionOnSet(after, Batch)
          = SumFunctionOnSet(before, Batch) + SumFunctionOnSet(gain, Batch)
    BY <1>1, <2>2, SumAdd
  <2> QED
    BY <1>4, <1>5, <2>3
<1>7. ASSUME q # p PROVE Remaining(batch', q) = Remaining(batch, q)
  <2>1. ASSUME NEW b \in Batch PROVE after[b] = before[b]
    <3>1. CASE b \in new
      <4>1. batch[b].product = Null /\ batch'[b].product = p
        BY <3>1 DEF LotsStep, NewLot, NoBatch
      <4> QED
        BY <1>1, <1>7, <4>1
    <3>2. CASE b \notin new
      <4>1. /\ batch'[b].product = batch[b].product
            /\ batch'[b].remaining = batch[b].remaining + gain[b]
            /\ gain[b] # 0 => batch'[b].product = p
        BY <3>2 DEF LotsStep, OldLot
      <4> QED
        BY <1>2, <1>7, <4>1
    <3> QED
      BY <3>1, <3>2
  <2>2. Batch \in SUBSET Batch /\ \A b \in Batch \ Batch : after[b] = 0
    OBVIOUS
  <2> HIDE DEF before, after
  <2>3. SumFunctionOnSet(after, Batch) = SumFunctionOnSet(before, Batch)
    BY <1>1, <1>3, <2>1, <2>2, SumPart
  <2> QED
    BY <1>4, <1>5, <2>3
<1> QED
  BY <1>4, <1>6, <1>7

\* What stands of a lot is a number, and none of an unused document.
LEMMA OutFits ==
  ASSUME StockAssumption, IInv, NEW b \in Batch
  PROVE  Out(b) \in Int /\ (batch[b].product = Null => Out(b) = 0)
<1> DEFINE f == [s \in Sale |-> sale[s].alloc[b]]
<1>1. Standing \in SUBSET Sale /\ IsFiniteSet(Standing)
  BY FS_Subset DEF Standing, StockAssumption
<1>2. \A s \in Standing : f[s] \in Int
  <2> SUFFICES ASSUME NEW s \in Sale PROVE f[s] \in Int
    BY <1>1
  <2>1. sale[s] \in SaleDoc
    BY DEF IInv, Documents, TypeOK
  <2> QED
    BY <2>1 DEF SaleDoc
<1>3. batch[b].product = Null => \A s \in Standing : f[s] = 0
  <2> SUFFICES ASSUME batch[b].product = Null, NEW s \in Standing PROVE sale[s].alloc[b] = 0
    BY <1>1
  <2>1. SaleFits(s) /\ sale[s].status = "COMPLETED" /\ Null \notin Product
    BY <1>1 DEF IInv, Documents, SalesFit, Standing, StockAssumption
  <2> QED
    BY <2>1 DEF SaleFits
<1>4. Out(b) = SumFunctionOnSet(f, Standing)
  BY Zenon DEF Out
<1> HIDE DEF f
<1>5. SumFunctionOnSet(f, Standing) \in Int
  BY <1>1, <1>2, SumRemove
<1>6. batch[b].product = Null => SumFunctionOnSet(f, Standing) = 0
  BY <1>1, <1>3, SumZero
<1> QED
  BY <1>4, <1>5, <1>6

\* A request that moved a product's stock kept the documents, and wrote what it
\* changed.
LEMMA MovedKeeps ==
  ASSUME StockAssumption, IInv, NEW t \in Txn, NEW p \in Product, NEW n \in Int,
         NEW gain, NEW new, NEW w, Moved(t, p, n, gain, new, w)
  PROVE  IInv'
<1>1. /\ Commit(t, w) /\ << "product", p >> \in w /\ UNCHANGED << product, today >>
      /\ StockStep(p, n) /\ LotsStep(p, gain, new) /\ UnitsStep(gain, new) /\ SalesStep(w)
      /\ new # {} => product[p].tracked
      /\ product[p].tracked => SumFunctionOnSet(gain, Batch) = n
  BY Zenon DEF Moved
<1>2. Documents /\ Null \notin Product
  BY DEF IInv, StockAssumption
<1>3. \A b \in Batch : b \in new => NewLot(p, b, gain[b])
  BY Zenon, <1>1 DEF LotsStep
<1>4. \A b \in Batch : b \notin new => OldLot(b, gain[b])
  BY Zenon, <1>1 DEF LotsStep
<1>5. Covered(w)
  <2>1. ASSUME NEW q \in Product, << "product", q >> \notin w
        PROVE  /\ inventory'[q] = inventory[q]
               /\ \A b \in Batch : batch'[b].product = q \/ batch[b].product = q =>
                                       batch'[b] = batch[b]
    <3>1. q # p
      BY <1>1, <2>1
    <3>2. ASSUME NEW b \in Batch, batch'[b].product = q \/ batch[b].product = q
          PROVE  batch'[b] = batch[b]
      <4>1. b \notin new
        BY <1>2, <1>3, <3>1, <3>2 DEF NewLot, NoBatch
      <4>2. OldLot(b, gain[b]) /\ (gain[b] # 0 => batch'[b].product = p)
        BY <1>1, <1>4, <4>1 DEF LotsStep
      <4> QED
        BY <3>1, <3>2, <4>2 DEF OldLot
    <3> QED
      BY <1>1, <3>1, <3>2 DEF StockStep
  <2> QED
    BY <1>1, <2>1 DEF Covered, SalesStep
<1>6. TypeOK' /\ InBounds' /\ LedgerReconciles'
  <2>1. TypeOK'
    BY <1>1, <1>2 DEF Documents, TypeOK, StockStep, LotsStep, UnitsStep, SalesStep
  <2>2. InBounds'
    BY <1>1, <1>2 DEF Documents, InBounds, StockStep
  <2> QED
    BY <1>1, <2>1, <2>2 DEF StockStep
<1>7. LotsFit' /\ LotsBelong'
  <2> SUFFICES ASSUME NEW b \in Batch
               PROVE  /\ LotFits(b)'
                      /\ batch'[b].product # Null =>
                           batch'[b].product \in Product /\ product[batch'[b].product].tracked
    BY <1>1 DEF LotsFit, LotsBelong
  <2>1. CASE b \in new
    <3>1. NewLot(p, b, gain[b]) /\ product[p].tracked
      BY <1>1, <1>3, <2>1
    <3> QED
      BY <1>2, <3>1 DEF NewLot, LotFits
  <2>2. CASE b \notin new
    <3>1. OldLot(b, gain[b]) /\ LotFits(b) /\ (gain[b] # 0 => batch'[b].product = p)
      BY <1>1, <1>2, <1>4, <2>2 DEF LotsStep, Documents, LotsFit
    <3>2. CASE batch[b].product = Null
      <4>1. batch'[b] = batch[b] /\ adjusted'[b] = adjusted[b]
        BY <1>1, <1>2, <3>1, <3>2 DEF OldLot, UnitsStep
      <4> QED
        BY <3>1, <3>2, <4>1 DEF LotFits
    <3>3. CASE batch[b].product # Null
      <4>1. product[batch[b].product].tracked
        BY <1>2, <3>3 DEF Documents, LotsBelong
      <4> QED
        BY <3>1, <3>3, <4>1 DEF LotFits, OldLot
    <3> QED
      BY <3>2, <3>3
  <2> QED
    BY <2>1, <2>2
<1>8. SalesFit'
  <2> SUFFICES ASSUME NEW s \in Sale, sale'[s] = sale[s] PROVE SaleFits(s)'
    BY <1>1 DEF SalesFit, SalesStep
  <2>1. SaleFits(s)
    BY <1>2 DEF Documents, SalesFit
  <2>2. ASSUME sale[s].status # "NONE", NEW b \in Batch, sale[s].alloc[b] # 0
        PROVE  batch'[b].product = sale[s].product
    <3>1. batch[b].product = sale[s].product /\ sale[s].product \in Product
      BY <2>1, <2>2 DEF SaleFits
    <3>2. b \notin new
      BY <1>2, <1>3, <3>1 DEF NewLot, NoBatch
    <3> QED
      BY <1>4, <3>1, <3>2 DEF OldLot
  <2> QED
    BY <2>1, <2>2 DEF SaleFits
<1>9. ASSUME NEW q \in Product PROVE Balance(q)'
  <2>1. /\ inventory[q].stock \in Int /\ inventory'[q].stock \in Int /\ Balance(q)
        /\ inventory[q].shortfall \in BOOLEAN
    BY <1>1, <1>2 DEF Documents, TypeOK, StockStep, InventoryDoc, Balances
  <2>2. CASE q = p
    <3>1. product[p].tracked => Remaining(batch', p) = inventory[p].stock + n
      BY <1>1, <2>1, <2>2, RemainingMoves DEF Balance
    <3>2. /\ inventory'[p].stock = inventory[p].stock + n
          /\ inventory'[p].stock < 0 => inventory'[p].shortfall
      <4>1. CASE /\ n < 0 => inventory[p].stock + n >= 0
                 /\ inventory'[p].shortfall = inventory[p].shortfall
        BY <1>1, <2>1, <2>2, <4>1 DEF StockStep, Balance
      <4>2. CASE /\ n < 0
                 /\ inventory'[p].shortfall = (inventory[p].shortfall \/ inventory[p].stock < -n)
        <5>1. inventory'[p].stock = inventory[p].stock + n
          BY <1>1 DEF StockStep
        <5>2. inventory'[p].stock < 0 => inventory[p].stock < -n
          BY <2>1, <2>2, <5>1
        <5> QED
          BY Zenon, <4>2, <5>1, <5>2
      <4> QED
        BY Zenon, <1>1, <4>1, <4>2 DEF StockStep
    <3> QED
      BY <1>1, <2>2, <3>1, <3>2 DEF Balance
  <2>3. CASE q # p
    <3>1. inventory'[q] = inventory[q] /\ Remaining(batch', q) = Remaining(batch, q)
      BY <1>1, <2>3, RemainingMoves DEF StockStep
    <3> QED
      BY <1>1, <2>1, <3>1 DEF Balance
  <2> QED
    BY <2>2, <2>3
<1>10. ASSUME NEW b \in Batch PROVE Accounted(b)'
  <2>1. /\ batch[b].remaining \in Int /\ batch[b].received \in Int /\ gain[b] \in Int
        /\ adjusted[b] \in Int /\ adjusted'[b] \in Int
    BY <1>1, <1>2 DEF Documents, TypeOK, BatchDoc, LotsStep, UnitsStep
  <2>2. Out(b)' = Out(b) + (adjusted'[b] - adjusted[b]) - (IF b \in new THEN 0 ELSE gain[b])
    BY <1>1 DEF UnitsStep
  <2>3. Accounted(b) /\ LotFits(b)
    BY <1>2 DEF Documents, Balances, LotsFit
  <2>4. Out(b) \in Int /\ (batch[b].product = Null => Out(b) = 0)
    BY OutFits
  <2>5. CASE b \in new
    <3>1. /\ batch[b].product = Null /\ batch'[b].remaining = gain[b]
          /\ ~batch'[b].quarantined => batch'[b].received = gain[b]
      BY <1>3, <2>5 DEF NewLot, NoBatch
    <3>2. adjusted'[b] = 0 /\ adjusted[b] = 0
      BY <1>1, <2>3, <3>1 DEF UnitsStep, LotFits
    <3>3. Out(b)' = 0
      BY <2>2, <2>4, <2>5, <3>1, <3>2
    <3> QED
      BY <2>1, <3>1, <3>2, <3>3 DEF Accounted
  <2>6. CASE b \notin new
    <3>1. OldLot(b, gain[b])
      BY <1>4, <2>6
    <3>2. Out(b)' = Out(b) + (adjusted'[b] - adjusted[b]) - gain[b]
      BY <2>2, <2>6
    <3> QED
      BY <2>1, <2>3, <2>4, <3>1, <3>2 DEF Accounted, OldLot
  <2> QED
    BY <2>5, <2>6
<1> QED
  BY <1>1, <1>5, <1>6, <1>7, <1>8, <1>9, <1>10, CommitStep DEF Documents, Balances

-----------------------------------------------------------------------------
\* Stock rows, lots and sales, one write at a time

LEMMA MoveStep ==
  ASSUME IInv, NEW p \in Product, NEW n \in Int, Move(p, n),
         inventory[p].stock + n \in -MaxStock..MaxStock,
         n < 0 => inventory[p].stock + n >= 0
  PROVE  StockStep(p, n)
<1> DEFINE row == [inventory[p] EXCEPT !.stock = @ + n]
<1>1. /\ inventory \in [Product -> InventoryDoc] /\ ledger \in [Product -> Int \cup {Null}]
      /\ LedgerReconciles
  BY DEF IInv, Documents, TypeOK
<1>2. /\ row \in InventoryDoc /\ row.stock = inventory[p].stock + n
      /\ row.shortfall = inventory[p].shortfall
  BY <1>1 DEF InventoryDoc
<1>3. /\ inventory' = [inventory EXCEPT ![p] = row]
      /\ ledger' = [ledger EXCEPT ![p] = inventory[p].stock + n]
  BY <1>1 DEF Move
<1> HIDE DEF row
<1>4. /\ inventory' \in [Product -> InventoryDoc] /\ inventory'[p] = row
      /\ \A q \in Product : q # p => inventory'[q] = inventory[q]
  BY <1>1, <1>2, <1>3
<1>5. /\ ledger' \in [Product -> Int \cup {Null}] /\ ledger'[p] = inventory[p].stock + n
      /\ \A q \in Product : q # p => ledger'[q] = ledger[q]
  <2>1. inventory[p].stock + n \in Int
    BY <1>1 DEF InventoryDoc
  <2> QED
    BY <1>1, <1>3, <2>1
<1>6. LedgerReconciles'
  BY <1>1, <1>2, <1>4, <1>5 DEF LedgerReconciles, Reconciles, Current
<1> QED
  BY <1>2, <1>4, <1>5, <1>6 DEF StockStep

\* A document, with n more units in it.
LEMMA MoreIn ==
  ASSUME NEW b, batch[b] \in BatchDoc, NEW n \in Int,
         batch'[b] = [batch[b] EXCEPT !.remaining = @ + n]
  PROVE  batch'[b] \in BatchDoc /\ OldLot(b, n)
<1>1. /\ batch'[b] \in BatchDoc
      /\ batch'[b].product = batch[b].product /\ batch'[b].expiry = batch[b].expiry
      /\ batch'[b].quarantined = batch[b].quarantined
      /\ batch'[b].received = batch[b].received
      /\ batch'[b].remaining = batch[b].remaining + n
  BY DEF BatchDoc
<1>2. n = 0 => batch'[b] = batch[b]
  BY DEF BatchDoc
<1> QED
  BY <1>1, <1>2 DEF OldLot

LEMMA LotsChange ==
  ASSUME IInv, NEW p, NEW gain \in [Batch -> Int],
         batch' = [b \in Batch |-> [batch[b] EXCEPT !.remaining = @ + gain[b]]],
         \A b \in Batch : gain[b] # 0 => batch[b].product = p,
         \A b \in Batch : batch[b].remaining + gain[b] < 0 => batch[b].quarantined
  PROVE  LotsStep(p, gain, {})
<1>1. ASSUME NEW b \in Batch PROVE batch'[b] \in BatchDoc /\ OldLot(b, gain[b])
  <2>1. batch'[b] = [batch[b] EXCEPT !.remaining = @ + gain[b]]
    BY Zenon
  <2>2. batch[b] \in BatchDoc /\ gain[b] \in Int
    BY DEF IInv, Documents, TypeOK
  <2> QED
    BY <2>1, <2>2, MoreIn
<1>2. batch' \in [Batch -> BatchDoc]
  <2>1. DOMAIN batch' = Batch /\ batch' = [b \in Batch |-> batch'[b]]
    OBVIOUS
  <2> QED
    BY <1>1, <2>1
<1>3. \A b \in Batch : /\ batch'[b].remaining < 0 => batch'[b].quarantined
                       /\ gain[b] # 0 => batch'[b].product = p
  BY <1>1 DEF OldLot
<1>4. \A b \in Batch : OldLot(b, gain[b])
  BY <1>1
<1> QED
  BY <1>2, <1>3, <1>4 DEF LotsStep

\* The gain of a lot that is added with n units.
Added(new, n) == [b \in Batch |-> IF b \in new THEN n ELSE 0]

LEMMA AddedSum ==
  ASSUME StockAssumption, NEW c \in Batch, NEW n \in Int
  PROVE  SumFunctionOnSet(Added({c}, n), Batch) = n
<1> DEFINE gain == Added({c}, n)
<1>1. /\ gain[c] = n /\ (\A b \in Batch : gain[b] \in Int)
      /\ \A b \in Batch \ {c} : gain[b] = 0
  BY DEF Added
<1> HIDE DEF gain
<1>2. IsFiniteSet(Batch) /\ {c} \in SUBSET Batch
  BY DEF StockAssumption
<1>3. SumFunctionOnSet(gain, Batch) = SumFunctionOnSet(gain, {c})
  BY <1>1, <1>2, SumPart
<1>4. SumFunctionOnSet(gain, {c}) = n
  BY <1>1, SumOne
<1> QED
  BY <1>3, <1>4 DEF gain

LEMMA LotAdded ==
  ASSUME IInv, NEW p \in Product, NEW new \in SUBSET Batch, NEW n \in Int,
         NEW day \in Day \cup {Null}, NEW off \in BOOLEAN, NEW in \in Nat,
         \A b \in new : batch[b] = NoBatch,
         batch' = [b \in Batch |-> IF b \in new
                                   THEN [product |-> p, expiry |-> day, remaining |-> n,
                                         quarantined |-> off, received |-> in]
                                   ELSE batch[b]],
         n < 0 => off,
         IF off THEN day = Null ELSE day # Null /\ in = n
  PROVE  LotsStep(p, Added(new, n), new)
<1> DEFINE gain == Added(new, n)
           doc == [product |-> p, expiry |-> day, remaining |-> n,
                   quarantined |-> off, received |-> in]
<1>1. /\ gain \in [Batch -> Int] /\ (\A b \in Batch : b \in new => gain[b] = n)
      /\ \A b \in Batch : b \notin new => gain[b] = 0
  BY DEF Added
<1>2. /\ doc \in BatchDoc /\ doc.product = p /\ doc.remaining = n /\ doc.expiry = day
      /\ doc.quarantined = off /\ doc.received = in
  BY DEF BatchDoc
<1>3. /\ batch \in [Batch -> BatchDoc]
      /\ \A b \in Batch : batch[b].remaining < 0 => batch[b].quarantined
  BY DEF IInv, Documents, TypeOK
<1>4. batch' = [b \in Batch |-> IF b \in new THEN doc ELSE batch[b]]
  BY Zenon
<1> HIDE DEF gain, doc
<1>5. batch' \in [Batch -> BatchDoc]
  BY <1>2, <1>3, <1>4
<1>6. ASSUME NEW b \in Batch, b \in new PROVE NewLot(p, b, gain[b])
  <2>1. batch'[b] = doc /\ batch[b] = NoBatch /\ gain[b] = n
    BY <1>1, <1>4, <1>6
  <2>2. IF off THEN day = Null ELSE day \in Day \ {Null} /\ in = n
    OBVIOUS
  <2> QED
    BY <1>2, <2>1, <2>2 DEF NewLot
<1>7. ASSUME NEW b \in Batch, b \notin new PROVE OldLot(b, gain[b])
  <2>1. batch'[b] = batch[b] /\ gain[b] = 0 /\ batch[b] \in BatchDoc
    BY <1>1, <1>3, <1>4, <1>7
  <2> QED
    BY <2>1 DEF OldLot, BatchDoc
<1>8. \A b \in Batch : batch'[b].remaining < 0 => batch'[b].quarantined
  BY <1>2, <1>3, <1>4
<1>9. \A b \in Batch : gain[b] # 0 => batch'[b].product = p
  BY <1>1, <1>2, <1>4
<1>10. LotsStep(p, gain, new)
  BY <1>1, <1>5, <1>6, <1>7, <1>8, <1>9 DEF LotsStep
<1> QED
  BY <1>10 DEF gain

LEMMA NoLotAdded ==
  ASSUME IInv, NEW p, NEW n, batch' = [b \in Batch |-> batch[b]]
  PROVE  LotsStep(p, Added({}, n), {})
<1> DEFINE gain == Added({}, n)
<1>1. gain \in [Batch -> Int] /\ \A b \in Batch : gain[b] = 0
  BY DEF Added
<1> HIDE DEF gain
<1>2. /\ batch \in [Batch -> BatchDoc] /\ batch' = batch
      /\ \A b \in Batch : batch[b].remaining < 0 => batch[b].quarantined
  BY DEF IInv, Documents, TypeOK
<1>3. ASSUME NEW b \in Batch PROVE OldLot(b, gain[b])
  <2>1. batch'[b] = batch[b] /\ gain[b] = 0 /\ batch[b] \in BatchDoc
    BY <1>1, <1>2
  <2> QED
    BY <2>1 DEF OldLot, BatchDoc
<1>4. LotsStep(p, gain, {})
  BY <1>1, <1>2, <1>3 DEF LotsStep
<1> QED
  BY <1>4 DEF gain

\* The sale that gains a standing allocation, or loses it.
LEMMA OutMore ==
  ASSUME StockAssumption, IInv, NEW s \in Sale, sale[s].status # "COMPLETED",
         sale' \in [Sale -> SaleDoc], sale'[s].status = "COMPLETED",
         \A r \in Sale : r # s => sale'[r] = sale[r], NEW b \in Batch
  PROVE  Out(b)' = Out(b) + sale'[s].alloc[b]
<1> DEFINE f == [r \in Sale |-> sale[r].alloc[b]]
           g == [r \in Sale |-> sale'[r].alloc[b]]
           T == Standing'
<1>1. Standing = T \ {s} /\ s \in T /\ T \in SUBSET Sale
  BY DEF Standing
<1>2. IsFiniteSet(T) /\ IsFiniteSet(Standing)
  BY <1>1, FS_Subset DEF StockAssumption
<1>3. \A r \in T : g[r] \in Int
  <2> SUFFICES ASSUME NEW r \in Sale PROVE g[r] \in Int
    BY <1>1
  <2>1. sale'[r] \in SaleDoc
    OBVIOUS
  <2> QED
    BY <2>1 DEF SaleDoc
<1>4. \A r \in Standing : g[r] = f[r]
  BY <1>1
<1>5. Out(b) = SumFunctionOnSet(f, Standing) /\ Out(b)' = SumFunctionOnSet(g, T)
  BY Zenon DEF Out
<1>6. g[s] = sale'[s].alloc[b]
  OBVIOUS
<1> HIDE DEF f, g, T
<1>7. SumFunctionOnSet(g, T) = g[s] + SumFunctionOnSet(g, T \ {s})
  BY <1>1, <1>2, <1>3, SumRemove
<1>8. SumFunctionOnSet(g, Standing) = SumFunctionOnSet(f, Standing)
  <2>1. /\ Standing \in SUBSET Standing /\ (\A r \in Standing : g[r] \in Int)
        /\ \A r \in Standing \ Standing : g[r] = 0
    BY <1>1, <1>3
  <2> QED
    BY <1>2, <1>4, <2>1, SumPart
<1>9. SumFunctionOnSet(g, Standing) \in Int /\ g[s] \in Int
  BY <1>1, <1>2, <1>3, SumRemove
<1> QED
  BY <1>1, <1>5, <1>6, <1>7, <1>8, <1>9

LEMMA OutLess ==
  ASSUME StockAssumption, IInv, NEW s \in Sale, sale[s].status = "COMPLETED",
         sale' \in [Sale -> SaleDoc], sale'[s].status # "COMPLETED",
         \A r \in Sale : r # s => sale'[r] = sale[r], NEW b \in Batch
  PROVE  Out(b)' = Out(b) - sale[s].alloc[b]
<1> DEFINE f == [r \in Sale |-> sale[r].alloc[b]]
           g == [r \in Sale |-> sale'[r].alloc[b]]
           T == Standing'
<1>1. T = Standing \ {s} /\ s \in Standing /\ Standing \in SUBSET Sale
  BY DEF Standing
<1>2. IsFiniteSet(T) /\ IsFiniteSet(Standing)
  BY <1>1, FS_Subset DEF StockAssumption
<1>3. \A r \in Standing : f[r] \in Int
  <2> SUFFICES ASSUME NEW r \in Sale PROVE f[r] \in Int
    BY <1>1
  <2>1. sale[r] \in SaleDoc
    BY DEF IInv, Documents, TypeOK
  <2> QED
    BY <2>1 DEF SaleDoc
<1>4. \A r \in T : g[r] = f[r]
  BY <1>1
<1>5. Out(b) = SumFunctionOnSet(f, Standing) /\ Out(b)' = SumFunctionOnSet(g, T)
  BY Zenon DEF Out
<1>6. f[s] = sale[s].alloc[b]
  OBVIOUS
<1> HIDE DEF f, g, T
<1>7. SumFunctionOnSet(f, Standing) = f[s] + SumFunctionOnSet(f, Standing \ {s})
  BY <1>1, <1>2, <1>3, SumRemove
<1>8. SumFunctionOnSet(g, T) = SumFunctionOnSet(f, T)
  <2>1. /\ T \in SUBSET T /\ (\A r \in T : g[r] \in Int)
        /\ \A r \in T \ T : g[r] = 0
    BY <1>1, <1>3, <1>4
  <2> QED
    BY <1>2, <1>4, <2>1, SumPart
<1>9. SumFunctionOnSet(f, T) \in Int /\ f[s] \in Int
  BY <1>1, <1>2, <1>3, SumRemove
<1> QED
  BY <1>1, <1>5, <1>6, <1>7, <1>8, <1>9

\* A request that touches no sale and corrects no lot.
LEMMA SalesQuiet ==
  ASSUME StockAssumption, IInv, NEW w, NEW new \in SUBSET Batch, NEW n,
         UNCHANGED << sale, adjusted >>
  PROVE  SalesStep(w) /\ UnitsStep(Added(new, n), new)
<1>1. sale \in [Sale -> SaleDoc] /\ adjusted \in [Batch -> Int]
  BY DEF IInv, Documents, TypeOK
<1>2. ASSUME NEW b \in Batch
      PROVE  /\ Out(b)' = Out(b) /\ Out(b) \in Int
             /\ (IF b \in new THEN 0 ELSE Added(new, n)[b]) = 0
  <2>1. Out(b)' = Out(b)
    BY Zenon DEF Out, Standing
  <2> QED
    BY <2>1, OutFits DEF Added
<1>3. UnitsStep(Added(new, n), new)
  BY <1>1, <1>2 DEF UnitsStep
<1> QED
  BY <1>1, <1>3 DEF SalesStep

\* A sale that is rung up.
LEMMA SaleRungUp ==
  ASSUME IInv, NEW s \in Sale, NEW doc \in SaleDoc, sale' = [sale EXCEPT ![s] = doc]
  PROVE  /\ sale' \in [Sale -> SaleDoc] /\ sale'[s] = doc
         /\ \A r \in Sale : r # s => sale'[r] = sale[r]
<1>1. sale \in [Sale -> SaleDoc]
  BY DEF IInv, Documents, TypeOK
<1> QED
  BY <1>1

-----------------------------------------------------------------------------
\* The operations

\* A request may make a new lot where it says so.
LEMMA NewLotsFrom ==
  ASSUME NEW wanted \in BOOLEAN,
         NEW lot \in IF ~wanted THEN {{}} ELSE {{b} : b \in {c \in Batch : batch[c] = NoBatch}}
  PROVE  /\ lot \in SUBSET Batch /\ \A b \in lot : batch[b] = NoBatch
         /\ lot # {} => wanted
         /\ wanted => \E c \in Batch : lot = {c}
<1>1. CASE wanted
  <2>1. lot \in {{b} : b \in {c \in Batch : batch[c] = NoBatch}}
    BY Zenon, <1>1
  <2>2. PICK c \in Batch : batch[c] = NoBatch /\ lot = {c}
    BY Zenon, <2>1
  <2> QED
    BY <1>1, <2>2
<1>2. CASE ~wanted
  <2>1. lot \in {{}}
    BY Zenon, <1>2
  <2> QED
    BY <1>2, <2>1
<1> QED
  BY <1>1, <1>2

LEMMA RestockMoves ==
  ASSUME StockAssumption, IInv, NEW t \in Txn, CommitRestock(t)
  PROVE  \E p \in Product, n \in Int : \E gain, new, w : Moved(t, p, n, gain, new, w)
<1>1. PICK p \in Product, n \in Quantity, day \in Day \cup {Null} :
        /\ req[t] = AskRestock(p, n, day)
        /\ snap[t].product[p].tracked <=> day # Null
        /\ inventory[p].stock + n <= MaxStock
        /\ \E lot \in IF day = Null THEN {{}} ELSE
                {{b} : b \in {c \in Batch : batch[c] = NoBatch}} :
             /\ Commit(t, StockWrites(p, lot))
             /\ batch' = [b \in Batch |-> IF b \in lot THEN Lot(p, day, n) ELSE batch[b]]
        /\ Move(p, n)
        /\ UNCHANGED << product, sale, today, adjusted >>
  BY Zenon DEF CommitRestock
<1> DEFINE dated == day # Null
<1>2. PICK lot \in IF ~dated THEN {{}} ELSE {{b} : b \in {c \in Batch : batch[c] = NoBatch}} :
             /\ Commit(t, StockWrites(p, lot))
             /\ batch' = [b \in Batch |-> IF b \in lot THEN Lot(p, day, n) ELSE batch[b]]
  BY Zenon, <1>1
<1>3. /\ lot \in SUBSET Batch /\ (\A b \in lot : batch[b] = NoBatch)
      /\ lot # {} => dated
      /\ dated => \E c \in Batch : lot = {c}
  <2> HIDE DEF dated
  <2>1. dated \in BOOLEAN
    BY DEF dated
  <2> QED
    BY Zenon, <2>1, NewLotsFrom
<1>4. n \in Nat /\ n # 0 /\ n \in Int
  BY DEF StockAssumption
<1>5. Running(t) /\ << "product", p >> \in StockWrites(p, lot)
  BY <1>1, Written DEF Running, Idle, AskRestock
<1>6. snap[t].product[p] = product[p]
  BY <1>2, <1>5, ReadFresh DEF FreshProduct
<1>7. StockStep(p, n)
  <2>1. inventory[p].stock \in -MaxStock..MaxStock /\ MaxStock \in Nat
    BY DEF IInv, Documents, InBounds, StockAssumption
  <2>2. inventory[p].stock + n \in -MaxStock..MaxStock /\ ~(n < 0)
    BY <1>1, <1>4, <2>1
  <2> QED
    BY <1>1, <1>4, <2>2, MoveStep
<1>8. LotsStep(p, Added(lot, n), lot)
  <2>1. CASE dated
    <3>1. batch' = [b \in Batch |-> IF b \in lot
                                   THEN [product |-> p, expiry |-> day, remaining |-> n,
                                         quarantined |-> FALSE, received |-> n]
                                   ELSE batch[b]]
      BY Zenon, <1>2 DEF Lot
    <3>2. (n < 0 => FALSE) /\ IF FALSE THEN day = Null ELSE day # Null /\ n = n
      BY <1>4, <2>1
    <3> QED
      BY <1>3, <1>4, <3>1, <3>2, LotAdded
  <2>2. CASE ~dated
    <3>1. lot = {}
      BY <1>3, <2>2
    <3>2. batch' = [b \in Batch |-> batch[b]]
      BY <1>2, <3>1
    <3> QED
      BY <1>4, <3>1, <3>2, NoLotAdded
  <2> QED
    BY <2>1, <2>2
<1>9. SalesStep(StockWrites(p, lot)) /\ UnitsStep(Added(lot, n), lot)
  BY <1>1, <1>3, SalesQuiet
<1>10. product[p].tracked => SumFunctionOnSet(Added(lot, n), Batch) = n
  <2>1. product[p].tracked => \E c \in Batch : lot = {c}
    BY <1>1, <1>3, <1>6
  <2> QED
    BY <1>4, <2>1, AddedSum
<1>11. lot # {} => product[p].tracked
  BY <1>1, <1>3, <1>6
<1>12. Moved(t, p, n, Added(lot, n), lot, StockWrites(p, lot))
  BY <1>1, <1>2, <1>5, <1>7, <1>8, <1>9, <1>10, <1>11 DEF Moved
<1> QED
  BY Zenon, <1>4, <1>12

LEMMA MinOfTwo ==
  ASSUME NEW a \in Int, NEW b \in Int PROVE Min({a, b}) = IF a <= b THEN a ELSE b
<1>1. \E x \in {a, b} : \A y \in {a, b} : x =< y
  OBVIOUS
<1>2. Min({a, b}) \in {a, b} /\ \A y \in {a, b} : Min({a, b}) =< y
  BY <1>1 DEF Min
<1> QED
  BY <1>2

\* What a sale takes: no more than there is, and all of a lot before any of
\* one that ranks after it.
TakenInOrder(d, lots, rank, alloc) ==
    /\ alloc \in [Batch -> Nat]
    /\ \A b \in Batch : b \notin lots => alloc[b] = 0
    /\ \A b \in lots : alloc[b] <= d.batch[b].remaining
    /\ \A b, c \in lots : alloc[b] # 0 /\ rank[c] < rank[b] =>
                              alloc[c] = d.batch[c].remaining

LEMMA Consumes ==
  ASSUME NEW d, NEW lots \in SUBSET Batch, IsFiniteSet(lots),
         \A c \in lots : d.batch[c].remaining \in Nat,
         NEW rank, \A c \in lots : rank[c] \in Int,
         NEW n \in Nat, NEW alloc, alloc = Consume(d, lots, rank, n)
  PROVE  TakenInOrder(d, lots, rank, alloc)
<1> DEFINE f == [c \in Batch |-> d.batch[c].remaining]
           First(b) == {c \in lots : rank[c] < rank[b]}
           Before(b) == SumFunctionOnSet(f, First(b))
<1>1. \A c \in lots : f[c] \in Nat /\ f[c] = d.batch[c].remaining
  OBVIOUS
<1>2. \A b \in Batch : alloc[b] = IF b \notin lots THEN 0
                                  ELSE IF Before(b) >= n THEN 0 ELSE Min({f[b], n - Before(b)})
  <2>1. ASSUME NEW b \in Batch
        PROVE  alloc[b] = IF b \notin lots THEN 0 ELSE
                 LET before == SumFunctionOnSet([c \in Batch |-> d.batch[c].remaining],
                                                {c \in lots : rank[c] < rank[b]})
                 IN  IF before >= n THEN 0 ELSE Min({d.batch[b].remaining, n - before})
    BY Zenon DEF Consume
  <2>2. \A b \in Batch : f[b] = d.batch[b].remaining
    OBVIOUS
  <2> QED
    BY Zenon, <2>1, <2>2
<1>3. \A b \in lots : First(b) \in SUBSET lots
  OBVIOUS
<1> HIDE DEF f
<1>4. \A b \in lots : Before(b) \in Nat
  <2> HIDE DEF First
  <2> QED
    BY <1>1, <1>3, SumMore
<1>5. ASSUME NEW b \in lots
      PROVE  alloc[b] = IF Before(b) >= n THEN 0
                        ELSE IF f[b] <= n - Before(b) THEN f[b] ELSE n - Before(b)
  <2>1. Before(b) \in Nat /\ f[b] \in Int /\ n - Before(b) \in Int
    BY <1>1, <1>4
  <2>2. Min({f[b], n - Before(b)}) = IF f[b] <= n - Before(b) THEN f[b] ELSE n - Before(b)
    <3> HIDE DEF Before
    <3> QED
      BY <2>1, MinOfTwo
  <2>3. alloc[b] = IF Before(b) >= n THEN 0 ELSE Min({f[b], n - Before(b)})
    BY <1>2
  <2> HIDE DEF Before
  <2> QED
    BY Zenon, <2>2, <2>3
<1>6. ASSUME NEW b \in lots, NEW c \in lots, rank[c] < rank[b]
      PROVE  Before(c) + f[c] <= Before(b)
  <2> DEFINE U == First(b)
  <2>1. /\ c \in U /\ U \in SUBSET lots /\ U \ {c} \in SUBSET lots
        /\ First(c) \in SUBSET (U \ {c})
    BY <1>6
  <2>2. IsFiniteSet(U) /\ IsFiniteSet(U \ {c})
    BY <2>1, FS_Subset
  <2>3. SumFunctionOnSet(f, U) = f[c] + SumFunctionOnSet(f, U \ {c})
    <3>1. \A x \in U : f[x] \in Int
      BY <1>1, <2>1
    <3> HIDE DEF U
    <3> QED
      BY <2>1, <2>2, <3>1, SumRemove
  <2>4. /\ SumFunctionOnSet(f, First(c)) <= SumFunctionOnSet(f, U \ {c})
    <3>1. \A x \in U \ {c} : f[x] \in Nat
      BY <1>1, <2>1
    <3> HIDE DEF U, First
    <3> QED
      BY <2>1, <2>2, <3>1, SumMore
  <2>5. SumFunctionOnSet(f, U \ {c}) \in Nat /\ Before(c) \in Nat /\ f[c] \in Nat
    <3>1. SumFunctionOnSet(f, U \ {c}) \in Nat
      <4> HIDE DEF U
      <4> QED
        BY <1>1, <2>1, SumMore
    <3> QED
      BY <1>1, <1>4, <3>1
  <2> HIDE DEF First
  <2> QED
    BY <2>3, <2>4, <2>5
<1> HIDE DEF Before, First
<1>7. ASSUME NEW b \in Batch
      PROVE  /\ alloc[b] \in Nat /\ (b \notin lots => alloc[b] = 0)
             /\ b \in lots => alloc[b] <= d.batch[b].remaining
  <2>1. CASE b \in lots
    <3>1. f[b] \in Nat /\ f[b] = d.batch[b].remaining /\ Before(b) \in Nat /\ n \in Nat
      BY <1>1, <1>4, <2>1
    <3>2. alloc[b] = IF Before(b) >= n THEN 0
                     ELSE IF f[b] <= n - Before(b) THEN f[b] ELSE n - Before(b)
      BY <1>5, <2>1
    <3>3. alloc[b] \in Nat /\ alloc[b] <= f[b]
      BY <3>1, <3>2
    <3> QED
      BY <2>1, <3>1, <3>3
  <2>2. CASE b \notin lots
    <3>1. alloc[b] = 0
      BY Zenon, <1>2, <2>2
    <3> QED
      BY <2>2, <3>1
  <2> QED
    BY <2>1, <2>2
<1>8. ASSUME NEW b \in lots, NEW c \in lots, alloc[b] # 0, rank[c] < rank[b]
      PROVE  alloc[c] = d.batch[c].remaining
  <2>1. Before(c) + f[c] <= Before(b) /\ Before(b) \in Nat /\ Before(c) \in Nat
    BY <1>4, <1>6, <1>8
  <2>2. ~(Before(b) >= n)
    BY <1>5, <1>8
  <2>3. f[c] = d.batch[c].remaining /\ f[c] \in Nat
    BY <1>1
  <2>4. ~(Before(c) >= n) /\ f[c] <= n - Before(c)
    BY <2>1, <2>2, <2>3
  <2> QED
    BY <1>5, <2>3, <2>4
<1>9. alloc \in [Batch -> Nat]
  <2>1. DOMAIN alloc = Batch /\ alloc = [b \in Batch |-> alloc[b]]
    BY DEF Consume
  <2> QED
    BY <1>7, <2>1
<1> QED
  BY <1>7, <1>8, <1>9 DEF TakenInOrder

\* What a sale at the register does, from what it read.
Allocated(d, p, n, alloc) ==
    IF d.product[p].tracked
    THEN /\ SumFunction(alloc) = n
         /\ \E rank \in Order(d, Sellable(d, p)) : alloc = Consume(d, Sellable(d, p), rank, n)
    ELSE alloc = Nothing

SoldFrom(t, s, p, n, alloc) ==
    /\ req[t] = AskSale(s, p, n)
    /\ snap[t].sale[s].status = "NONE" /\ snap[t].product[p].active
    /\ snap[t].inventory[p].stock >= n
    /\ Allocated(snap[t], p, n, alloc)
    /\ Commit(t, StockWrites(p, GaveTo(alloc)) \cup {<< "sale", s >>})
    /\ batch' = Batches([b \in Batch |-> -alloc[b]])
    /\ sale' = [sale EXCEPT ![s] =
           [status |-> "COMPLETED", product |-> p, quantity |-> n,
            price |-> snap[t].product[p].price, alloc |-> alloc]]
    /\ Move(p, -n) /\ UNCHANGED << product, today, adjusted >>

LEMMA SellFrom ==
  ASSUME NEW t \in Txn, CommitSell(t)
  PROVE  \E s \in Sale, p \in Product, n \in Quantity : \E alloc : SoldFrom(t, s, p, n, alloc)
<1>1. PICK s \in Sale, p \in Product, n \in Quantity :
        /\ req[t] = AskSale(s, p, n)
        /\ snap[t].sale[s].status = "NONE" /\ snap[t].product[p].active
        /\ Enough(snap[t], p, n)
        /\ \E alloc \in IF ~snap[t].product[p].tracked THEN {Nothing}
                        ELSE {Consume(snap[t], Sellable(snap[t], p), rank, n) :
                                rank \in Order(snap[t], Sellable(snap[t], p))} :
             /\ snap[t].product[p].tracked => SumFunction(alloc) = n
             /\ Commit(t, StockWrites(p, GaveTo(alloc)) \cup {<< "sale", s >>})
             /\ batch' = Batches([b \in Batch |-> -alloc[b]])
             /\ sale' = [sale EXCEPT ![s] =
                    [status |-> "COMPLETED", product |-> p, quantity |-> n,
                     price |-> snap[t].product[p].price, alloc |-> alloc]]
        /\ Move(p, -n) /\ UNCHANGED << product, today, adjusted >>
  BY Zenon DEF CommitSell
<1>2. PICK alloc \in IF ~snap[t].product[p].tracked THEN {Nothing}
                     ELSE {Consume(snap[t], Sellable(snap[t], p), rank, n) :
                             rank \in Order(snap[t], Sellable(snap[t], p))} :
             /\ snap[t].product[p].tracked => SumFunction(alloc) = n
             /\ Commit(t, StockWrites(p, GaveTo(alloc)) \cup {<< "sale", s >>})
             /\ batch' = Batches([b \in Batch |-> -alloc[b]])
             /\ sale' = [sale EXCEPT ![s] =
                    [status |-> "COMPLETED", product |-> p, quantity |-> n,
                     price |-> snap[t].product[p].price, alloc |-> alloc]]
  BY Zenon, <1>1
<1>3. Allocated(snap[t], p, n, alloc)
  <2>1. CASE snap[t].product[p].tracked
    <3>1. alloc \in {Consume(snap[t], Sellable(snap[t], p), rank, n) :
                             rank \in Order(snap[t], Sellable(snap[t], p))}
      BY Zenon, <1>2, <2>1
    <3> QED
      BY Zenon, <1>2, <2>1, <3>1 DEF Allocated
  <2>2. CASE ~snap[t].product[p].tracked
    <3>1. alloc \in {Nothing}
      BY Zenon, <1>2, <2>2
    <3> QED
      BY Zenon, <2>2, <3>1 DEF Allocated
  <2> QED
    BY Zenon, <2>1, <2>2
<1>4. snap[t].inventory[p].stock >= n
  BY Zenon, <1>1 DEF Enough
<1>5. SoldFrom(t, s, p, n, alloc)
  BY Zenon, <1>1, <1>2, <1>3, <1>4 DEF SoldFrom
<1> QED
  BY Zenon, <1>5

\* What a register sale was rung up on is what the product, its stock and its
\* lots are when it is recorded.
SoldNow(t, s, p, n, alloc) ==
    /\ Running(t) /\ FreshProduct(t, p) /\ sale[s].status = "NONE"
    /\ product[p].active /\ inventory[p].stock >= n
    /\ IF product[p].tracked THEN SumFunction(alloc) = n ELSE alloc = Nothing
    /\ sale' = [sale EXCEPT ![s] =
           [status |-> "COMPLETED", product |-> p, quantity |-> n,
            price |-> product[p].price, alloc |-> alloc]]

LEMMA SoldFresh ==
  ASSUME StockAssumption, IInv, NEW t \in Txn, NEW s \in Sale, NEW p \in Product,
         NEW n \in Quantity, NEW alloc, SoldFrom(t, s, p, n, alloc)
  PROVE  SoldNow(t, s, p, n, alloc)
<1> DEFINE w == StockWrites(p, GaveTo(alloc)) \cup {<< "sale", s >>}
<1>1. /\ req[t] = AskSale(s, p, n) /\ Commit(t, w) /\ snap[t].sale[s].status = "NONE"
      /\ snap[t].product[p].active /\ snap[t].inventory[p].stock >= n
      /\ Allocated(snap[t], p, n, alloc)
      /\ sale' = [sale EXCEPT ![s] =
           [status |-> "COMPLETED", product |-> p, quantity |-> n,
            price |-> snap[t].product[p].price, alloc |-> alloc]]
  BY Zenon DEF SoldFrom
<1>2. Running(t) /\ << "product", p >> \in w /\ << "sale", s >> \in w
  BY <1>1, Written DEF Running, Idle, AskSale
<1> HIDE DEF w
<1>3. FreshProduct(t, p) /\ snap[t].sale[s] = sale[s]
  BY <1>1, <1>2, ReadFresh
<1>4. snap[t].product[p] = product[p] /\ snap[t].inventory[p] = inventory[p]
  BY Zenon, <1>3 DEF FreshProduct
<1>5. IF product[p].tracked THEN SumFunction(alloc) = n ELSE alloc = Nothing
  BY Zenon, <1>1, <1>4 DEF Allocated
<1> QED
  BY Zenon, <1>1, <1>2, <1>3, <1>4, <1>5 DEF SoldNow

\* The lots a register sale may take from, and what it takes from each.
LEMMA SoldLots ==
  ASSUME StockAssumption, IInv, NEW t \in Txn, NEW s \in Sale, NEW p \in Product,
         NEW n \in Quantity, NEW alloc, SoldFrom(t, s, p, n, alloc)
  PROVE  /\ alloc \in [Batch -> Nat]
         /\ \A b \in Batch : alloc[b] # 0 =>
              /\ batch[b].product = p /\ ~batch[b].quarantined
              /\ batch[b].expiry >= snap[t].today
              /\ alloc[b] <= batch[b].remaining
              /\ \A c \in Batch :
                   (/\ batch[c].product = p /\ batch[c].remaining > 0 /\ ~batch[c].quarantined
                    /\ batch[c].expiry >= snap[t].today /\ batch[c].expiry < batch[b].expiry)
                   => alloc[c] = batch[c].remaining
<1> DEFINE d == snap[t]
           lots == Sellable(d, p)
<1>1. FreshProduct(t, p)
  BY SoldFresh DEF SoldNow
<1>2. Allocated(d, p, n, alloc)
  BY Zenon DEF SoldFrom
<1>3. CASE ~d.product[p].tracked
  <2>1. alloc = Nothing
    BY Zenon, <1>2, <1>3 DEF Allocated
  <2>2. alloc \in [Batch -> Nat] /\ \A b \in Batch : alloc[b] = 0
    BY <2>1 DEF Nothing
  <2> QED
    BY Zenon, <2>2
<1>4. CASE d.product[p].tracked
  <2>1. PICK rank \in Order(d, lots) : alloc = Consume(d, lots, rank, n)
    BY Zenon, <1>2, <1>4 DEF Allocated
  <2>2. /\ lots \in SUBSET Batch /\ \A c \in lots : d.batch[c].product = p
        /\ \A c \in lots : /\ d.batch[c].remaining > 0 /\ ~d.batch[c].quarantined
                            /\ d.batch[c].expiry >= d.today
    BY DEF Sellable, BatchesOf
  <2>3. \A c \in lots : d.batch[c] = batch[c]
    BY <1>1, <2>2 DEF FreshProduct
  <2>4. ASSUME NEW c \in Batch,
               /\ batch[c].product = p /\ batch[c].remaining > 0 /\ ~batch[c].quarantined
               /\ batch[c].expiry >= snap[t].today
        PROVE  c \in lots
    <3>1. d.batch[c] = batch[c]
      BY <1>1, <2>4 DEF FreshProduct
    <3> QED
      BY <2>4, <3>1 DEF Sellable, BatchesOf
  <2>5. rank \in [lots -> 1..Cardinality(lots)]
        /\ \A b, c \in lots : d.batch[b].expiry < d.batch[c].expiry => rank[b] < rank[c]
    BY Zenon, <2>1 DEF Order, Bijection, Injection
  <2> HIDE DEF d, lots
  <2>6. \A c \in lots : d.batch[c].remaining \in Nat
    <3> SUFFICES ASSUME NEW c \in lots PROVE d.batch[c].remaining \in Nat
      OBVIOUS
    <3>1. batch[c].remaining \in Int
      BY <2>2 DEF IInv, Documents, TypeOK, BatchDoc
    <3> QED
      BY <2>2, <2>3, <3>1
  <2>7. IsFiniteSet(lots) /\ (\A c \in lots : rank[c] \in Int) /\ n \in Nat
    <3>1. IsFiniteSet(lots)
      BY <2>2, FS_Subset DEF StockAssumption
    <3>2. Cardinality(lots) \in Nat
      BY <3>1, FS_CardinalityType
    <3> QED
      BY <2>5, <3>1, <3>2 DEF StockAssumption
  <2>8. /\ alloc \in [Batch -> Nat]
        /\ \A b \in Batch : b \notin lots => alloc[b] = 0
        /\ \A b \in lots : alloc[b] <= d.batch[b].remaining
        /\ \A b, c \in lots : alloc[b] # 0 /\ rank[c] < rank[b] =>
                                  alloc[c] = d.batch[c].remaining
    <3>1. lots \in SUBSET Batch /\ alloc = Consume(d, lots, rank, n)
      BY Zenon, <2>1, <2>2
    <3>2. TakenInOrder(d, lots, rank, alloc)
      BY <2>6, <2>7, <3>1, Consumes
    <3> QED
      BY Zenon, <3>2 DEF TakenInOrder
  <2>9. ASSUME NEW b \in Batch, alloc[b] # 0
        PROVE  /\ b \in lots /\ batch[b].product = p /\ ~batch[b].quarantined
               /\ batch[b].expiry >= snap[t].today /\ alloc[b] <= batch[b].remaining
    <3>1. b \in lots
      BY <2>8, <2>9
    <3> QED
      BY <2>2, <2>3, <2>8, <3>1 DEF d
  <2>10. ASSUME NEW b \in Batch, alloc[b] # 0, NEW c \in Batch,
                /\ batch[c].product = p /\ batch[c].remaining > 0 /\ ~batch[c].quarantined
                /\ batch[c].expiry >= snap[t].today /\ batch[c].expiry < batch[b].expiry
         PROVE  alloc[c] = batch[c].remaining
    <3>1. b \in lots /\ c \in lots
      BY <2>4, <2>9, <2>10
    <3>2. rank[c] < rank[b]
      BY <2>3, <2>5, <2>10, <3>1
    <3> QED
      BY <2>3, <2>8, <2>10, <3>1, <3>2
  <2>11. alloc \in [Batch -> Nat]
    BY <2>8
  <2>12. ASSUME NEW b \in Batch, alloc[b] # 0
         PROVE  /\ batch[b].product = p /\ ~batch[b].quarantined
                /\ batch[b].expiry >= snap[t].today
                /\ alloc[b] <= batch[b].remaining
                /\ \A c \in Batch :
                     (/\ batch[c].product = p /\ batch[c].remaining > 0 /\ ~batch[c].quarantined
                      /\ batch[c].expiry >= snap[t].today /\ batch[c].expiry < batch[b].expiry)
                     => alloc[c] = batch[c].remaining
    <3>1. \A c \in Batch :
            (/\ batch[c].product = p /\ batch[c].remaining > 0 /\ ~batch[c].quarantined
             /\ batch[c].expiry >= snap[t].today /\ batch[c].expiry < batch[b].expiry)
            => alloc[c] = batch[c].remaining
      BY <2>10, <2>12
    <3> QED
      BY Zenon, <2>9, <2>12, <3>1
  <2> QED
    BY Zenon, <2>11, <2>12
<1> QED
  BY Zenon, <1>3, <1>4

\* What was sold is what the lots gave.
LEMMA SumOfNegated ==
  ASSUME StockAssumption, NEW alloc \in [Batch -> Int]
  PROVE  /\ SumFunction(alloc) = SumFunctionOnSet(alloc, Batch)
         /\ SumFunctionOnSet([b \in Batch |-> -alloc[b]], Batch)
              = -SumFunctionOnSet(alloc, Batch)
<1> DEFINE gain == [b \in Batch |-> -alloc[b]]
<1>1. IsFiniteSet(Batch)
  BY DEF StockAssumption
<1>2. DOMAIN alloc = Batch
  OBVIOUS
<1>3. SumFunction(alloc) = SumFunctionOnSet(alloc, Batch)
  BY Zenon, <1>2 DEF SumFunction
<1>4. \A b \in Batch : /\ alloc[b] \in Int /\ gain[b] \in Int
                       /\ Nothing[b] = alloc[b] + gain[b] /\ Nothing[b] = 0
  BY DEF Nothing
<1> HIDE DEF gain
<1>5. SumFunctionOnSet(Nothing, Batch)
        = SumFunctionOnSet(alloc, Batch) + SumFunctionOnSet(gain, Batch)
  BY <1>1, <1>4, SumAdd
<1>6. SumFunctionOnSet(Nothing, Batch) = 0
  BY <1>1, <1>4, SumZero
<1>7. SumFunctionOnSet(alloc, Batch) \in Int
  BY <1>1, <1>4, SumRemove
<1>8. SumFunctionOnSet(gain, Batch) \in Int
  BY <1>1, <1>4, SumRemove
<1>9. SumFunctionOnSet(gain, Batch) = -SumFunctionOnSet(alloc, Batch)
  BY <1>5, <1>6, <1>7, <1>8
<1> QED
  BY <1>3, <1>9 DEF gain

LEMMA SellMoves ==
  ASSUME StockAssumption, IInv, NEW t \in Txn, CommitSell(t)
  PROVE  \E p \in Product, n \in Int : \E gain, new, w : Moved(t, p, n, gain, new, w)
<1>0. PICK s \in Sale, p \in Product, n \in Quantity : \E alloc : SoldFrom(t, s, p, n, alloc)
  BY Zenon, SellFrom
<1>1. PICK alloc : SoldFrom(t, s, p, n, alloc)
  BY Zenon, <1>0
<1> DEFINE w == StockWrites(p, GaveTo(alloc)) \cup {<< "sale", s >>}
           gain == [b \in Batch |-> -alloc[b]]
           doc == [status |-> "COMPLETED", product |-> p, quantity |-> n,
                   price |-> product[p].price, alloc |-> alloc]
<1>2. /\ Commit(t, w) /\ Move(p, -n) /\ UNCHANGED << product, today, adjusted >>
      /\ batch' = [b \in Batch |-> [batch[b] EXCEPT !.remaining = @ + gain[b]]]
  BY Zenon, <1>1 DEF SoldFrom, Batches
<1>3. SoldNow(t, s, p, n, alloc)
  BY <1>1, SoldFresh
<1>4. /\ Running(t) /\ sale[s].status = "NONE" /\ inventory[p].stock >= n
      /\ IF product[p].tracked THEN SumFunction(alloc) = n ELSE alloc = Nothing
      /\ sale' = [sale EXCEPT ![s] = doc]
  BY Zenon, <1>3 DEF SoldNow
<1>5. product[p].tracked => SumFunction(alloc) = n
  BY Zenon, <1>4
<1>6. n \in Nat /\ n # 0 /\ -n \in Int
  BY DEF StockAssumption
<1>7. /\ alloc \in [Batch -> Nat] /\ alloc \in [Batch -> Int]
      /\ \A b \in Batch : alloc[b] # 0 => /\ batch[b].product = p
                                          /\ alloc[b] <= batch[b].remaining
  <2>1. /\ alloc \in [Batch -> Nat]
        /\ \A b \in Batch : alloc[b] # 0 => /\ batch[b].product = p
                                            /\ alloc[b] <= batch[b].remaining
    BY <1>1, SoldLots
  <2> QED
    BY <2>1
<1>8. StockStep(p, -n)
  <2>1. inventory[p].stock \in -MaxStock..MaxStock /\ MaxStock \in Nat
    BY DEF IInv, Documents, InBounds, StockAssumption
  <2>2. inventory[p].stock + (-n) \in -MaxStock..MaxStock /\ inventory[p].stock + (-n) >= 0
    BY <1>4, <1>6, <2>1
  <2> QED
    BY <1>2, <1>6, <2>2, MoveStep
<1>9. LotsStep(p, gain, {})
  <2>1. gain \in [Batch -> Int]
    BY <1>7
  <2>2. \A b \in Batch : gain[b] # 0 => batch[b].product = p
    BY <1>7
  <2>3. ASSUME NEW b \in Batch, batch[b].remaining + gain[b] < 0 PROVE batch[b].quarantined
    <3>1. batch[b].remaining \in Int /\ (batch[b].remaining < 0 => batch[b].quarantined)
      BY DEF IInv, Documents, TypeOK, BatchDoc
    <3>2. alloc[b] # 0 => alloc[b] <= batch[b].remaining
      BY <1>7
    <3>3. gain[b] = -alloc[b] /\ alloc[b] \in Nat
      BY <1>7
    <3>4. batch[b].remaining < 0
      BY <2>3, <3>1, <3>2, <3>3
    <3> QED
      BY <3>1, <3>4
  <2> HIDE DEF gain
  <2> QED
    BY <1>2, <2>1, <2>2, <2>3, LotsChange
<1>10. doc \in SaleDoc /\ doc.status = "COMPLETED" /\ doc.alloc = alloc
       /\ doc.product = p /\ doc.quantity = n
  <2>1. product[p].price \in Price
    BY DEF IInv, Documents, TypeOK, ProductDoc
  <2> QED
    BY <1>6, <1>7, <2>1 DEF SaleDoc
<1> HIDE DEF doc
<1>11. /\ sale' \in [Sale -> SaleDoc] /\ sale'[s] = doc
       /\ \A r \in Sale : r # s => sale'[r] = sale[r]
  BY <1>4, <1>10, SaleRungUp
<1>12. UnitsStep(gain, {})
  <2>1. \A b \in Batch : Out(b)' = Out(b) + alloc[b]
    BY <1>4, <1>10, <1>11, OutMore
  <2>2. adjusted' = adjusted /\ adjusted \in [Batch -> Int]
    BY <1>2 DEF IInv, Documents, TypeOK
  <2>3. \A b \in Batch : Out(b) \in Int /\ alloc[b] \in Int /\ gain[b] = -alloc[b]
    BY <1>7, OutFits
  <2> HIDE DEF gain
  <2> QED
    BY <2>1, <2>2, <2>3 DEF UnitsStep
<1>13. product[p].tracked => SumFunctionOnSet(gain, Batch) = -n
  BY <1>5, <1>7, SumOfNegated
<1>14. SaleFits(s)'
  <2>1. ASSUME NEW b \in Batch, alloc[b] # 0 PROVE batch'[b].product = p
    <3>1. gain[b] # 0
      BY <1>7, <2>1
    <3> HIDE DEF gain
    <3> QED
      BY <1>9, <3>1 DEF LotsStep
  <2>2. GaveTo(alloc) # {} => SumFunctionOnSet(alloc, Batch) = n
    <3>1. CASE product[p].tracked
      BY <1>5, <1>7, <3>1, SumOfNegated
    <3>2. CASE ~product[p].tracked
      <4>1. alloc = Nothing
        BY Zenon, <1>4, <3>2
      <4> QED
        BY <4>1 DEF GaveTo, Nothing
    <3> QED
      BY <3>1, <3>2
  <2>3. sale'[s].status = "COMPLETED" /\ sale'[s].product = p /\ sale'[s].quantity = n
        /\ sale'[s].alloc = alloc
    BY <1>10, <1>11
  <2> QED
    BY <1>6, <2>1, <2>2, <2>3 DEF SaleFits
<1>15. << "product", p >> \in w /\ << "sale", s >> \in w
  BY Written
<1> HIDE DEF w, gain
<1>16. SalesStep(w)
  BY <1>11, <1>14, <1>15 DEF SalesStep
<1>17. Moved(t, p, -n, gain, {}, w)
  BY <1>2, <1>4, <1>8, <1>9, <1>12, <1>13, <1>15, <1>16 DEF Moved
<1> QED
  BY Zenon, <1>6, <1>17

\* What a reversal does: the sale is reversed, and what left no lot although
\* the product is tracked comes back as a lot of its own.
Lotless(d, s) == d.product[d.sale[s].product].tracked /\ GaveTo(d.sale[s].alloc) = {}

ReversedFrom(t, s, extra) ==
    LET p == snap[t].sale[s].product IN
    /\ req[t] = AskReversal(s)
    /\ snap[t].sale[s].status = "COMPLETED"
    /\ inventory[p].stock + snap[t].sale[s].quantity <= MaxStock
    /\ IF Lotless(snap[t], s) THEN \E c \in Batch : extra = {c} ELSE extra = {}
    /\ \A b \in extra : batch[b] = NoBatch
    /\ Commit(t, StockWrites(p, GaveTo(snap[t].sale[s].alloc) \cup extra) \cup {<< "sale", s >>})
    /\ batch' = Restored(s, extra)
    /\ sale' = [sale EXCEPT ![s].status = "REVERSED"]
    /\ Move(p, snap[t].sale[s].quantity) /\ UNCHANGED << product, today, adjusted >>

LEMMA ReverseFrom ==
  ASSUME NEW t \in Txn, CommitReverse(t)
  PROVE  \E s \in Sale, extra \in SUBSET Batch : ReversedFrom(t, s, extra)
<1> DEFINE P(s) == snap[t].sale[s].product
           Effect(s, extra) ==
             /\ Commit(t, StockWrites(P(s), GaveTo(snap[t].sale[s].alloc) \cup extra)
                            \cup {<< "sale", s >>})
             /\ batch' = Restored(s, extra)
           Rest(s) ==
             /\ req[t] = AskReversal(s)
             /\ snap[t].sale[s].status = "COMPLETED"
             /\ inventory[P(s)].stock + snap[t].sale[s].quantity <= MaxStock
             /\ sale' = [sale EXCEPT ![s].status = "REVERSED"]
             /\ Move(P(s), snap[t].sale[s].quantity) /\ UNCHANGED << product, today, adjusted >>
<1>1. PICK s \in Sale :
        /\ Rest(s)
        /\ \E extra \in IF ~Lotless(snap[t], s) THEN {{}} ELSE
                    {{b} : b \in {c \in Batch : batch[c] = NoBatch}} : Effect(s, extra)
  BY Zenon DEF CommitReverse, Lotless
<1>2. PICK extra \in IF ~Lotless(snap[t], s) THEN {{}} ELSE
                    {{b} : b \in {c \in Batch : batch[c] = NoBatch}} : Effect(s, extra)
  BY Zenon, <1>1
<1> HIDE DEF Effect, Rest
<1>3. /\ extra \in SUBSET Batch /\ (\A b \in extra : batch[b] = NoBatch)
      /\ IF Lotless(snap[t], s) THEN \E c \in Batch : extra = {c} ELSE extra = {}
  <2> DEFINE wanted == Lotless(snap[t], s)
  <2>1. wanted \in BOOLEAN
    BY DEF Lotless
  <2> HIDE DEF wanted
  <2>2. extra \in IF ~wanted THEN {{}} ELSE {{b} : b \in {c \in Batch : batch[c] = NoBatch}}
    BY Zenon, <1>2 DEF wanted
  <2>3. /\ extra \in SUBSET Batch /\ (\A b \in extra : batch[b] = NoBatch)
        /\ (extra # {} => wanted) /\ (wanted => \E c \in Batch : extra = {c})
    BY Zenon, <2>1, <2>2, NewLotsFrom
  <2> QED
    BY Zenon, <2>3 DEF wanted
<1>4. ReversedFrom(t, s, extra)
  BY Zenon, <1>1, <1>2, <1>3 DEF ReversedFrom, Effect, Rest
<1> QED
  BY Zenon, <1>3, <1>4

LEMMA ReverseMoves ==
  ASSUME StockAssumption, IInv, NEW t \in Txn, CommitReverse(t)
  PROVE  \E p \in Product, n \in Int : \E gain, new, w : Moved(t, p, n, gain, new, w)
<1>1. PICK s \in Sale, extra \in SUBSET Batch : ReversedFrom(t, s, extra)
  BY Zenon, ReverseFrom
<1> DEFINE p == snap[t].sale[s].product
           n == snap[t].sale[s].quantity
           alloc == sale[s].alloc
           lots == GaveTo(snap[t].sale[s].alloc) \cup extra
           w == StockWrites(p, lots) \cup {<< "sale", s >>}
           doc == [sale[s] EXCEPT !.status = "REVERSED"]
<1>2. /\ req[t] = AskReversal(s) /\ snap[t].sale[s].status = "COMPLETED"
      /\ inventory[p].stock + n <= MaxStock
      /\ IF Lotless(snap[t], s) THEN \E c \in Batch : extra = {c} ELSE extra = {}
      /\ \A b \in extra : batch[b] = NoBatch
      /\ Commit(t, w) /\ Move(p, n) /\ UNCHANGED << product, today, adjusted >>
      /\ batch' = Restored(s, extra)
      /\ sale' = [sale EXCEPT ![s].status = "REVERSED"]
  BY Zenon, <1>1 DEF ReversedFrom
<1>3. Running(t) /\ << "product", p >> \in w /\ << "sale", s >> \in w
  BY <1>2, Written DEF Running, Idle, AskReversal
<1> HIDE DEF w, lots
<1>4. snap[t].sale[s] = sale[s]
  BY <1>2, <1>3, ReadFresh
<1>5. /\ sale[s].status = "COMPLETED" /\ p = sale[s].product /\ n = sale[s].quantity
      /\ sale[s] \in SaleDoc /\ SaleFits(s) /\ sale \in [Sale -> SaleDoc]
  BY <1>2, <1>4 DEF IInv, Documents, SalesFit, TypeOK
<1>6. /\ p \in Product /\ n \in Nat /\ n # 0 /\ n \in Int /\ alloc \in [Batch -> Nat]
      /\ \A b \in Batch : alloc[b] # 0 => batch[b].product = p
      /\ GaveTo(alloc) # {} => SumFunctionOnSet(alloc, Batch) = n
  BY <1>5 DEF SaleFits, SaleDoc
<1>7. FreshProduct(t, p)
  BY <1>2, <1>3, <1>6, ReadFresh
<1>8. IF product[p].tracked /\ GaveTo(alloc) = {} THEN \E c \in Batch : extra = {c} ELSE extra = {}
  <2>1. snap[t].product[p] = product[p]
    BY Zenon, <1>7 DEF FreshProduct
  <2> QED
    BY Zenon, <1>2, <1>4, <2>1 DEF Lotless
<1>9. /\ doc \in SaleDoc /\ doc.status = "REVERSED" /\ doc.product = p /\ doc.quantity = n
      /\ doc.alloc = alloc
  BY <1>5 DEF SaleDoc
<1>10. sale' = [sale EXCEPT ![s] = doc]
  BY <1>2, <1>5
<1> HIDE DEF p, n, doc
<1>11. /\ sale' \in [Sale -> SaleDoc] /\ sale'[s] = doc
       /\ \A r \in Sale : r # s => sale'[r] = sale[r]
  BY <1>9, <1>10, SaleRungUp
<1>12. StockStep(p, n)
  <2>1. inventory[p].stock \in -MaxStock..MaxStock /\ MaxStock \in Nat
    BY <1>6 DEF IInv, Documents, InBounds, StockAssumption
  <2>2. inventory[p].stock + n \in -MaxStock..MaxStock /\ ~(n < 0)
    BY <1>2, <1>6, <2>1
  <2> QED
    BY <1>2, <1>6, <2>2, MoveStep
<1>13. \A b \in Batch : Out(b)' = Out(b) - alloc[b]
  BY <1>5, <1>9, <1>11, OutLess
<1>14. adjusted' = adjusted /\ adjusted \in [Batch -> Int]
  BY <1>2 DEF IInv, Documents, TypeOK
<1>15. ASSUME NEW gain, NEW new, LotsStep(p, gain, new), UnitsStep(gain, new),
              new # {} => product[p].tracked,
              product[p].tracked => SumFunctionOnSet(gain, Batch) = n
       PROVE  Moved(t, p, n, gain, new, w)
  <2>1. ASSUME NEW b \in Batch, alloc[b] # 0 PROVE batch'[b].product = p
    <3>1. batch[b].product = p /\ p # Null
      BY <1>6, <2>1 DEF StockAssumption
    <3>2. CASE b \in new
      BY <1>15, <3>2 DEF LotsStep, NewLot
    <3>3. CASE b \notin new
      BY <1>15, <3>1, <3>3 DEF LotsStep, OldLot
    <3> QED
      BY <3>2, <3>3
  <2>2. SaleFits(s)'
    BY <1>6, <1>9, <1>11, <2>1 DEF SaleFits
  <2>3. SalesStep(w)
    BY <1>3, <1>11, <2>2 DEF SalesStep
  <2> QED
    BY <1>2, <1>3, <1>12, <1>15, <2>3 DEF Moved
<1>16. CASE product[p].tracked /\ GaveTo(alloc) = {}
  <2>1. PICK c \in Batch : extra = {c}
    BY Zenon, <1>8, <1>16
  <2>2. \A b \in Batch : alloc[b] = 0
    BY <1>16 DEF GaveTo
  <2> DEFINE in == IF n > 0 THEN n ELSE 0
  <2>3. batch' = [b \in Batch |-> IF b \in extra
                                  THEN [product |-> p, expiry |-> Null, remaining |-> n,
                                        quarantined |-> TRUE, received |-> in]
                                  ELSE batch[b]]
    <3>1. batch' = [b \in Batch |-> IF b \in extra THEN Quarantine(p, n)
                                    ELSE [batch[b] EXCEPT !.remaining = @ + alloc[b]]]
      BY Zenon, <1>2, <1>5 DEF Restored
    <3>2. ASSUME NEW b \in Batch PROVE [batch[b] EXCEPT !.remaining = @ + alloc[b]] = batch[b]
      <4>1. batch[b] \in BatchDoc /\ alloc[b] = 0
        BY <2>2 DEF IInv, Documents, TypeOK
      <4> QED
        BY <4>1 DEF BatchDoc
    <3>3. Quarantine(p, n) = [product |-> p, expiry |-> Null, remaining |-> n,
                              quarantined |-> TRUE, received |-> in]
      BY Zenon DEF Quarantine
    <3> QED
      BY Zenon, <3>1, <3>2, <3>3
  <2>4. in \in Nat
    BY <1>6
  <2> HIDE DEF in
  <2>5. LotsStep(p, Added(extra, n), extra)
    BY <1>2, <1>6, <2>3, <2>4, LotAdded
  <2>6. SumFunctionOnSet(Added(extra, n), Batch) = n
    BY <1>6, <2>1, AddedSum
  <2>7. UnitsStep(Added(extra, n), extra)
    <3>1. \A b \in Batch : Out(b)' = Out(b) /\ Out(b) \in Int
      BY <1>13, <2>2, OutFits
    <3>2. \A b \in Batch : (IF b \in extra THEN 0 ELSE Added(extra, n)[b]) = 0
      BY DEF Added
    <3> QED
      BY <1>14, <3>1, <3>2 DEF UnitsStep
  <2>8. Moved(t, p, n, Added(extra, n), extra, w)
    BY <1>15, <1>16, <2>5, <2>6, <2>7
  <2> QED
    BY Zenon, <1>6, <2>8
<1>17. CASE ~(product[p].tracked /\ GaveTo(alloc) = {})
  <2>1. extra = {}
    BY Zenon, <1>8, <1>17
  <2>2. batch' = [b \in Batch |-> [batch[b] EXCEPT !.remaining = @ + alloc[b]]]
    <3>1. \A b \in Batch : b \notin extra
      BY <2>1
    <3> QED
      BY Zenon, <1>2, <3>1 DEF Restored
  <2>3. alloc \in [Batch -> Int]
    BY <1>6
  <2>4. ASSUME NEW b \in Batch, batch[b].remaining + alloc[b] < 0 PROVE batch[b].quarantined
    <3>1. batch[b].remaining \in Int /\ (batch[b].remaining < 0 => batch[b].quarantined)
      BY DEF IInv, Documents, TypeOK, BatchDoc
    <3>2. alloc[b] \in Nat
      BY <1>6
    <3>3. batch[b].remaining < 0
      BY <2>4, <3>1, <3>2
    <3> QED
      BY <3>1, <3>3
  <2> HIDE DEF alloc
  <2>5. LotsStep(p, alloc, {})
    BY <1>6, <2>2, <2>3, <2>4, LotsChange
  <2>6. UnitsStep(alloc, {})
    <3>1. \A b \in Batch : Out(b) \in Int /\ alloc[b] \in Int
      BY <2>3, OutFits
    <3> QED
      BY <1>13, <1>14, <3>1 DEF UnitsStep
  <2>7. product[p].tracked => SumFunctionOnSet(alloc, Batch) = n
    BY <1>6, <1>17
  <2>8. Moved(t, p, n, alloc, {}, w)
    BY <1>15, <2>5, <2>6, <2>7
  <2> QED
    BY Zenon, <1>6, <2>8
<1> QED
  BY <1>16, <1>17

\* What an adjustment does, by what its lines add up to.
AdjustedFrom(t, p, net, change) ==
    LET lines == req[t].lines IN
    /\ req[t].op = "adjust" /\ net = SumFunction(lines)
    /\ change = [b \in Batch |-> IF b \in DOMAIN lines THEN lines[b] ELSE 0]
    /\ \A b \in DOMAIN lines : LineAllowed(snap[t], p, b, lines[b])
    /\ net < 0 => snap[t].inventory[p].stock >= -net
    /\ inventory[p].stock + net <= MaxStock
    /\ Commit(t, AdjustWrites(p, net, GaveTo(change)))
    /\ batch' = Batches(change)
    /\ adjusted' = [b \in Batch |-> adjusted[b] + change[b]]
    /\ \/ net # 0 /\ Move(p, net)
       \/ net = 0 /\ UNCHANGED << inventory, ledger >>
    /\ UNCHANGED << product, sale, today >>

LEMMA AdjustFrom ==
  ASSUME NEW t \in Txn, CommitAdjust(t)
  PROVE  \E p \in Product : \E net, change : AdjustedFrom(t, p, net, change)
<1> DEFINE lines == req[t].lines
           net == SumFunction(lines)
           change == [b \in Batch |-> IF b \in DOMAIN lines THEN lines[b] ELSE 0]
<1>1. PICK p \in Product :
        /\ req[t].op = "adjust"
        /\ \A b \in DOMAIN lines : LineAllowed(snap[t], p, b, lines[b])
        /\ net < 0 => Enough(snap[t], p, -net)
        /\ inventory[p].stock + net <= MaxStock
        /\ Commit(t, AdjustWrites(p, net, GaveTo(change)))
        /\ batch' = Batches(change)
        /\ adjusted' = [b \in Batch |-> adjusted[b] + change[b]]
        /\ \/ net # 0 /\ Move(p, net)
           \/ net = 0 /\ UNCHANGED << inventory, ledger >>
        /\ UNCHANGED << product, sale, today >>
  BY Zenon DEF CommitAdjust
<1>2. net < 0 => snap[t].inventory[p].stock >= -net
  BY Zenon, <1>1 DEF Enough
<1>3. AdjustedFrom(t, p, net, change)
  BY Zenon, <1>1, <1>2 DEF AdjustedFrom
<1> QED
  BY Zenon, <1>3

LEMMA AdjustMoves ==
  ASSUME StockAssumption, IInv, NEW t \in Txn, CommitAdjust(t)
  PROVE  \E p \in Product, n \in Int : \E gain, new, w : Moved(t, p, n, gain, new, w)
<1>0. PICK p \in Product : \E net, change : AdjustedFrom(t, p, net, change)
  BY Zenon, AdjustFrom
<1>1. PICK net, change : AdjustedFrom(t, p, net, change)
  BY Zenon, <1>0
<1> DEFINE lines == req[t].lines
           w == AdjustWrites(p, net, GaveTo(change))
<1>2. /\ req[t].op = "adjust" /\ net = SumFunction(lines)
      /\ change = [b \in Batch |-> IF b \in DOMAIN lines THEN lines[b] ELSE 0]
      /\ \A b \in DOMAIN lines : LineAllowed(snap[t], p, b, lines[b])
      /\ net < 0 => snap[t].inventory[p].stock >= -net
      /\ inventory[p].stock + net <= MaxStock
      /\ Commit(t, w)
      /\ batch' = [b \in Batch |-> [batch[b] EXCEPT !.remaining = @ + change[b]]]
      /\ adjusted' = [b \in Batch |-> adjusted[b] + change[b]]
      /\ \/ net # 0 /\ Move(p, net)
         \/ net = 0 /\ UNCHANGED << inventory, ledger >>
      /\ UNCHANGED << product, sale, today >>
  BY Zenon, <1>1 DEF AdjustedFrom, Batches
<1>3. Running(t) /\ << "product", p >> \in w
  BY <1>2 DEF Running, Idle, AdjustWrites, StockWrites, ProductLock
<1> HIDE DEF w
<1>4. FreshProduct(t, p)
  BY <1>2, <1>3, ReadFresh
<1>5. snap[t].product[p] = product[p] /\ snap[t].inventory[p] = inventory[p]
  BY Zenon, <1>4 DEF FreshProduct
<1>6. PICK chosen \in SUBSET (Batch \cup {Null}) : lines \in [chosen -> Int]
  <2>1. Asked(req[t])
    BY <1>3 DEF IInv, TxnFits
  <2> QED
    BY Zenon, <1>2, <2>1 DEF Asked
<1> HIDE DEF lines
<1>7. DOMAIN lines = chosen /\ Null \notin Batch /\ (\A b \in chosen : lines[b] \in Int)
  BY <1>6 DEF StockAssumption
<1>8. IsFiniteSet(chosen)
  <2>1. IsFiniteSet(Batch \cup {Null})
    BY FS_AddElement DEF StockAssumption
  <2> QED
    BY <2>1, FS_Subset
<1>9. net = SumFunctionOnSet(lines, chosen) /\ net \in Int
  <2>1. net = SumFunctionOnSet(lines, chosen)
    BY Zenon, <1>2, <1>7 DEF SumFunction
  <2>2. SumFunctionOnSet(lines, chosen) \in Int
    BY <1>7, <1>8, SumRemove
  <2> QED
    BY <2>1, <2>2
<1>10. /\ change \in [Batch -> Int]
       /\ \A b \in Batch : change[b] = IF b \in chosen THEN lines[b] ELSE 0
  BY <1>2, <1>7
<1>11. ASSUME NEW b \in Batch, change[b] # 0
       PROVE  /\ product[p].tracked /\ batch[b].product = p
              /\ batch[b].quarantined \/ batch[b].remaining + change[b] >= 0
  <2>1. b \in chosen /\ b # Null /\ change[b] = lines[b]
    BY <1>7, <1>10, <1>11
  <2>2. LineAllowed(snap[t], p, b, lines[b])
    BY <1>2, <1>7, <2>1
  <2>3. /\ snap[t].product[p].tracked /\ b \in BatchesOf(snap[t].batch, p)
        /\ snap[t].batch[b].quarantined \/ snap[t].batch[b].remaining + lines[b] >= 0
    BY <2>1, <2>2 DEF LineAllowed
  <2>4. snap[t].batch[b] = batch[b] /\ snap[t].batch[b].product = p
    BY <1>4, <2>3 DEF FreshProduct, BatchesOf
  <2>5. batch[b].quarantined \/ batch[b].remaining + change[b] >= 0
    BY Zenon, <2>1, <2>3, <2>4
  <2> QED
    BY <1>5, <2>3, <2>4, <2>5
<1>12. LotsStep(p, change, {})
  <2>1. ASSUME NEW b \in Batch, batch[b].remaining + change[b] < 0 PROVE batch[b].quarantined
    <3>1. batch[b].remaining \in Int /\ (batch[b].remaining < 0 => batch[b].quarantined)
      BY DEF IInv, Documents, TypeOK, BatchDoc
    <3>2. CASE change[b] = 0
      BY <2>1, <3>1, <3>2
    <3>3. CASE change[b] # 0
      <4>1. batch[b].quarantined \/ batch[b].remaining + change[b] >= 0
        BY Zenon, <1>11, <3>3
      <4>2. ~(batch[b].remaining + change[b] >= 0)
        BY <1>10, <2>1, <3>1
      <4> QED
        BY Zenon, <4>1, <4>2
    <3> QED
      BY <3>2, <3>3
  <2>2. \A b \in Batch : change[b] # 0 => batch[b].product = p
    BY <1>11
  <2> QED
    BY <1>2, <1>10, <2>1, <2>2, LotsChange
<1>13. StockStep(p, net)
  <2>1. inventory[p].stock \in -MaxStock..MaxStock /\ MaxStock \in Nat
    BY DEF IInv, Documents, InBounds, StockAssumption
  <2>2. net < 0 => inventory[p].stock + net >= 0
    BY <1>2, <1>5, <1>9, <2>1
  <2>3. inventory[p].stock + net \in -MaxStock..MaxStock
    BY <1>2, <1>9, <2>1, <2>2
  <2>4. CASE net # 0 /\ Move(p, net)
    BY <1>9, <2>2, <2>3, <2>4, MoveStep
  <2>5. CASE net = 0 /\ UNCHANGED << inventory, ledger >>
    <3>1. /\ inventory \in [Product -> InventoryDoc] /\ ledger \in [Product -> Int \cup {Null}]
          /\ LedgerReconciles /\ inventory' = inventory /\ ledger' = ledger
      BY <2>5 DEF IInv, Documents, TypeOK
    <3>2. LedgerReconciles'
      BY <3>1 DEF LedgerReconciles, Reconciles, Current
    <3> QED
      BY <2>1, <2>5, <3>1, <3>2 DEF StockStep
  <2> QED
    BY Zenon, <1>2, <2>4, <2>5
<1>14. UnitsStep(change, {})
  <2>1. ASSUME NEW b \in Batch PROVE Out(b)' = Out(b) /\ Out(b) \in Int
    <3>1. Out(b)' = Out(b)
      <4>1. sale' = sale
        BY <1>2
      <4> QED
        BY Zenon, <4>1 DEF Out, Standing
    <3> QED
      BY <3>1, OutFits
  <2>2. \A b \in Batch : batch[b].product = Null => change[b] = 0
    BY <1>11 DEF StockAssumption
  <2>3. adjusted \in [Batch -> Int]
    BY DEF IInv, Documents, TypeOK
  <2>4. /\ adjusted' \in [Batch -> Int]
        /\ \A b \in Batch : adjusted'[b] = adjusted[b] + change[b]
    BY <1>2, <1>10, <2>3
  <2> QED
    BY <1>10, <2>1, <2>2, <2>3, <2>4 DEF UnitsStep
<1>15. SalesStep(w)
  <2>1. sale \in [Sale -> SaleDoc] /\ sale' = sale
    BY <1>2 DEF IInv, Documents, TypeOK
  <2> QED
    BY <2>1 DEF SalesStep
<1>16. ASSUME product[p].tracked PROVE SumFunctionOnSet(change, Batch) = net
  <2>1. chosen \in SUBSET Batch
    <3>1. ASSUME NEW b \in chosen PROVE b \in Batch
      <4>1. LineAllowed(snap[t], p, b, lines[b])
        BY <1>2, <1>7
      <4> QED
        BY <1>5, <1>16, <4>1 DEF LineAllowed, BatchesOf
    <3> QED
      BY <3>1
  <2>2. /\ \A b \in Batch : change[b] \in Int
        /\ \A b \in chosen : change[b] = lines[b]
        /\ \A b \in Batch \ chosen : change[b] = 0
    BY <1>10, <2>1
  <2>3. IsFiniteSet(Batch)
    BY DEF StockAssumption
  <2>4. SumFunctionOnSet(change, Batch) = SumFunctionOnSet(lines, chosen)
    BY <2>1, <2>2, <2>3, SumPart
  <2> QED
    BY <1>9, <2>4
<1>17. Moved(t, p, net, change, {}, w)
  BY <1>2, <1>3, <1>12, <1>13, <1>14, <1>15, <1>16 DEF Moved
<1> QED
  BY Zenon, <1>9, <1>17

\* What an offline upload does.
SyncedFrom(t, s, p, n, lot) ==
    /\ \E admin \in BOOLEAN : req[t] = AskSync(s, p, n, admin)
    /\ snap[t].sale[s].status = "NONE"
    /\ inventory[p].stock - n >= -MaxStock
    /\ IF snap[t].product[p].tracked THEN \E c \in Batch : lot = {c} ELSE lot = {}
    /\ \A b \in lot : batch[b] = NoBatch
    /\ Commit(t, StockWrites(p, lot) \cup {<< "sale", s >>})
    /\ batch' = [b \in Batch |-> IF b \in lot THEN OwedLot(p, n) ELSE batch[b]]
    /\ inventory' = [inventory EXCEPT ![p] =
          [stock |-> @.stock - n, shortfall |-> @.shortfall \/ @.stock < n]]
    /\ ledger' = [ledger EXCEPT ![p] = inventory[p].stock - n]
    /\ sale' = [sale EXCEPT ![s] = [status |-> "COMPLETED", product |-> p, quantity |-> n,
                                    price |-> Null, alloc |-> Nothing]]
    /\ UNCHANGED << product, today, adjusted >>

LEMMA SyncFrom ==
  ASSUME StockAssumption, IInv, NEW t \in Txn, CommitSync(t)
  PROVE  \E s \in Sale, p \in Product, n \in Quantity, lot \in SUBSET Batch :
           SyncedFrom(t, s, p, n, lot)
<1> DEFINE Effect(s, p, n, lot) ==
             /\ Commit(t, StockWrites(p, lot) \cup {<< "sale", s >>})
             /\ batch' = [b \in Batch |-> IF b \in lot THEN OwedLot(p, n) ELSE batch[b]]
<1>1. PICK s \in Sale, p \in Product, n \in Quantity, admin \in BOOLEAN :
        /\ req[t] = AskSync(s, p, n, admin)
        /\ snap[t].sale[s].status = "NONE"
        /\ snap[t].product[p].tracked => admin
        /\ Reconciles(snap[t], p)
        /\ inventory[p].stock - n >= -MaxStock
        /\ \E lot \in IF ~snap[t].product[p].tracked THEN {{}} ELSE
                {{b} : b \in {c \in Batch : batch[c] = NoBatch}} :
             /\ Commit(t, StockWrites(p, lot) \cup {<< "sale", s >>})
             /\ batch' = [b \in Batch |-> IF b \in lot THEN OwedLot(p, n) ELSE batch[b]]
        /\ inventory' = [inventory EXCEPT ![p] =
              [stock |-> @.stock - n, shortfall |-> @.shortfall \/ @.stock < n]]
        /\ ledger' = [ledger EXCEPT ![p] = inventory[p].stock - n]
        /\ sale' = [sale EXCEPT ![s] = [status |-> "COMPLETED", product |-> p, quantity |-> n,
                                        price |-> Null, alloc |-> Nothing]]
        /\ UNCHANGED << product, today, adjusted >>
  BY Zenon DEF CommitSync
<1>2. PICK lot \in IF ~snap[t].product[p].tracked THEN {{}} ELSE
                {{b} : b \in {c \in Batch : batch[c] = NoBatch}} : Effect(s, p, n, lot)
  BY Zenon, <1>1
<1> HIDE DEF Effect
<1>3. snap[t].product[p].tracked \in BOOLEAN
  <2>1. Running(t) /\ << "product", p >> \in StockWrites(p, lot) \cup {<< "sale", s >>}
    BY <1>1, Written DEF Running, Idle, AskSync
  <2>2. Commit(t, StockWrites(p, lot) \cup {<< "sale", s >>})
    BY Zenon, <1>2 DEF Effect
  <2>3. snap[t].product[p] = product[p]
    BY <2>1, <2>2, ReadFresh DEF FreshProduct
  <2> QED
    BY <2>3 DEF IInv, Documents, TypeOK, ProductDoc
<1>4. /\ lot \in SUBSET Batch /\ (\A b \in lot : batch[b] = NoBatch)
      /\ IF snap[t].product[p].tracked THEN \E c \in Batch : lot = {c} ELSE lot = {}
  <2> DEFINE wanted == snap[t].product[p].tracked
  <2> HIDE DEF wanted
  <2>1. wanted \in BOOLEAN
    BY Zenon, <1>3 DEF wanted
  <2>2. lot \in IF ~wanted THEN {{}} ELSE {{b} : b \in {c \in Batch : batch[c] = NoBatch}}
    BY Zenon, <1>2 DEF wanted
  <2>3. /\ lot \in SUBSET Batch /\ (\A b \in lot : batch[b] = NoBatch)
        /\ (lot # {} => wanted) /\ (wanted => \E c \in Batch : lot = {c})
    BY Zenon, <2>1, <2>2, NewLotsFrom
  <2> QED
    BY Zenon, <2>3 DEF wanted
<1>5. SyncedFrom(t, s, p, n, lot)
  BY Zenon, <1>1, <1>2, <1>4 DEF SyncedFrom, Effect
<1> QED
  BY Zenon, <1>4, <1>5

\* The upload's stock change is one that record posts, with a mark for an admin.
LEMMA TakenOffline ==
  ASSUME StockAssumption, IInv, NEW p \in Product, NEW n \in Nat, n # 0,
         inventory[p].stock - n >= -MaxStock,
         inventory' = [inventory EXCEPT ![p] =
              [stock |-> @.stock - n, shortfall |-> @.shortfall \/ @.stock < n]],
         ledger' = [ledger EXCEPT ![p] = inventory[p].stock - n]
  PROVE  StockStep(p, -n)
<1> DEFINE owed == inventory[p].shortfall \/ inventory[p].stock < n
           row == [stock |-> inventory[p].stock - n, shortfall |-> owed]
<1>1. /\ inventory \in [Product -> InventoryDoc] /\ ledger \in [Product -> Int \cup {Null}]
      /\ LedgerReconciles
      /\ inventory[p].stock \in -MaxStock..MaxStock /\ MaxStock \in Nat
  BY DEF IInv, Documents, TypeOK, InBounds, StockAssumption
<1>2. inventory' = [inventory EXCEPT ![p] = row]
  BY Zenon, <1>1
<1>3. owed \in BOOLEAN
  OBVIOUS
<1> HIDE DEF owed
<1>4. row \in InventoryDoc /\ row.stock = inventory[p].stock - n /\ row.shortfall = owed
  BY <1>1, <1>3 DEF InventoryDoc
<1> HIDE DEF row
<1>5. /\ inventory' \in [Product -> InventoryDoc] /\ inventory'[p] = row
      /\ \A q \in Product : q # p => inventory'[q] = inventory[q]
  BY <1>1, <1>2, <1>4
<1>6. /\ ledger' \in [Product -> Int \cup {Null}] /\ ledger'[p] = inventory[p].stock - n
      /\ \A q \in Product : q # p => ledger'[q] = ledger[q]
  <2>1. inventory[p].stock - n \in Int
    BY <1>1
  <2> QED
    BY <1>1, <2>1
<1>7. LedgerReconciles'
  BY <1>1, <1>4, <1>5, <1>6 DEF LedgerReconciles, Reconciles, Current
<1>8. /\ inventory'[p].stock = inventory[p].stock + (-n) /\ -n < 0 /\ -(-n) = n
      /\ inventory'[p].stock \in -MaxStock..MaxStock
  BY <1>1, <1>4, <1>5
<1>9. inventory'[p].shortfall = (inventory[p].shortfall \/ inventory[p].stock < -(-n))
  BY Zenon, <1>4, <1>5, <1>8 DEF owed
<1> QED
  BY Zenon, <1>5, <1>6, <1>7, <1>8, <1>9 DEF StockStep

LEMMA SyncMoves ==
  ASSUME StockAssumption, IInv, NEW t \in Txn, CommitSync(t)
  PROVE  \E p \in Product, n \in Int : \E gain, new, w : Moved(t, p, n, gain, new, w)
<1>1. PICK s \in Sale, p \in Product, n \in Quantity, lot \in SUBSET Batch :
        SyncedFrom(t, s, p, n, lot)
  BY Zenon, SyncFrom
<1> DEFINE w == StockWrites(p, lot) \cup {<< "sale", s >>}
           doc == [status |-> "COMPLETED", product |-> p, quantity |-> n,
                   price |-> Null, alloc |-> Nothing]
           m == -n
<1>2. /\ snap[t].sale[s].status = "NONE"
      /\ IF snap[t].product[p].tracked THEN \E c \in Batch : lot = {c} ELSE lot = {}
      /\ \A b \in lot : batch[b] = NoBatch
      /\ Commit(t, w)
      /\ batch' = [b \in Batch |-> IF b \in lot THEN Quarantine(p, m) ELSE batch[b]]
      /\ sale' = [sale EXCEPT ![s] = doc]
      /\ UNCHANGED << product, today, adjusted >>
  BY Zenon, <1>1 DEF SyncedFrom, OwedLot
<1>3. Running(t)
  <2>1. PICK admin \in BOOLEAN : req[t] = AskSync(s, p, n, admin)
    BY Zenon, <1>1 DEF SyncedFrom
  <2> QED
    BY <2>1 DEF Running, Idle, AskSync
<1>4. << "product", p >> \in w /\ << "sale", s >> \in w
  BY Written
<1> HIDE DEF w
<1>5. FreshProduct(t, p) /\ snap[t].sale[s] = sale[s]
  BY <1>2, <1>3, <1>4, ReadFresh
<1>6. n \in Nat /\ n # 0 /\ m \in Int /\ m < 0
  BY DEF StockAssumption
<1>7. IF product[p].tracked THEN \E c \in Batch : lot = {c} ELSE lot = {}
  <2>1. snap[t].product[p] = product[p]
    BY Zenon, <1>5 DEF FreshProduct
  <2> QED
    BY Zenon, <1>2, <2>1
<1>8. StockStep(p, -n)
  <2>1. /\ inventory[p].stock - n >= -MaxStock
        /\ inventory' = [inventory EXCEPT ![p] =
              [stock |-> @.stock - n, shortfall |-> @.shortfall \/ @.stock < n]]
        /\ ledger' = [ledger EXCEPT ![p] = inventory[p].stock - n]
    BY Zenon, <1>1 DEF SyncedFrom
  <2> QED
    BY Zenon, <1>6, <2>1, TakenOffline
<1>9. StockStep(p, m)
  BY Zenon, <1>8
<1> HIDE DEF m
<1>10. LotsStep(p, Added(lot, m), lot)
  <2> DEFINE in == IF m > 0 THEN m ELSE 0
  <2>1. batch' = [b \in Batch |-> IF b \in lot
                                  THEN [product |-> p, expiry |-> Null, remaining |-> m,
                                        quarantined |-> TRUE, received |-> in]
                                  ELSE batch[b]]
    BY Zenon, <1>2 DEF Quarantine
  <2>2. in \in Nat
    BY <1>6
  <2> HIDE DEF in
  <2> QED
    BY <1>2, <1>6, <2>1, <2>2, LotAdded
<1>11. product[p].tracked => SumFunctionOnSet(Added(lot, m), Batch) = m
  <2>1. product[p].tracked => \E c \in Batch : lot = {c}
    BY <1>7
  <2> QED
    BY <1>6, <2>1, AddedSum
<1>12. lot # {} => product[p].tracked
  BY <1>7
<1>13. /\ doc \in SaleDoc /\ doc.status = "COMPLETED" /\ doc.product = p /\ doc.quantity = n
       /\ \A b \in Batch : doc.alloc[b] = 0
  BY <1>6 DEF SaleDoc, Nothing
<1> HIDE DEF doc
<1>14. /\ sale' \in [Sale -> SaleDoc] /\ sale'[s] = doc
       /\ \A r \in Sale : r # s => sale'[r] = sale[r]
  BY <1>2, <1>13, SaleRungUp
<1>15. UnitsStep(Added(lot, m), lot)
  <2>1. \A b \in Batch : Out(b)' = Out(b) + 0
    <3>1. sale[s].status # "COMPLETED" /\ sale'[s].status = "COMPLETED"
      BY <1>2, <1>5, <1>13, <1>14
    <3>2. \A b \in Batch : Out(b)' = Out(b) + sale'[s].alloc[b]
      BY <1>14, <3>1, OutMore
    <3> QED
      BY <1>13, <1>14, <3>2
  <2>2. \A b \in Batch : Out(b) \in Int /\ (IF b \in lot THEN 0 ELSE Added(lot, m)[b]) = 0
    BY OutFits DEF Added
  <2>3. adjusted \in [Batch -> Int] /\ adjusted' = adjusted
    BY <1>2 DEF IInv, Documents, TypeOK
  <2> QED
    BY <2>1, <2>2, <2>3 DEF UnitsStep
<1>16. SaleFits(s)'
  BY <1>6, <1>13, <1>14 DEF SaleFits, GaveTo
<1>17. SalesStep(w)
  BY <1>4, <1>14, <1>16 DEF SalesStep
<1>18. Moved(t, p, m, Added(lot, m), lot, w)
  BY <1>2, <1>3, <1>4, <1>9, <1>10, <1>11, <1>12, <1>15, <1>17 DEF Moved
<1> QED
  BY Zenon, <1>6, <1>18

\* An edit changes the tracking of a product that has no lots and no stock, in
\* its snapshot and so, for it writes the product, in the database.
EditedNow(p, terms) ==
    /\ terms.tracked # product[p].tracked =>
           inventory[p].stock = 0 /\ BatchesOf(batch, p) = {}
    /\ product' = [product EXCEPT ![p] = terms]
    /\ UNCHANGED << inventory, batch, ledger, sale, today, adjusted >>

LEMMA EditFresh ==
  ASSUME IInv, NEW t \in Txn, CommitEdit(t)
  PROVE  \E p \in Product, terms \in ProductDoc :
           Running(t) /\ Commit(t, {<< "product", p >>}) /\ EditedNow(p, terms)
<1>1. PICK p \in Product, terms \in ProductDoc :
        /\ req[t] = AskEdit(p, terms)
        /\ terms.tracked # snap[t].product[p].tracked => MaySwitch(snap[t], p)
        /\ Commit(t, {<< "product", p >>})
        /\ product' = [product EXCEPT ![p] = terms]
        /\ UNCHANGED << inventory, batch, ledger, sale, today, adjusted >>
  BY Zenon DEF CommitEdit
<1>2. Running(t)
  BY <1>1 DEF Running, Idle, AskEdit
<1>3. FreshProduct(t, p)
  BY <1>1, <1>2, ReadFresh
<1>4. MaySwitch(snap[t], p) => inventory[p].stock = 0 /\ BatchesOf(batch, p) = {}
  BY <1>3 DEF MaySwitch, BatchesOf, FreshProduct
<1>5. snap[t].product[p] = product[p]
  BY Zenon, <1>3 DEF FreshProduct
<1>6. EditedNow(p, terms)
  BY Zenon, <1>1, <1>4, <1>5 DEF EditedNow
<1> QED
  BY Zenon, <1>1, <1>2, <1>6

LEMMA NoneRemaining == ASSUME NEW p, BatchesOf(batch, p) = {} PROVE Remaining(batch, p) = 0
  BY Zenon, SumEmpty DEF Remaining

LEMMA EditKeeps ==
  ASSUME StockAssumption, IInv, NEW t \in Txn, CommitEdit(t) PROVE IInv'
<1>1. PICK p \in Product, terms \in ProductDoc :
        Running(t) /\ Commit(t, {<< "product", p >>}) /\ EditedNow(p, terms)
  BY EditFresh
<1>2. /\ terms.tracked # product[p].tracked =>
           inventory[p].stock = 0 /\ BatchesOf(batch, p) = {}
      /\ product' = [product EXCEPT ![p] = terms]
      /\ UNCHANGED << inventory, batch, ledger, sale, today, adjusted >>
  BY Zenon, <1>1 DEF EditedNow
<1>3. Documents /\ Null \notin Product
  BY DEF IInv, StockAssumption
<1>4. /\ product' \in [Product -> ProductDoc] /\ product'[p] = terms
      /\ \A q \in Product : q # p => product'[q] = product[q]
  BY <1>2, <1>3 DEF Documents, TypeOK
<1>5. TypeOK' /\ InBounds' /\ LedgerReconciles'
  BY <1>2, <1>3, <1>4 DEF Documents, TypeOK, InBounds, LedgerReconciles, Reconciles, Current
<1>6. LotsFit' /\ SalesFit'
  BY <1>2, <1>3 DEF Documents, LotsFit, LotFits, SalesFit, SaleFits
<1>7. LotsBelong'
  <2> SUFFICES ASSUME NEW b \in Batch, batch[b].product # Null
               PROVE  batch[b].product \in Product /\ product'[batch[b].product].tracked
    BY <1>2 DEF LotsBelong
  <2>1. batch[b].product \in Product /\ product[batch[b].product].tracked
    BY <1>3 DEF Documents, LotsBelong
  <2>2. CASE batch[b].product = p
    <3>1. BatchesOf(batch, p) # {}
      BY <2>2 DEF BatchesOf
    <3>2. terms.tracked = product[p].tracked
      BY Zenon, <1>2, <3>1
    <3> QED
      BY <1>4, <2>1, <2>2, <3>2
  <2>3. CASE batch[b].product # p
    BY <1>4, <2>1, <2>3
  <2> QED
    BY <2>2, <2>3
<1>8. ASSUME NEW q \in Product PROVE Balance(q)'
  <2>1. Balance(q) /\ inventory' = inventory /\ batch' = batch
    BY <1>2, <1>3 DEF Documents, Balances
  <2>2. CASE q = p
    <3>1. CASE terms.tracked = product[p].tracked
      BY <1>4, <2>1, <2>2, <3>1 DEF Balance
    <3>2. CASE terms.tracked # product[p].tracked
      <4>1. Remaining(batch, p) = 0 /\ inventory[p].stock = 0
        BY <1>2, <3>2, NoneRemaining
      <4> QED
        BY <2>1, <2>2, <4>1 DEF Balance
    <3> QED
      BY <3>1, <3>2
  <2>3. CASE q # p
    BY <1>4, <2>1, <2>3 DEF Balance
  <2> QED
    BY <2>2, <2>3
<1>9. ASSUME NEW b \in Batch PROVE Accounted(b)'
  <2>1. Accounted(b)
    BY <1>3 DEF Documents, Balances
  <2>2. Out(b)' = Out(b)
    <3>1. sale' = sale
      BY <1>2
    <3> QED
      BY Zenon, <3>1 DEF Out, Standing
  <2> QED
    BY <1>2, <2>1, <2>2 DEF Accounted
<1>10. Covered({<< "product", p >>})
  BY <1>2, <1>4 DEF Covered
<1> QED
  BY <1>1, <1>5, <1>6, <1>7, <1>8, <1>9, <1>10, CommitStep DEF Documents, Balances

-----------------------------------------------------------------------------
\* Every request that moves stock moves it as Moved says.
LEMMA Moves ==
  ASSUME StockAssumption, IInv, NEW t \in Txn,
         \/ CommitRestock(t) \/ CommitSell(t) \/ CommitReverse(t) \/ CommitAdjust(t)
         \/ CommitSync(t)
  PROVE  \E p \in Product, n \in Int : \E gain, new, w : Moved(t, p, n, gain, new, w)
  BY RestockMoves, SellMoves, ReverseMoves, AdjustMoves, SyncMoves

LEMMA InitOK == StockAssumption /\ Init => IInv
<1> SUFFICES ASSUME StockAssumption, Init PROVE IInv
  OBVIOUS
<1>1. product \in [Product -> {terms \in ProductDoc : terms.active}]
  BY DEF Init
<1>2. /\ inventory = [p \in Product |-> [stock |-> 0, shortfall |-> FALSE]]
      /\ batch = [b \in Batch |-> NoBatch] /\ ledger = [p \in Product |-> Null]
      /\ sale = [s \in Sale |-> NoSale] /\ today = 0 /\ adjusted = Nothing
      /\ req = [t \in Txn |-> Idle] /\ snap = [t \in Txn |-> Idle]
      /\ missed = [t \in Txn |-> {}]
  BY Zenon DEF Init, TxnInit
<1>3. /\ \A p \in Product : inventory[p].stock = 0 /\ inventory[p].shortfall = FALSE
      /\ \A b \in Batch : batch[b] = NoBatch /\ adjusted[b] = 0
      /\ \A s \in Sale : sale[s] = NoSale
  BY <1>2 DEF Nothing
<1>4. /\ NoBatch \in BatchDoc /\ NoBatch.product = Null /\ NoBatch.remaining = 0
      /\ NoSale \in SaleDoc /\ NoSale.status = "NONE"
  BY DEF NoBatch, BatchDoc, NoSale, SaleDoc, Nothing
<1>5. LastDay \in Nat /\ MaxStock \in Nat /\ Null \notin Product
  BY DEF StockAssumption
<1>6. TypeOK
  <2>1. product \in [Product -> ProductDoc]
    BY <1>1
  <2>2. inventory \in [Product -> InventoryDoc] /\ ledger \in [Product -> Int \cup {Null}]
    BY <1>2 DEF InventoryDoc
  <2>3. /\ batch \in [Batch -> BatchDoc] /\ sale \in [Sale -> SaleDoc]
        /\ \A b \in Batch : batch[b].remaining < 0 => batch[b].quarantined
    BY <1>2, <1>3, <1>4
  <2>4. today \in Day /\ adjusted \in [Batch -> Int]
    BY <1>2, <1>5 DEF Day, Nothing
  <2> QED
    BY <2>1, <2>2, <2>3, <2>4 DEF TypeOK
<1>7. InBounds /\ LotsFit /\ SalesFit /\ LotsBelong
  BY <1>3, <1>4, <1>5 DEF InBounds, LotsFit, LotFits, SalesFit, SaleFits, LotsBelong
<1>8. \A t \in Txn : ~Running(t)
  BY <1>2 DEF Running
<1>9. LedgerReconciles
  BY <1>2 DEF LedgerReconciles, Reconciles, Current
<1>10. ASSUME NEW p \in Product PROVE Balance(p)
  <2>1. BatchesOf(batch, p) = {}
    BY <1>3, <1>4, <1>5 DEF BatchesOf
  <2>2. Remaining(batch, p) = 0
    BY <2>1, NoneRemaining
  <2> QED
    BY <1>3, <2>2 DEF Balance
<1>11. \A b \in Batch : Accounted(b)
  BY <1>3, <1>4 DEF Accounted
<1>12. TxnFits
  BY <1>2, <1>8 DEF TxnFits
<1> QED
  BY <1>6, <1>7, <1>8, <1>9, <1>10, <1>11, <1>12 DEF IInv, Documents, Balances, Fresh, LedgerAgrees

LEMMA NextOK == StockAssumption /\ IInv /\ [Next]_vars => IInv'
<1> SUFFICES ASSUME StockAssumption, IInv, [Next]_vars PROVE IInv'
  OBVIOUS
<1>1. ASSUME NEW t \in Txn,
             ArriveRestock(t) \/ ArriveSale(t) \/ ArriveReversal(t) \/ ArriveAdjust(t)
               \/ ArriveEdit(t)
      PROVE  IInv'
  <2>1. PICK r : Asked(r) /\ Arrive(t, r)
    BY <1>1, ArriveAsks
  <2> QED
    BY <2>1, ArriveKeeps
<1>2. ASSUME NEW t \in Txn,
             CommitRestock(t) \/ CommitSell(t) \/ CommitReverse(t) \/ CommitAdjust(t)
               \/ CommitSync(t)
      PROVE  IInv'
  <2>1. PICK p \in Product, n \in Int : \E gain, new, w : Moved(t, p, n, gain, new, w)
    BY <1>2, Moves
  <2>2. PICK gain, new, w : Moved(t, p, n, gain, new, w)
    BY Zenon, <2>1
  <2> QED
    BY <2>2, MovedKeeps
<1>3. ASSUME NEW t \in Txn, CommitEdit(t) PROVE IInv'
  BY <1>3, EditKeeps
<1>4. ASSUME NEW t \in Txn, Rerun(t) \/ Refuse(t) PROVE IInv'
  BY <1>4, RerunKeeps, RefuseKeeps
<1>5. CASE Midnight
  <2>1. /\ UNCHANGED << documents, adjusted, req, snap, missed >>
        /\ today < LastDay /\ today' = today + 1
    BY Zenon, <1>5 DEF Midnight
  <2>2. today' \in Day
    BY <2>1 DEF IInv, Documents, TypeOK, Day, StockAssumption
  <2> QED
    BY <2>1, <2>2, QuietKeeps
<1>6. CASE UNCHANGED vars
  <2>1. UNCHANGED << documents, adjusted, req, snap, missed >> /\ today' = today
    BY <1>6 DEF vars, txnVars
  <2>2. today' \in Day
    BY <2>1 DEF IInv, Documents, TypeOK
  <2> QED
    BY <2>1, <2>2, QuietKeeps
<1> QED
  BY <1>1, <1>2, <1>3, <1>4, <1>5, <1>6 DEF Next, Handle

-----------------------------------------------------------------------------
\* What holds in every state

\* What a request writes it read fresh, the documents fit together, the lots
\* add up to the stock, and the ledger follows it (stock-movement.service.ts record,
\* inventory.service.ts assertTrackingChange, saleVersion).
THEOREM Invariance == StockAssumption => (Spec => []IInv)
<1> SUFFICES ASSUME StockAssumption PROVE Spec => []IInv
  OBVIOUS
<1>1. Init => IInv
  BY InitOK
<1>2. IInv /\ [Next]_vars => IInv'
  BY NextOK
<1> QED
  BY <1>1, <1>2, PTL DEF Spec

\* The documents keep the shapes of their schemas, and no lot that can be sold
\* from goes below zero (batch.schema.ts remainingQty).
THEOREM TypeCorrect == StockAssumption => (Spec => []TypeOK)
<1> SUFFICES ASSUME StockAssumption PROVE Spec => []TypeOK
  OBVIOUS
<1>1. IInv => TypeOK
  BY DEF IInv, Documents
<1> QED
  BY Invariance, <1>1, PTL

\* Every lot, dated or quarantined, is of a product whose expiry is tracked:
\* tracking never ends while a request that makes a lot is on its way
\* (product.service.ts assertTrackingChange).
THEOREM LotsAreTracked == StockAssumption => (Spec => []LotsBelong)
<1> SUFFICES ASSUME StockAssumption PROVE Spec => []LotsBelong
  OBVIOUS
<1>1. IInv => LotsBelong
  BY DEF IInv, Documents
<1> QED
  BY Invariance, <1>1, PTL

\* Neither the stock nor what any request reads of it differs from the ledger:
\* record's check "Stock ledger does not reconcile" never fails.
THEOREM LedgerNeverThrows == StockAssumption => (Spec => []LedgerAgrees)
<1> SUFFICES ASSUME StockAssumption PROVE Spec => []LedgerAgrees
  OBVIOUS
<1>1. IInv => LedgerAgrees
  BY DEF IInv
<1> QED
  BY Invariance, <1>1, PTL

\* The lots of a tracked product add up to its stock, whatever requests
\* interleave (sales.service.ts sell, reverse, offline.service.ts sync,
\* batch.service.ts), and stock is below zero only where an upload took more than
\* there was.
THEOREM LotsAddUp == StockAssumption => (Spec => []BooksBalance)
<1> SUFFICES ASSUME StockAssumption PROVE Spec => []BooksBalance
  OBVIOUS
<1>1. IInv => BooksBalance
  <2> SUFFICES ASSUME IInv PROVE BooksBalance
    OBVIOUS
  <2>1. \A p \in Product : Balance(p)
    BY DEF IInv, Documents, Balances
  <2> QED
    BY <2>1 DEF Balance, BooksBalance, Book!Balanced
<1> QED
  BY Invariance, <1>1, PTL

\* Every unit received in a lot is on the shelf, in a sale that stands, or
\* written off (batch.schema.ts, sales.service.ts reverse).
THEOREM EveryUnitAccountedFor == StockAssumption => (Spec => []LotsAccountedFor)
<1> SUFFICES ASSUME StockAssumption PROVE Spec => []LotsAccountedFor
  OBVIOUS
<1>1. IInv => LotsAccountedFor
  <2> SUFFICES ASSUME IInv PROVE LotsAccountedFor
    OBVIOUS
  <2>1. \A b \in Batch : Accounted(b)
    BY DEF IInv, Documents, Balances
  <2> QED
    BY Zenon, <2>1 DEF Accounted, Out, Standing, LotsAccountedFor
<1> QED
  BY Invariance, <1>1, PTL

-----------------------------------------------------------------------------
\* Which request a step runs

\* A step that changes documents is the commit of one request.
LEMMA StepCommits ==
  ASSUME Next
  PROVE  \/ UNCHANGED documents
         \/ \E t \in Txn : CommitEdit(t)
         \/ \E t \in Txn : \/ CommitRestock(t) \/ CommitSell(t) \/ CommitReverse(t)
                           \/ CommitAdjust(t) \/ CommitSync(t)
<1>1. ASSUME Midnight PROVE UNCHANGED documents
  BY Zenon, <1>1 DEF Midnight
<1>2. ASSUME NEW t \in Txn, Rerun(t) \/ Refuse(t) PROVE UNCHANGED documents
  BY Zenon, <1>2 DEF Rerun, Refuse
<1>3. ASSUME NEW t \in Txn,
             \/ ArriveRestock(t) \/ ArriveSale(t) \/ ArriveReversal(t) \/ ArriveAdjust(t)
             \/ ArriveEdit(t)
      PROVE  UNCHANGED documents
  <2>1. ASSUME NEW r, Arrive(t, r) PROVE UNCHANGED documents
    BY Zenon, <2>1 DEF Arrive
  <2> QED
    BY Zenon, <1>3, <2>1 DEF ArriveRestock, ArriveSale, ArriveReversal, ArriveAdjust, ArriveEdit
<1> QED
  BY Zenon, <1>1, <1>2, <1>3 DEF Next, Handle

\* What a commit asks for, and that it leaves the other requests alone.
LEMMA CommitAsks ==
  ASSUME StockAssumption, IInv, NEW t \in Txn
  PROVE  /\ CommitRestock(t) => req[t].op = "restock"
         /\ CommitReverse(t) => req[t].op = "reverse"
         /\ CommitAdjust(t) => req[t].op = "adjust"
         /\ CommitSync(t) => req[t].op = "sync"
         /\ CommitEdit(t) => req[t].op = "edit"
<1>1. ASSUME CommitRestock(t) PROVE req[t].op = "restock"
  <2>1. PICK p \in Product, n \in Quantity, day \in Day \cup {Null} : req[t] = AskRestock(p, n, day)
    BY Zenon, <1>1 DEF CommitRestock
  <2> QED
    BY <2>1 DEF AskRestock
<1>2. ASSUME CommitReverse(t) PROVE req[t].op = "reverse"
  <2>1. PICK s \in Sale : req[t] = AskReversal(s)
    BY Zenon, <1>2 DEF CommitReverse
  <2> QED
    BY <2>1 DEF AskReversal
<1>3. ASSUME CommitAdjust(t) PROVE req[t].op = "adjust"
  BY Zenon, <1>3 DEF CommitAdjust
<1>4. ASSUME CommitSync(t) PROVE req[t].op = "sync"
  <2>1. PICK s \in Sale, p \in Product, n \in Quantity, lot \in SUBSET Batch :
          SyncedFrom(t, s, p, n, lot)
    BY Zenon, <1>4, SyncFrom
  <2>2. PICK admin \in BOOLEAN : req[t] = AskSync(s, p, n, admin)
    BY Zenon, <2>1 DEF SyncedFrom
  <2> QED
    BY <2>2 DEF AskSync
<1>5. ASSUME CommitEdit(t) PROVE req[t].op = "edit"
  <2>1. PICK p \in Product, terms \in ProductDoc : req[t] = AskEdit(p, terms)
    BY Zenon, <1>5 DEF CommitEdit
  <2> QED
    BY <2>1 DEF AskEdit
<1> QED
  BY <1>1, <1>2, <1>3, <1>4, <1>5

LEMMA OthersKeepTheirRequest ==
  ASSUME StockAssumption, IInv, NEW u \in Txn,
         \/ CommitRestock(u) \/ CommitSell(u) \/ CommitReverse(u) \/ CommitAdjust(u)
         \/ CommitSync(u) \/ CommitEdit(u)
  PROVE  \A t \in Txn : t # u => req'[t] = req[t]
<1>1. \E w : Commit(u, w)
  <2>1. CASE CommitEdit(u)
    <3>1. PICK p \in Product, terms \in ProductDoc : Commit(u, {<< "product", p >>})
      BY <2>1, EditFresh
    <3> QED
      BY Zenon, <3>1
  <2>2. CASE \/ CommitRestock(u) \/ CommitSell(u) \/ CommitReverse(u) \/ CommitAdjust(u)
             \/ CommitSync(u)
    <3>1. PICK p \in Product, n \in Int : \E gain, new, w : Moved(u, p, n, gain, new, w)
      BY <2>2, Moves
    <3> QED
      BY Zenon, <3>1 DEF Moved
  <2> QED
    BY <2>1, <2>2
<1>2. req' = [req EXCEPT ![u] = Idle]
  BY Zenon, <1>1 DEF Commit
<1>3. DOMAIN req = Txn
  BY DEF IInv, TxnFits
<1> QED
  BY <1>2, <1>3

\* A sale request that ends and takes from a lot has committed.
LEMMA SellerCommits ==
  ASSUME StockAssumption, IInv, Next, NEW t \in Txn,
         req[t].op = "sell", req'[t] = Idle, batch' # batch
  PROVE  CommitSell(t)
<1>1. req'[t] # req[t]
  BY DEF Idle
<1>2. ~UNCHANGED documents
  BY DEF documents
<1>3. ASSUME NEW u \in Txn, CommitEdit(u) PROVE FALSE
  <2>1. PICK p \in Product, terms \in ProductDoc : EditedNow(p, terms)
    BY <1>3, EditFresh
  <2> QED
    BY Zenon, <2>1 DEF EditedNow
<1>4. PICK u \in Txn : \/ CommitRestock(u) \/ CommitSell(u) \/ CommitReverse(u)
                       \/ CommitAdjust(u) \/ CommitSync(u)
  BY Zenon, <1>2, <1>3, StepCommits
<1>5. u = t
  BY <1>1, <1>4, OthersKeepTheirRequest
<1> QED
  BY <1>4, <1>5, CommitAsks

-----------------------------------------------------------------------------
\* What happens to sales

\* A sale changes when it is rung up, uploaded or reversed, and is then what
\* the request found it to be.
Uploaded(s) == sale[s].status = "NONE" /\ sale'[s].price = Null
ReversedNow(s) == sale[s].status = "COMPLETED" /\ sale'[s] = [sale[s] EXCEPT !.status = "REVERSED"]

LEMMA SaleStep ==
  ASSUME StockAssumption, IInv, Next, NEW s \in Sale, sale'[s] # sale[s]
  PROVE  \/ \E t \in Txn, p \in Product, n \in Quantity : \E alloc : SoldFrom(t, s, p, n, alloc)
         \/ Uploaded(s) \/ ReversedNow(s)
<1>1. sale \in [Sale -> SaleDoc]
  BY DEF IInv, Documents, TypeOK
<1>2. ~UNCHANGED documents
  BY DEF documents
<1>3. ASSUME NEW t \in Txn, CommitRestock(t) \/ CommitAdjust(t) \/ CommitEdit(t) PROVE FALSE
  <2>1. sale' = sale
    BY Zenon, <1>3 DEF CommitRestock, CommitAdjust, CommitEdit
  <2> QED
    BY <2>1
<1>4. ASSUME NEW t \in Txn, CommitSell(t)
      PROVE  \E p \in Product, n \in Quantity : \E alloc : SoldFrom(t, s, p, n, alloc)
  <2>0. PICK r \in Sale, p \in Product, n \in Quantity : \E alloc : SoldFrom(t, r, p, n, alloc)
    BY Zenon, <1>4, SellFrom
  <2>1. PICK alloc : SoldFrom(t, r, p, n, alloc)
    BY Zenon, <2>0
  <2> DEFINE doc == [status |-> "COMPLETED", product |-> p, quantity |-> n,
                     price |-> snap[t].product[p].price, alloc |-> alloc]
  <2>2. sale' = [sale EXCEPT ![r] = doc]
    BY Zenon, <2>1 DEF SoldFrom
  <2> HIDE DEF doc
  <2>3. r = s
    BY <1>1, <2>2
  <2> QED
    BY Zenon, <2>1, <2>3
<1>5. ASSUME NEW t \in Txn, CommitSync(t) PROVE Uploaded(s)
  <2>1. PICK r \in Sale, p \in Product, n \in Quantity, lot \in SUBSET Batch :
          SyncedFrom(t, r, p, n, lot)
    BY Zenon, <1>5, SyncFrom
  <2> DEFINE w == StockWrites(p, lot) \cup {<< "sale", r >>}
             doc == [status |-> "COMPLETED", product |-> p, quantity |-> n,
                     price |-> Null, alloc |-> Nothing]
  <2>2. snap[t].sale[r].status = "NONE" /\ Commit(t, w) /\ sale' = [sale EXCEPT ![r] = doc]
    BY Zenon, <2>1 DEF SyncedFrom
  <2>3. doc.price = Null
    OBVIOUS
  <2>4. PICK admin \in BOOLEAN : req[t] = AskSync(r, p, n, admin)
    BY Zenon, <2>1 DEF SyncedFrom
  <2>5. Running(t) /\ << "sale", r >> \in w
    BY <2>4 DEF Running, Idle, AskSync
  <2> HIDE DEF w, doc
  <2>6. r = s /\ sale'[s].price = Null
    BY <1>1, <2>2, <2>3
  <2>7. snap[t].sale[r] = sale[r]
    BY <2>2, <2>5, ReadFresh
  <2> QED
    BY <2>2, <2>6, <2>7 DEF Uploaded
<1>6. ASSUME NEW t \in Txn, CommitReverse(t) PROVE ReversedNow(s)
  <2>1. PICK r \in Sale, extra \in SUBSET Batch : ReversedFrom(t, r, extra)
    BY Zenon, <1>6, ReverseFrom
  <2> DEFINE w == StockWrites(snap[t].sale[r].product, GaveTo(snap[t].sale[r].alloc) \cup extra)
                    \cup {<< "sale", r >>}
             doc == [sale[r] EXCEPT !.status = "REVERSED"]
  <2>2. /\ req[t] = AskReversal(r) /\ snap[t].sale[r].status = "COMPLETED" /\ Commit(t, w)
        /\ sale' = [sale EXCEPT ![r].status = "REVERSED"]
    BY Zenon, <2>1 DEF ReversedFrom
  <2>3. sale' = [sale EXCEPT ![r] = doc]
    BY <2>2
  <2>4. Running(t) /\ << "sale", r >> \in w
    BY <2>2 DEF Running, Idle, AskReversal
  <2> HIDE DEF w, doc
  <2>5. r = s /\ sale'[s] = doc
    BY <1>1, <2>3
  <2>6. snap[t].sale[r] = sale[r]
    BY <2>2, <2>4, ReadFresh
  <2> QED
    BY <2>2, <2>5, <2>6 DEF ReversedNow, doc
<1> QED
  BY Zenon, <1>2, <1>3, <1>4, <1>5, <1>6, StepCommits

\* A sale that is new and has a price was rung up at a register.
LEMMA RungUp ==
  ASSUME StockAssumption, IInv, Next, NEW s \in Sale,
         sale[s].status = "NONE", sale'[s].price # Null
  PROVE  \E t \in Txn, p \in Product, n \in Quantity : \E alloc :
            /\ SoldNow(t, s, p, n, alloc)
            /\ sale'[s].product = p /\ sale'[s].quantity = n /\ sale'[s].alloc = alloc
            /\ sale'[s].price = product[p].price
<1>1. sale[s].price = Null /\ sale \in [Sale -> SaleDoc]
  BY DEF IInv, Documents, TypeOK, SalesFit, SaleFits, NoSale
<1>2. PICK t \in Txn, p \in Product, n \in Quantity : \E alloc : SoldFrom(t, s, p, n, alloc)
  BY <1>1, SaleStep DEF Uploaded, ReversedNow
<1>3. PICK alloc : SoldFrom(t, s, p, n, alloc)
  BY Zenon, <1>2
<1>4. SoldNow(t, s, p, n, alloc)
  BY <1>3, SoldFresh
<1> DEFINE doc == [status |-> "COMPLETED", product |-> p, quantity |-> n,
                   price |-> product[p].price, alloc |-> alloc]
<1>5. sale' = [sale EXCEPT ![s] = doc]
  BY Zenon, <1>4 DEF SoldNow
<1>6. /\ doc.product = p /\ doc.quantity = n /\ doc.alloc = alloc
      /\ doc.price = product[p].price
  OBVIOUS
<1> HIDE DEF doc
<1>7. sale'[s] = doc
  BY <1>1, <1>5
<1> QED
  BY Zenon, <1>4, <1>6, <1>7

\* A sale is rung up at the price, and with the tracking, that the product has
\* when the sale is recorded, and never after the product was archived
\* (sales.service.ts sell, product.service.ts getMany).
THEOREM SoldOnTerms == StockAssumption => (Spec => SoldOnCurrentTerms)
<1> SUFFICES ASSUME StockAssumption PROVE Spec => SoldOnCurrentTerms
  OBVIOUS
<1> DEFINE OnTerms ==
      \A s \in Sale : (sale[s].status = "NONE" /\ sale'[s].price # Null) =>
         LET p == product[sale'[s].product]
         IN  /\ p.active /\ p.price = sale'[s].price
             /\ IF p.tracked THEN SumFunction(sale'[s].alloc) = sale'[s].quantity
                             ELSE sale'[s].alloc = Nothing
<1>1. IInv /\ [Next]_vars => [OnTerms]_vars
  <2> SUFFICES ASSUME IInv, Next, NEW s \in Sale, sale[s].status = "NONE", sale'[s].price # Null
               PROVE  LET p == product[sale'[s].product]
                      IN  /\ p.active /\ p.price = sale'[s].price
                          /\ IF p.tracked THEN SumFunction(sale'[s].alloc) = sale'[s].quantity
                                          ELSE sale'[s].alloc = Nothing
    OBVIOUS
  <2>1. PICK t \in Txn, p \in Product, n \in Quantity : \E alloc :
            /\ SoldNow(t, s, p, n, alloc)
            /\ sale'[s].product = p /\ sale'[s].quantity = n /\ sale'[s].alloc = alloc
            /\ sale'[s].price = product[p].price
    BY RungUp
  <2>2. PICK alloc : /\ SoldNow(t, s, p, n, alloc)
                     /\ sale'[s].product = p /\ sale'[s].quantity = n /\ sale'[s].alloc = alloc
                     /\ sale'[s].price = product[p].price
    BY Zenon, <2>1
  <2>3. /\ product[p].active
        /\ IF product[p].tracked THEN SumFunction(alloc) = n ELSE alloc = Nothing
    BY Zenon, <2>2 DEF SoldNow
  <2> QED
    BY Zenon, <2>2, <2>3
<1> QED
  BY Invariance, <1>1, PTL DEF Spec, SoldOnCurrentTerms

\* Registers never sell more than there is, however many sell at the same time
\* (the guarded decrement, and the snapshot it is decided on).
THEOREM NeverOversold == StockAssumption => (Spec => SoldWhatIsThere)
<1> SUFFICES ASSUME StockAssumption PROVE Spec => SoldWhatIsThere
  OBVIOUS
<1> DEFINE There == \A s \in Sale : (sale[s].status = "NONE" /\ sale'[s].price # Null) =>
                      inventory[sale'[s].product].stock >= sale'[s].quantity
<1>1. IInv /\ [Next]_vars => [There]_vars
  <2> SUFFICES ASSUME IInv, Next, NEW s \in Sale, sale[s].status = "NONE", sale'[s].price # Null
               PROVE  inventory[sale'[s].product].stock >= sale'[s].quantity
    OBVIOUS
  <2>1. PICK t \in Txn, p \in Product, n \in Quantity : \E alloc :
            /\ SoldNow(t, s, p, n, alloc)
            /\ sale'[s].product = p /\ sale'[s].quantity = n /\ sale'[s].alloc = alloc
            /\ sale'[s].price = product[p].price
    BY RungUp
  <2>2. inventory[p].stock >= n /\ sale'[s].product = p /\ sale'[s].quantity = n
    BY Zenon, <2>1 DEF SoldNow
  <2> QED
    BY <2>2
<1> QED
  BY Invariance, <1>1, PTL DEF Spec, SoldWhatIsThere

\* A recorded sale is reversed once, or stays as it was rung up
\* (sales.service.ts reverse).
THEOREM SalesStayRecorded == StockAssumption => (Spec => SalesAreFinal)
<1> SUFFICES ASSUME StockAssumption PROVE Spec => SalesAreFinal
  OBVIOUS
<1> DEFINE Final == \A s \in Sale : sale[s].status # "NONE" =>
                      sale'[s] \in {sale[s], [sale[s] EXCEPT !.status = "REVERSED"]}
<1>1. IInv /\ [Next]_vars => [Final]_vars
  <2> SUFFICES ASSUME IInv, Next, NEW s \in Sale, sale[s].status # "NONE", sale'[s] # sale[s]
               PROVE  sale'[s] = [sale[s] EXCEPT !.status = "REVERSED"]
    OBVIOUS
  <2>1. ~Uploaded(s)
    BY DEF Uploaded
  <2>2. ASSUME NEW t \in Txn, NEW p \in Product, NEW n \in Quantity, NEW alloc,
               SoldFrom(t, s, p, n, alloc)
        PROVE  FALSE
    <3>1. SoldNow(t, s, p, n, alloc)
      BY <2>2, SoldFresh
    <3> QED
      BY Zenon, <3>1 DEF SoldNow
  <2> QED
    BY Zenon, <2>1, <2>2, SaleStep DEF ReversedNow
<1> QED
  BY Invariance, <1>1, PTL DEF Spec, SalesAreFinal

\* Register sales leave no unexpired unit on the shelf that expires before one
\* they sell, and sell nothing that was expired when they began
\* (sales.service.ts sell, batch.service.ts).
THEOREM OldestLotFirst == StockAssumption => (Spec => FirstExpiringFirst)
<1> SUFFICES ASSUME StockAssumption PROVE Spec => FirstExpiringFirst
  OBVIOUS
<1> DEFINE InOrder ==
      \A t \in Txn, b, c \in Batch :
         (req[t].op = "sell" /\ req'[t] = Idle /\ batch'[b].remaining < batch[b].remaining) =>
            /\ batch[b].expiry >= snap[t].today
            /\ (batch[c].product = batch[b].product /\ batch[c].expiry # Null
                  /\ batch[c].expiry \in snap[t].today..batch[b].expiry - 1)
               => batch'[c].remaining = 0
<1>1. IInv /\ [Next]_vars => [InOrder]_vars
  <2> SUFFICES ASSUME IInv, Next, NEW t \in Txn, NEW b \in Batch, NEW c \in Batch,
                      req[t].op = "sell", req'[t] = Idle,
                      batch'[b].remaining < batch[b].remaining
               PROVE  /\ batch[b].expiry >= snap[t].today
                      /\ (batch[c].product = batch[b].product /\ batch[c].expiry # Null
                            /\ batch[c].expiry \in snap[t].today..batch[b].expiry - 1)
                         => batch'[c].remaining = 0
    OBVIOUS
  <2>1. /\ batch \in [Batch -> BatchDoc]
        /\ \A e \in Batch : batch[e].remaining \in Int
        /\ \A e \in Batch : batch[e].remaining < 0 => batch[e].quarantined
    BY DEF IInv, Documents, TypeOK, BatchDoc
  <2>2. CommitSell(t)
    <3>1. batch' # batch
      BY <2>1
    <3> QED
      BY <3>1, SellerCommits
  <2>3. PICK s \in Sale, p \in Product, n \in Quantity : \E alloc : SoldFrom(t, s, p, n, alloc)
    BY Zenon, <2>2, SellFrom
  <2>4. PICK alloc : SoldFrom(t, s, p, n, alloc)
    BY Zenon, <2>3
  <2>5. alloc \in [Batch -> Nat]
    BY <2>4, SoldLots
  <2>6. \A e \in Batch : batch'[e].remaining = batch[e].remaining - alloc[e]
    <3> DEFINE gain == [e \in Batch |-> -alloc[e]]
    <3>1. batch' = [e \in Batch |-> [batch[e] EXCEPT !.remaining = @ + gain[e]]]
      BY Zenon, <2>4 DEF SoldFrom, Batches
    <3>2. \A e \in Batch : gain[e] \in Int /\ gain[e] = -alloc[e]
      BY <2>5
    <3> HIDE DEF gain
    <3> SUFFICES ASSUME NEW e \in Batch
                 PROVE  batch'[e].remaining = batch[e].remaining - alloc[e]
      OBVIOUS
    <3>3. batch'[e] = [batch[e] EXCEPT !.remaining = @ + gain[e]] /\ batch[e] \in BatchDoc
      BY <2>1, <3>1
    <3>4. batch'[e].remaining = batch[e].remaining + gain[e]
      BY <3>3 DEF BatchDoc
    <3> QED
      BY <2>1, <2>5, <3>2, <3>4
  <2>7. alloc[b] # 0
    BY <2>1, <2>5, <2>6
  <2>8. /\ batch[b].product = p /\ ~batch[b].quarantined /\ batch[b].expiry >= snap[t].today
        /\ \A e \in Batch :
              (/\ batch[e].product = p /\ batch[e].remaining > 0 /\ ~batch[e].quarantined
               /\ batch[e].expiry >= snap[t].today /\ batch[e].expiry < batch[b].expiry)
              => alloc[e] = batch[e].remaining
    BY <2>4, <2>7, SoldLots
  <2>9. ASSUME batch[c].product = p, batch[c].expiry # Null,
               batch[c].expiry \in snap[t].today..batch[b].expiry - 1
        PROVE  batch'[c].remaining = 0
    <3>1. LotFits(b) /\ LotFits(c) /\ p # Null
      BY DEF IInv, Documents, LotsFit, StockAssumption
    <3>2. ~batch[c].quarantined /\ batch[c].remaining >= 0
      BY <2>1, <2>9, <3>1 DEF LotFits
    <3>3. batch[b].expiry \in Int /\ snap[t].today \in Int
      <4>1. batch[b].expiry \in Day
        BY <2>8, <3>1 DEF LotFits
      <4>2. Running(t)
        BY DEF Running, Idle
      <4>3. snap[t].today \in Day
        BY <4>2 DEF IInv, TxnFits
      <4> QED
        BY <4>1, <4>3 DEF Day, StockAssumption
    <3>4. batch[c].expiry >= snap[t].today /\ batch[c].expiry < batch[b].expiry
      BY <2>9, <3>3
    <3>5. CASE batch[c].remaining > 0
      <4>1. alloc[c] = batch[c].remaining
        BY <2>8, <2>9, <3>2, <3>4, <3>5
      <4> QED
        BY <2>1, <2>6, <4>1
    <3>6. CASE batch[c].remaining = 0
      <4>1. alloc[c] # 0 => alloc[c] <= batch[c].remaining
        BY <2>4, SoldLots
      <4> QED
        BY <2>5, <2>6, <3>6, <4>1
    <3> QED
      BY <2>1, <3>2, <3>5, <3>6
  <2> QED
    BY <2>8, <2>9
<1> QED
  BY Invariance, <1>1, PTL DEF Spec, FirstExpiringFirst

-----------------------------------------------------------------------------
\* Every request is one step of StockBook, or none

\* The quantities of a product that the book knows.
OnHand(p) == inventory[p].stock
Lots(p) == Remaining(batch, p)

LEMMA BookMoves ==
  ASSUME NEW p \in Product, NEW quantity, product' = product,
         \A q \in Product : OnHand(q)' = IF q = p THEN quantity ELSE OnHand(q),
         \A q \in Product : Lots(q)' = IF q = p /\ product[q].tracked THEN quantity ELSE Lots(q)
  PROVE  LET H == [q \in Product |-> OnHand(q)]
             L == [q \in Product |-> Lots(q)]
             D == [q \in Product |-> product[q].tracked]
         IN  /\ H' = [H EXCEPT ![p] = quantity]
             /\ L' = [L EXCEPT ![p] = IF D[p] THEN quantity ELSE @]
             /\ D' = D
<1> DEFINE H == [q \in Product |-> OnHand(q)]
           L == [q \in Product |-> Lots(q)]
           D == [q \in Product |-> product[q].tracked]
<1>1. H' = [H EXCEPT ![p] = quantity]
  <2> HIDE DEF OnHand
  <2> QED
    OBVIOUS
<1>2. L' = [L EXCEPT ![p] = IF D[p] THEN quantity ELSE @]
  OBVIOUS
<1>3. D' = D
  OBVIOUS
<1> QED
  BY Zenon, <1>1, <1>2, <1>3

LEMMA BookRests ==
  ASSUME \A q \in Product : OnHand(q)' = OnHand(q),
         \A q \in Product : Lots(q)' = Lots(q),
         \A q \in Product : product'[q].tracked = product[q].tracked,
         \A q \in Product : inventory'[q].shortfall = inventory[q].shortfall
  PROVE  UNCHANGED Book!bookVars
<1>1. [q \in Product |-> OnHand(q)]' = [q \in Product |-> OnHand(q)]
  BY Zenon
<1>2. [q \in Product |-> Lots(q)]' = [q \in Product |-> Lots(q)]
  BY Zenon
<1>3. [q \in Product |-> product[q].tracked]' = [q \in Product |-> product[q].tracked]
  BY Zenon
<1>4. [q \in Product |-> inventory[q].shortfall]' = [q \in Product |-> inventory[q].shortfall]
  BY Zenon
<1> QED
  BY Zenon, <1>1, <1>2, <1>3, <1>4 DEF Book!bookVars, OnHand, Lots

LEMMA MovedInBook ==
  ASSUME StockAssumption, IInv, IInv', NEW t \in Txn, NEW p \in Product, NEW n \in Int,
         NEW gain, NEW new, NEW w, Moved(t, p, n, gain, new, w)
  PROVE  [Book!BookNext]_(Book!bookVars)
<1>1. /\ product' = product /\ StockStep(p, n) /\ LotsStep(p, gain, new)
      /\ product[p].tracked => SumFunctionOnSet(gain, Batch) = n
  BY Zenon DEF Moved
<1>2. /\ \A q \in Product : q # p => inventory'[q] = inventory[q]
      /\ inventory'[p].stock = inventory[p].stock + n
      /\ \/ /\ n < 0 => inventory[p].stock + n >= 0
            /\ inventory'[p].shortfall = inventory[p].shortfall
         \/ /\ n < 0
            /\ inventory'[p].shortfall = (inventory[p].shortfall \/ inventory[p].stock < -n)
  BY Zenon, <1>1 DEF StockStep
<1>3. /\ inventory[p].stock \in -MaxStock..MaxStock /\ inventory'[p].stock \in -MaxStock..MaxStock
      /\ MaxStock \in Nat
  BY DEF IInv, Documents, InBounds, StockAssumption
<1>4. \A q \in Product : OnHand(q)' = IF q = p THEN OnHand(p) + n ELSE OnHand(q)
  BY <1>2 DEF OnHand
<1>5. \A q \in Product : Lots(q)' = IF q = p /\ product[q].tracked THEN OnHand(p) + n ELSE Lots(q)
  <2> SUFFICES ASSUME NEW q \in Product
               PROVE  Lots(q)' = IF q = p /\ product[q].tracked THEN OnHand(p) + n ELSE Lots(q)
    OBVIOUS
  <2>1. /\ Lots(q) \in Int
        /\ q = p => Lots(q)' = Lots(q) + SumFunctionOnSet(gain, Batch)
        /\ q # p => Lots(q)' = Lots(q)
    BY <1>1, RemainingMoves DEF Lots
  <2>2. CASE q # p
    BY <2>1, <2>2
  <2>3. CASE q = p /\ product[p].tracked
    <3>1. Lots(p) = OnHand(p)
      BY <2>3 DEF IInv, Documents, Balances, Balance, Lots, OnHand
    <3> QED
      BY <1>1, <2>1, <2>3, <3>1
  <2>4. CASE q = p /\ ~product[p].tracked
    <3>1. \A b \in Batch : gain[b] = 0
      <4> SUFFICES ASSUME NEW b \in Batch, gain[b] # 0 PROVE FALSE
        OBVIOUS
      <4>1. batch'[b].product = p
        BY <1>1 DEF LotsStep
      <4>2. LotsBelong' /\ p # Null
        BY DEF IInv, Documents, StockAssumption
      <4> QED
        BY <1>1, <2>4, <4>1, <4>2 DEF LotsBelong
    <3>2. SumFunctionOnSet(gain, Batch) = 0
      BY <3>1, SumZero DEF StockAssumption
    <3> QED
      BY <2>1, <2>4, <3>2
  <2> QED
    BY <2>2, <2>3, <2>4
<1> DEFINE H == [q \in Product |-> OnHand(q)]
           L == [q \in Product |-> Lots(q)]
           D == [q \in Product |-> product[q].tracked]
<1>0. PICK quantity : quantity = OnHand(p) + n
  OBVIOUS
<1>6. /\ H' = [H EXCEPT ![p] = quantity]
      /\ L' = [L EXCEPT ![p] = IF D[p] THEN quantity ELSE @]
      /\ D' = D
  <2>1. product' = product
    BY <1>1
  <2>2. \A q \in Product : OnHand(q)' = IF q = p THEN quantity ELSE OnHand(q)
    BY Zenon, <1>0, <1>4
  <2>3. \A q \in Product :
          Lots(q)' = IF q = p /\ product[q].tracked THEN quantity ELSE Lots(q)
    BY Zenon, <1>0, <1>5
  <2> QED
    BY Zenon, <2>1, <2>2, <2>3, BookMoves
<1>7. ASSUME inventory'[p].shortfall = inventory[p].shortfall
      PROVE  UNCHANGED [q \in Product |-> inventory[q].shortfall]
  <2>1. \A q \in Product : inventory'[q].shortfall = inventory[q].shortfall
    BY <1>2, <1>7
  <2> QED
    BY Zenon, <2>1
<1>8. H[p] = OnHand(p) /\ OnHand(p) \in Int
  BY <1>3 DEF OnHand
<1>9. CASE n = 0
  <2>1. inventory'[p].shortfall = inventory[p].shortfall
    BY <1>2, <1>9
  <2>2. \A q \in Product : inventory'[q].shortfall = inventory[q].shortfall
    BY <1>2, <2>1
  <2>3. \A q \in Product : OnHand(q)' = OnHand(q)
    BY <1>4, <1>8, <1>9
  <2>4. \A q \in Product : Lots(q)' = Lots(q)
    <3>1. product[p].tracked => Lots(p) = OnHand(p)
      BY DEF IInv, Documents, Balances, Balance, Lots, OnHand
    <3> QED
      BY <1>5, <1>8, <1>9, <3>1
  <2>5. \A q \in Product : product'[q].tracked = product[q].tracked
    BY <1>1
  <2> QED
    BY <2>2, <2>3, <2>4, <2>5, BookRests
<1>10. CASE n > 0
  <2>1. n \in 1..2 * MaxStock
    BY <1>2, <1>3, <1>10
  <2>2. inventory'[p].shortfall = inventory[p].shortfall
    BY <1>2, <1>10
  <2>3. quantity = H[p] + n
    BY Zenon, <1>0, <1>8
  <2>4. Book!PutIn(p, n)
    BY Zenon, <1>6, <1>7, <2>2, <2>3 DEF Book!PutIn, Book!MoveTo, OnHand, Lots
  <2> QED
    BY Zenon, <2>1, <2>4 DEF Book!BookNext
<1>11. CASE n < 0
  <2> DEFINE k == -n
  <2>1. k \in 1..2 * MaxStock
    BY <1>2, <1>3, <1>11
  <2>2. quantity = H[p] - k
    BY <1>0, <1>8
  <2>4. CASE /\ inventory[p].stock + n >= 0 /\ inventory'[p].shortfall = inventory[p].shortfall
    <3>1. H[p] >= k
      BY <1>3, <2>4 DEF OnHand
    <3> HIDE DEF k
    <3>2. Book!TakeOut(p, k)
      BY Zenon, <1>6, <1>7, <2>2, <2>4, <3>1 DEF Book!TakeOut, Book!MoveTo, OnHand, Lots
    <3> QED
      BY Zenon, <2>1, <3>2 DEF Book!BookNext
  <2>5. CASE inventory'[p].shortfall = (inventory[p].shortfall \/ inventory[p].stock < -n)
    <3> DEFINE O == [q \in Product |-> inventory[q].shortfall]
    <3>1. O' = [O EXCEPT ![p] = @ \/ H[p] < k]
      <4>1. H[p] < k <=> inventory[p].stock < -n
        BY Zenon, <1>8 DEF OnHand
      <4>2. \A q \in Product : O'[q] = IF q = p THEN O[p] \/ H[p] < k ELSE O[q]
        <5> SUFFICES ASSUME NEW q \in Product
                     PROVE  O'[q] = IF q = p THEN O[p] \/ H[p] < k ELSE O[q]
          OBVIOUS
        <5>1. CASE q = p
          BY Zenon, <2>5, <4>1, <5>1
        <5>2. CASE q # p
          BY Zenon, <1>2, <5>2
        <5> QED
          BY Zenon, <5>1, <5>2
      <4> QED
        BY Zenon, <4>2
    <3> HIDE DEF k
    <3>2. Book!TakeOffline(p, k)
      BY Zenon, <1>6, <2>2, <3>1 DEF Book!TakeOffline, Book!MoveTo, OnHand, Lots
    <3> QED
      BY Zenon, <2>1, <3>2 DEF Book!BookNext
  <2> QED
    BY <1>2, <1>11, <2>4, <2>5
<1> QED
  BY <1>9, <1>10, <1>11

LEMMA EditedInBook ==
  ASSUME StockAssumption, IInv, NEW p \in Product, NEW terms \in ProductDoc, EditedNow(p, terms)
  PROVE  [Book!BookNext]_(Book!bookVars)
<1>1. /\ terms.tracked # product[p].tracked =>
           inventory[p].stock = 0 /\ BatchesOf(batch, p) = {}
      /\ product' = [product EXCEPT ![p] = terms]
      /\ inventory' = inventory /\ batch' = batch
  BY Zenon DEF EditedNow
<1>2. /\ \A q \in Product : OnHand(q)' = OnHand(q)
      /\ \A q \in Product : inventory'[q].shortfall = inventory[q].shortfall
  BY <1>1 DEF OnHand
<1>3. \A q \in Product : Lots(q)' = Lots(q)
  BY Zenon, <1>1 DEF Lots
<1>4. /\ product \in [Product -> ProductDoc] /\ product'[p] = terms
      /\ \A q \in Product : q # p => product'[q] = product[q]
      /\ terms.tracked \in BOOLEAN /\ product[p].tracked \in BOOLEAN
  BY <1>1 DEF IInv, Documents, TypeOK, ProductDoc
<1>5. CASE terms.tracked = product[p].tracked
  <2>1. \A q \in Product : product'[q].tracked = product[q].tracked
    BY <1>4, <1>5
  <2> QED
    BY <1>2, <1>3, <2>1, BookRests
<1>6. CASE terms.tracked # product[p].tracked
  <2> DEFINE H == [q \in Product |-> OnHand(q)]
             L == [q \in Product |-> Lots(q)]
             D == [q \in Product |-> product[q].tracked]
             O == [q \in Product |-> inventory[q].shortfall]
  <2>1. H[p] = 0 /\ L[p] = 0
    <3>1. inventory[p].stock = 0 /\ Remaining(batch, p) = 0
      BY Zenon, <1>1, <1>6, NoneRemaining
    <3> QED
      BY Zenon, <3>1 DEF OnHand, Lots
  <2>2. H' = H /\ L' = L /\ O' = O
    BY Zenon, <1>2, <1>3
  <2>3. D' = [D EXCEPT ![p] = ~@]
    <3>1. \A q \in Product : D'[q] = IF q = p THEN ~D[p] ELSE D[q]
      <4> SUFFICES ASSUME NEW q \in Product PROVE D'[q] = IF q = p THEN ~D[p] ELSE D[q]
        OBVIOUS
      <4>1. CASE q = p
        <5>1. terms.tracked = ~product[p].tracked
          BY Zenon, <1>4, <1>6
        <5> QED
          BY Zenon, <1>4, <4>1, <5>1
      <4>2. CASE q # p
        BY Zenon, <1>4, <4>2
      <4> QED
        BY Zenon, <4>1, <4>2
    <3> QED
      BY Zenon, <3>1
  <2>4. Book!Switch(p)
    BY Zenon, <2>1, <2>2, <2>3 DEF Book!Switch, OnHand, Lots
  <2> QED
    BY Zenon, <2>4 DEF Book!BookNext
<1> QED
  BY <1>5, <1>6

\* Transactions that interleave change stock, lots and tracking as if each had
\* run alone (sales.service.ts, batch.service.ts, product.service.ts): Stock
\* implements StockBook.
THEOREM StockImplementsBook == StockAssumption => (Spec => ImplementsStockBook)
<1> SUFFICES ASSUME StockAssumption PROVE Spec => ImplementsStockBook
  OBVIOUS
<1>1. Init => Book!BookInit
  <2> SUFFICES ASSUME Init PROVE Book!BookInit
    OBVIOUS
  <2>1. /\ product \in [Product -> {terms \in ProductDoc : terms.active}]
        /\ inventory = [p \in Product |-> [stock |-> 0, shortfall |-> FALSE]]
        /\ batch = [b \in Batch |-> NoBatch]
    BY Zenon DEF Init
  <2>2. \A p \in Product : inventory[p].stock = 0 /\ inventory[p].shortfall = FALSE
    BY <2>1
  <2>3. \A p \in Product : Lots(p) = 0
    <3> SUFFICES ASSUME NEW p \in Product PROVE Lots(p) = 0
      OBVIOUS
    <3>1. BatchesOf(batch, p) = {}
      BY <2>1 DEF BatchesOf, NoBatch, StockAssumption
    <3> QED
      BY <3>1, NoneRemaining DEF Lots
  <2>4. [p \in Product |-> inventory[p].stock] = [p \in Product |-> 0]
    BY Zenon, <2>2
  <2>5. [p \in Product |-> inventory[p].shortfall] = [p \in Product |-> FALSE]
    BY Zenon, <2>2
  <2>6. [p \in Product |-> Lots(p)] = [p \in Product |-> 0]
    BY Zenon, <2>3
  <2>7. [p \in Product |-> product[p].tracked] \in [Product -> BOOLEAN]
    BY <2>1 DEF ProductDoc
  <2> QED
    BY Zenon, <2>4, <2>5, <2>6, <2>7 DEF Book!BookInit, Lots
<1>2. IInv /\ IInv' /\ [Next]_vars => [Book!BookNext]_(Book!bookVars)
  <2> SUFFICES ASSUME IInv, IInv', [Next]_vars PROVE [Book!BookNext]_(Book!bookVars)
    OBVIOUS
  <2>1. CASE UNCHANGED vars
    <3>1. UNCHANGED << product, inventory, batch >>
      BY <2>1 DEF vars, documents
    <3> QED
      BY Zenon, <3>1, BookRests DEF OnHand, Lots
  <2>2. CASE Next
    <3>1. CASE UNCHANGED documents
      <4>1. UNCHANGED << product, inventory, batch >>
        BY <3>1 DEF documents
      <4> QED
        BY Zenon, <4>1, BookRests DEF OnHand, Lots
    <3>2. ASSUME NEW t \in Txn, CommitEdit(t) PROVE [Book!BookNext]_(Book!bookVars)
      <4>1. PICK p \in Product, terms \in ProductDoc : EditedNow(p, terms)
        BY <3>2, EditFresh
      <4> QED
        BY <4>1, EditedInBook
    <3>3. ASSUME NEW t \in Txn, \/ CommitRestock(t) \/ CommitSell(t) \/ CommitReverse(t)
                                \/ CommitAdjust(t) \/ CommitSync(t)
          PROVE  [Book!BookNext]_(Book!bookVars)
      <4>1. PICK p \in Product, n \in Int : \E gain, new, w : Moved(t, p, n, gain, new, w)
        BY <3>3, Moves
      <4>2. PICK gain, new, w : Moved(t, p, n, gain, new, w)
        BY Zenon, <4>1
      <4> QED
        BY <4>2, MovedInBook
    <3> QED
      BY Zenon, <2>2, <3>1, <3>2, <3>3, StepCommits
  <2> QED
    BY <2>1, <2>2
<1> QED
  BY Invariance, <1>1, <1>2, PTL DEF Spec, ImplementsStockBook, Book!BookSpec
=============================================================================
