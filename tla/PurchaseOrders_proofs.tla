----------------------- MODULE PurchaseOrders_proofs -----------------------
(***************************************************************************)
(* What purchase orders keep for any number of orders, users and requests. *)
(*                                                                         *)
(* An order only advances (Advances): a write raises its version, and      *)
(* every copy of it, in a page or in the snapshot of a transaction, is one *)
(* of its earlier states (Past), the present one if the versions agree.    *)
(* A delivery is recorded once because all requests for it carry one key   *)
(* and one version as long as its user just repeats them, and the first to *)
(* commit leaves the others with a version that no write accepts.          *)
(*                                                                         *)
(* What an order counts as received is the sum of its receipts (AddUp): a  *)
(* receipt comes in with its quantities, and never twice (SetSums).        *)
(***************************************************************************)
EXTENDS PurchaseOrders, SetSums

USE OrderAssumption

\* A document's fields agree with one another.
StatusTells(doc) ==
    /\ doc.status = "RECEIVED" => doc.received = doc.ordered
    /\ doc.status \in {"DRAFT", "SENT"} => doc.received = None
    /\ doc.status = "PARTIALLY_RECEIVED" => doc.received \notin {None, doc.ordered}
    /\ doc.status = "CANCELLED" => (doc.closedShort <=> doc.received # None)

\* What is received is what the receipts add up to.
AddUp(receipts, received) ==
    IsFiniteSet(receipts) /\ \A l \in Line : received[l] = ReceiptTotal(receipts, l)

Sound(doc) ==
    /\ doc \in OrderDoc /\ AddUp(doc.receipts, doc.received)
    /\ IF doc.status = "NONE" THEN doc = NoOrder ELSE doc.supplier \in Supplier
    /\ \A l \in Line : doc.received[l] <= doc.ordered[l]
    /\ \A r \in doc.receipts : r.version < doc.version
    /\ StatusTells(doc)

\* What a step does to a document, if anything: it is created, or written.
Created(a, b) == a = NoOrder /\ b.status = "DRAFT" /\ b.version = 0 /\ b.receipts = {}
Written(a, b) ==
    /\ a.status \notin {"NONE", "RECEIVED", "CANCELLED"} /\ b.status # "NONE"
    /\ b.version = a.version + 1
    /\ a.receipts \subseteq b.receipts
    /\ \A r \in b.receipts \ a.receipts : r.version = a.version
    /\ a.status # "DRAFT" => b.ordered = a.ordered /\ b.supplier = a.supplier
Advances(a, b) == b = a \/ Created(a, b) \/ Written(a, b)

\* a is an earlier state of the document b.
Past(a, b) ==
    /\ a.version <= b.version
    /\ a.status # "NONE" => b.status # "NONE" /\ (a.version = b.version => a = b)
    /\ a.receipts \subseteq b.receipts
    /\ \A r \in b.receipts : r.version < a.version => r \in a.receipts

LEMMA PastSelf == ASSUME NEW a \in OrderDoc PROVE Past(a, a)
  BY DEF Past, OrderDoc

LEMMA PastAdvances ==
    ASSUME NEW a \in OrderDoc, NEW b \in OrderDoc, NEW c \in OrderDoc,
           Past(a, b), Advances(b, c)
    PROVE  Past(a, c)
  <1>1. a.version \in Int /\ b.version \in Int /\ c.version \in Int
    BY DEF OrderDoc
  <1>2. CASE c = b
    BY <1>2
  <1>3. CASE Created(b, c)
    BY <1>1, <1>3 DEF Past, Created, NoOrder
  <1>4. CASE Written(b, c)
    BY <1>1, <1>4 DEF Past, Written
  <1>5. QED
    BY <1>2, <1>3, <1>4 DEF Advances

-----------------------------------------------------------------------------
\* The inductive invariant, part one: documents, and what requests read.

CreateRequest == [op : {"create"}, order : Order, supplier : Supplier, lines : Quantities]
UpdateRequest == [op : {"update"}, order : Order, supplier : Supplier, lines : Quantities,
                  version : 0..MaxVersion]
MoveRequest == [op : {"send", "cancel"}, order : Order, version : 0..MaxVersion]
ReceiveRequest == [op : {"receive"}, order : Order, key : Key, version : 0..MaxVersion,
                   quantity : Quantities \ {None}, delivery : Delivery]
RemoveRequest == [op : {"remove"}, supplier : Supplier]
Requests == CreateRequest \cup UpdateRequest \cup MoveRequest \cup ReceiveRequest \cup RemoveRequest

Documents ==
    /\ order \in [Order -> OrderDoc]
    /\ \A o \in Order : Sound(order[o])
    /\ supplier \in [Supplier -> {"ACTIVE", "ARCHIVED", "GONE"}]
    /\ restocked = [o \in Order |-> order[o].received]
    /\ SuppliersStay

\* A document that nobody wrote since is as the request read it, and the orders
\* of a supplier nobody locked since had named it already.
ReadsOrder(t, o) ==
    /\ Sound(snap[t].order[o]) /\ Past(snap[t].order[o], order[o])
    /\ << "order", o >> \notin missed[t] => snap[t].order[o] = order[o]
ReadsSupplier(t, s) ==
    << "supplier", s >> \notin missed[t] =>
        /\ snap[t].supplier[s] = supplier[s]
        /\ \A o \in Order : order[o].supplier = s => snap[t].order[o].supplier = s
Reads ==
    /\ DOMAIN req = Txn /\ DOMAIN snap = Txn /\ DOMAIN missed = Txn
    /\ \A t \in Txn : Running(t) =>
         /\ req[t] \in Requests
         /\ \A o \in Order : ReadsOrder(t, o)
         /\ \A s \in Supplier : ReadsSupplier(t, s)

Base == Documents /\ Reads

LEMMA NothingAddsUp == AddUp({}, None)
  <1>1. ASSUME NEW l \in Line PROVE None[l] = ReceiptTotal({}, l)
    <2> DEFINE f == [r \in {} |-> r.quantity[l]]
    <2>1. ReceiptTotal({}, l) = SumFunctionOnSet(f, {})
      BY Zenon DEF ReceiptTotal
    <2> HIDE DEF f
    <2>2. QED
      BY <2>1, SumEmpty DEF None
  <1>2. QED
    BY <1>1, FS_EmptySet, Zenon DEF AddUp

\* A receipt that comes in adds its quantities.
LEMMA OneMoreAddsUp ==
    ASSUME NEW S \in SUBSET Receipt, NEW q, AddUp(S, q), NEW x \in Receipt, x \notin S,
           NEW p, \A l \in Line : p[l] = q[l] + x.quantity[l]
    PROVE  AddUp(S \cup {x}, p)
  <1> DEFINE T == S \cup {x}
  <1>1. IsFiniteSet(T)
    BY FS_AddElement DEF AddUp
  <1>2. ASSUME NEW l \in Line PROVE p[l] = ReceiptTotal(T, l)
    <2> DEFINE f == [r \in S |-> r.quantity[l]]
               g == [r \in T |-> r.quantity[l]]
    <2>1. \A r \in T : r.quantity[l] \in Int
      BY DEF Receipt, Quantities
    <2>2. /\ \A r \in S : f[r] = r.quantity[l]
          /\ \A r \in T : g[r] = r.quantity[l]
      OBVIOUS
    <2>3. ReceiptTotal(S, l) = SumFunctionOnSet(f, S) /\ ReceiptTotal(T, l) = SumFunctionOnSet(g, T)
      BY Zenon DEF ReceiptTotal
    <2> HIDE DEF f, g
    <2>4. SumFunctionOnSet(g, T) = g[x] + SumFunctionOnSet(g, T \ {x})
      BY <1>1, <2>1, <2>2, SumRemove
    <2>5. SumFunctionOnSet(g, S) = SumFunctionOnSet(f, S)
      <3>1. IsFiniteSet(S) /\ S \in SUBSET S /\ S \ S = {}
        BY DEF AddUp
      <3>2. \A r \in S : g[r] \in Int /\ g[r] = f[r]
        BY <2>1, <2>2
      <3>3. QED
        BY <3>1, <3>2, SumPart
    <2>6. T \ {x} = S /\ g[x] = x.quantity[l] /\ x.quantity[l] \in Int
      BY <2>1, <2>2
    <2>7. q[l] = SumFunctionOnSet(f, S) /\ SumFunctionOnSet(f, S) \in Int
      <3>1. IsFiniteSet(S) /\ \A r \in S : f[r] \in Int
        BY <2>1, <2>2 DEF AddUp
      <3>2. SumFunctionOnSet(f, S) \in Int
        BY <3>1, SumRemove
      <3>3. QED
        BY <2>3, <3>2, Zenon DEF AddUp
    <2> HIDE DEF T
    <2>8. p[l] = q[l] + x.quantity[l]
      OBVIOUS
    <2>9. ReceiptTotal(T, l) = x.quantity[l] + SumFunctionOnSet(f, S)
      BY Zenon, <2>3, <2>4, <2>5, <2>6
    <2>10. QED
      BY <2>6, <2>7, <2>8, <2>9
  <1> HIDE DEF T
  <1>3. AddUp(T, p)
    BY <1>1, <1>2, Zenon DEF AddUp
  <1>4. QED
    BY <1>3 DEF T

LEMMA NewOrder == NoOrder \in OrderDoc /\ Sound(NoOrder)
  <1>1. None \in Quantities /\ 0 \in 0..MaxVersion
    BY DEF None, Quantities
  <1>2. NoOrder \in OrderDoc
    BY <1>1 DEF NoOrder, OrderDoc
  <1>3. AddUp(NoOrder.receipts, NoOrder.received)
    BY NothingAddsUp DEF NoOrder
  <1>4. QED
    BY <1>2, <1>3 DEF Sound, NoOrder, None, StatusTells

LEMMA BaseInit == Init => Base
  <1> SUFFICES ASSUME Init PROVE Base
    OBVIOUS
  <1>1. Documents
    BY NewOrder DEF Init, Documents, SuppliersStay, NoOrder
  <1>2. Reads
    BY DEF Init, Reads, TxnInit, Running
  <1>3. QED
    BY <1>1, <1>2 DEF Base

\* A request that begins or runs again reads the documents as they are.
LEMMA FreshReads ==
    ASSUME Base, NEW t \in Txn, snap'[t] = Current, UNCHANGED documents
    PROVE  /\ \A o \in Order : ReadsOrder(t, o)'
           /\ \A s \in Supplier : ReadsSupplier(t, s)'
  BY PastSelf DEF Base, Documents, ReadsOrder, ReadsSupplier, Current, documents

LEMMA OtherReads ==
    ASSUME Base, NEW t \in Txn, Running(t), UNCHANGED documents,
           snap'[t] = snap[t], missed[t] \subseteq missed'[t]
    PROVE  /\ \A o \in Order : ReadsOrder(t, o)'
           /\ \A s \in Supplier : ReadsSupplier(t, s)'
  BY DEF Base, Reads, ReadsOrder, ReadsSupplier, documents

LEMMA OtherOrderReads ==
    ASSUME Base, NEW t \in Txn, Running(t), order' = order,
           snap'[t] = snap[t], missed[t] \subseteq missed'[t]
    PROVE  \A o \in Order : ReadsOrder(t, o)'
  <1> TAKE o \in Order
  <1>1. ReadsOrder(t, o)
    BY DEF Base, Reads
  <1>2. snap'[t].order[o] = snap[t].order[o] /\ order'[o] = order[o]
    OBVIOUS
  <1>3. QED
    BY <1>1, <1>2 DEF ReadsOrder

LEMMA BeginBase ==
    ASSUME Base, NEW t \in Txn, NEW r \in Requests, Begin(t, r, Current), UNCHANGED documents
    PROVE  Base'
  <1>1. Documents'
    BY DEF Base, Documents, documents, SuppliersStay
  <1>2. ASSUME NEW u \in Txn, Running(u)', u # t
        PROVE  Running(u) /\ snap'[u] = snap[u] /\ missed[u] = missed'[u] /\ req'[u] = req[u]
    BY <1>2 DEF Begin, Running, Base, Reads
  <1>3. snap'[t] = Current /\ req'[t] = r
    BY DEF Begin, Base, Reads
  <1>4. DOMAIN req' = Txn /\ DOMAIN snap' = Txn /\ DOMAIN missed' = Txn
    BY DEF Begin, Base, Reads
  <1>5. ASSUME NEW u \in Txn, Running(u)'
        PROVE  /\ req'[u] \in Requests
               /\ \A o \in Order : ReadsOrder(u, o)'
               /\ \A s \in Supplier : ReadsSupplier(u, s)'
    <2>1. CASE u = t
      BY <1>3, <2>1, FreshReads
    <2>2. CASE u # t
      BY <1>2, <1>5, <2>2, OtherReads DEF Base, Reads
    <2>3. QED
      BY <2>1, <2>2
  <1>6. QED
    BY <1>1, <1>4, <1>5 DEF Base, Reads

LEMMA RetryBase ==
    ASSUME Base, NEW t \in Txn, Retry(t, Current), UNCHANGED documents
    PROVE  Base'
  <1>1. Documents'
    BY DEF Base, Documents, documents, SuppliersStay
  <1>2. ASSUME NEW u \in Txn, Running(u)', u # t
        PROVE  Running(u) /\ snap'[u] = snap[u] /\ missed[u] = missed'[u]
    BY <1>2 DEF Retry, Running, Base, Reads
  <1>3. snap'[t] = Current /\ req' = req
    BY DEF Retry, Base, Reads
  <1>4. DOMAIN req' = Txn /\ DOMAIN snap' = Txn /\ DOMAIN missed' = Txn
    BY DEF Retry, Base, Reads
  <1>5. ASSUME NEW u \in Txn, Running(u)'
        PROVE  /\ req'[u] \in Requests
               /\ \A o \in Order : ReadsOrder(u, o)'
               /\ \A s \in Supplier : ReadsSupplier(u, s)'
    <2>1. Running(u) /\ req'[u] \in Requests
      BY <1>3, <1>5 DEF Running, Base, Reads
    <2>2. CASE u = t
      BY <1>3, <2>1, <2>2, FreshReads
    <2>3. CASE u # t
      BY <1>2, <1>5, <2>1, <2>3, OtherReads
    <2>4. QED
      BY <2>1, <2>2, <2>3
  <1>6. QED
    BY <1>1, <1>4, <1>5 DEF Base, Reads

LEMMA AbortBase ==
    ASSUME Base, NEW t \in Txn, Abort(t), UNCHANGED documents
    PROVE  Base'
  <1>1. Documents'
    BY DEF Base, Documents, documents, SuppliersStay
  <1>2. ASSUME NEW u \in Txn, Running(u)'
        PROVE  Running(u) /\ snap'[u] = snap[u] /\ missed[u] = missed'[u] /\ req'[u] = req[u]
    BY <1>2 DEF Abort, Running, Base, Reads
  <1>3. DOMAIN req' = Txn /\ DOMAIN snap' = Txn /\ DOMAIN missed' = Txn
    BY DEF Abort, Base, Reads
  <1>4. ASSUME NEW u \in Txn, Running(u)'
        PROVE  /\ req'[u] \in Requests
               /\ \A o \in Order : ReadsOrder(u, o)'
               /\ \A s \in Supplier : ReadsSupplier(u, s)'
    BY <1>2, <1>4, OtherReads DEF Base, Reads
  <1>5. QED
    BY <1>1, <1>3, <1>4 DEF Base, Reads

\* What a commit leaves of the other requests.
LEMMA CommitLeaves ==
    ASSUME Base, NEW t \in Txn, NEW W, Commit(t, W)
    PROVE  /\ DOMAIN req' = Txn /\ DOMAIN snap' = Txn /\ DOMAIN missed' = Txn
           /\ ~Running(t)'
           /\ \A u \in Txn : Running(u)' =>
                /\ u # t /\ Running(u) /\ req'[u] = req[u] /\ snap'[u] = snap[u]
                /\ missed'[u] = missed[u] \cup W
           /\ \A u \in Txn : u # t => req'[u] = req[u]
  BY DEF Commit, Running, Base, Reads

LEMMA ReplayBase ==
    ASSUME Base, NEW t \in Txn, Commit(t, {}), UNCHANGED documents
    PROVE  Base'
  <1>1. Documents'
    BY DEF Base, Documents, documents, SuppliersStay
  <1>2. ASSUME NEW u \in Txn, Running(u)'
        PROVE  /\ req'[u] \in Requests
               /\ \A o \in Order : ReadsOrder(u, o)'
               /\ \A s \in Supplier : ReadsSupplier(u, s)'
    <2>1. Running(u) /\ snap'[u] = snap[u] /\ missed[u] \subseteq missed'[u] /\ req'[u] = req[u]
      BY <1>2, CommitLeaves
    <2>2. QED
      BY <2>1, OtherReads DEF Base, Reads
  <1>3. QED
    BY <1>1, <1>2, CommitLeaves DEF Base, Reads

\* A commit that writes one order.
LEMMA WriteBase ==
    ASSUME Base, NEW t \in Txn, NEW W, Commit(t, W), NEW o \in Order, NEW c \in OrderDoc,
           << "order", o >> \in W, order' = [order EXCEPT ![o] = c],
           Sound(c), Advances(order[o], c), c.status # "NONE", supplier' = supplier,
           \/ << "supplier", c.supplier >> \in W
           \/ c.supplier = order[o].supplier,
           supplier[c.supplier] # "GONE",
           restocked' = [restocked EXCEPT ![o] = c.received]
    PROVE  Base'
  <1>1. /\ order' \in [Order -> OrderDoc] /\ order'[o] = c
        /\ \A p \in Order : p # o => order'[p] = order[p]
    BY DEF Base, Documents
  <1>2. Documents'
    <2>1. \A p \in Order : Sound(order'[p])
      BY <1>1 DEF Base, Documents
    <2>2. restocked' = [p \in Order |-> order'[p].received]
      BY <1>1 DEF Base, Documents
    <2>3. SuppliersStay'
      BY <1>1 DEF Base, Documents, SuppliersStay
    <2>4. QED
      BY <1>1, <2>1, <2>2, <2>3 DEF Documents, Base
  <1>3. ASSUME NEW u \in Txn, Running(u)'
        PROVE  /\ req'[u] \in Requests
               /\ \A p \in Order : ReadsOrder(u, p)'
               /\ \A s \in Supplier : ReadsSupplier(u, s)'
    <2>1. Running(u) /\ snap'[u] = snap[u] /\ missed'[u] = missed[u] \cup W /\ req'[u] = req[u]
      BY <1>3, CommitLeaves
    <2>2. ASSUME NEW p \in Order PROVE ReadsOrder(u, p)'
      <3>1. ReadsOrder(u, p)
        BY <2>1 DEF Base, Reads
      <3>2. CASE p = o
        <4>1. snap[u].order[p] \in OrderDoc /\ order[p] \in OrderDoc
          BY <3>1 DEF ReadsOrder, Sound, Base, Documents
        <4>2. Past(snap[u].order[p], order'[p])
          BY <1>1, <3>1, <3>2, <4>1, PastAdvances DEF ReadsOrder
        <4>3. QED
          BY <2>1, <3>1, <3>2, <4>2 DEF ReadsOrder
      <3>3. CASE p # o
        BY <1>1, <2>1, <3>1, <3>3 DEF ReadsOrder
      <3>4. QED
        BY <3>2, <3>3
    <2>3. ASSUME NEW s \in Supplier PROVE ReadsSupplier(u, s)'
      BY <1>1, <2>1 DEF Base, Reads, ReadsSupplier
    <2>4. QED
      BY <2>1, <2>2, <2>3 DEF Base, Reads
  <1>4. QED
    BY <1>2, <1>3, CommitLeaves DEF Base, Reads

-----------------------------------------------------------------------------
\* The writes.  Each one finds the order as its snapshot has it, because the
\* order is in its write set.

LEMMA RunningRequest ==
    ASSUME Base, NEW t \in Txn, req[t].op # "idle"
    PROVE  Running(t) /\ req[t] \in Requests
  BY DEF Base, Reads, Running, Idle

Puts(o, doc) == order' = [order EXCEPT ![o] = doc]
Raised(doc) == [doc EXCEPT !.version = @ + 1]

LEMMA RaisedDoc ==
    ASSUME NEW doc \in OrderDoc, doc.version < MaxVersion
    PROVE  /\ Raised(doc) \in OrderDoc
           /\ Raised(doc).version = doc.version + 1
           /\ Raised(doc).status = doc.status /\ Raised(doc).supplier = doc.supplier
           /\ Raised(doc).ordered = doc.ordered /\ Raised(doc).received = doc.received
           /\ Raised(doc).receipts = doc.receipts /\ Raised(doc).closedShort = doc.closedShort
  BY DEF Raised, OrderDoc

LEMMA WriteKnows ==
    ASSUME Base, NEW t \in Txn, Running(t), req[t].order \in Order,
           NEW statuses, NEW locks, NEW doc, Write(t, statuses, locks, doc)
    PROVE  LET o == req[t].order IN
           /\ snap[t].order[o] = order[o] /\ order[o] \in OrderDoc /\ Sound(order[o])
           /\ order[o].status \in statuses
           /\ order[o].version = req[t].version /\ order[o].version < MaxVersion
           /\ Puts(o, Raised(doc))
           /\ Commit(t, OrderLock(o) \cup locks)
  <1> DEFINE o == req[t].order
  <1>1. /\ snap[t].order[o].status \in statuses
        /\ AtVersion(snap[t].order[o], req[t].version)
        /\ order[o].version < MaxVersion
        /\ Commit(t, OrderLock(o) \cup locks)
        /\ order' = [order EXCEPT ![o] = Raised(doc)]
    BY Zenon DEF Write, Raised
  <1>2. << "order", o >> \notin missed[t]
    BY <1>1 DEF Commit, OrderLock
  <1>3. snap[t].order[o] = order[o]
    BY <1>2 DEF Base, Reads, ReadsOrder
  <1>4. order[o] \in OrderDoc /\ Sound(order[o])
    BY DEF Base, Documents
  <1>5. QED
    BY <1>1, <1>3, <1>4, Zenon DEF AtVersion, Puts

\* A document that is locked with its supplier still names one that is there.
LEMMA LockedSupplier ==
    ASSUME Base, NEW t \in Txn, Running(t), NEW W, Commit(t, W), NEW s \in Supplier,
           << "supplier", s >> \in W
    PROVE  snap[t].supplier[s] = supplier[s]
  BY DEF Base, Reads, ReadsSupplier, Commit

\* What a commit of a write does, for the steps that follow.
Wrote(t) ==
    /\ Running(t) /\ req[t] \in Requests /\ req[t].order \in Order
    /\ Base' /\ order \in [Order -> OrderDoc] /\ order' \in [Order -> OrderDoc]
    /\ \A p \in Order : p # req[t].order => order'[p] = order[p]
    /\ Advances(order[req[t].order], order'[req[t].order])
    /\ order'[req[t].order].status # "NONE"
    /\ \E W : Commit(t, W)

LEMMA WroteIf ==
    ASSUME Base, NEW t \in Txn, Running(t), NEW W, Commit(t, W), req[t].order \in Order,
           NEW c \in OrderDoc,
           << "order", req[t].order >> \in W, Puts(req[t].order, c),
           Sound(c), Advances(order[req[t].order], c), c.status # "NONE", supplier' = supplier,
           \/ << "supplier", c.supplier >> \in W
           \/ c.supplier = order[req[t].order].supplier,
           supplier[c.supplier] # "GONE",
           restocked' = [restocked EXCEPT ![req[t].order] = c.received]
    PROVE  Wrote(t)
  <1>1. Base'
    BY WriteBase DEF Puts
  <1>2. order \in [Order -> OrderDoc] /\ req[t] \in Requests
    BY DEF Base, Documents, Reads
  <1>3. QED
    BY <1>1, <1>2 DEF Wrote, Puts

LEMMA CreateWrites ==
    ASSUME Base, NEW t \in Txn, CommitCreate(t)
    PROVE  Wrote(t) /\ order'[req[t].order].receipts = order[req[t].order].receipts
  <1> DEFINE r == req[t]
             o == r.order
             W == OrderLock(o) \cup SupplierLock(r.supplier)
             c == [NoOrder EXCEPT !.status = "DRAFT", !.supplier = r.supplier, !.ordered = r.lines]
  <1>1. /\ r.op = "create" /\ Commit(t, W) /\ Puts(o, c)
        /\ snap[t].supplier[r.supplier] = "ACTIVE" /\ snap[t].order[o].status = "NONE"
        /\ supplier' = supplier /\ restocked' = restocked
    BY Zenon DEF CommitCreate, Puts
  <1>2. Running(t) /\ r \in Requests
    BY <1>1, RunningRequest
  <1>3. o \in Order /\ r.supplier \in Supplier /\ r.lines \in Quantities
    BY <1>1, <1>2 DEF Requests, CreateRequest, UpdateRequest, MoveRequest, ReceiveRequest, RemoveRequest
  <1>4. /\ c \in OrderDoc /\ c.status = "DRAFT" /\ c.supplier = r.supplier /\ c.version = 0
        /\ c.ordered = r.lines /\ c.received = None /\ c.receipts = {}
    <2>1. /\ NoOrder.version = 0 /\ NoOrder.received = None /\ NoOrder.receipts = {}
      BY DEF NoOrder
    <2>2. QED
      BY <1>3, <2>1, NewOrder DEF OrderDoc
  <1>5. << "order", o >> \in W /\ << "supplier", r.supplier >> \in W
    BY DEF OrderLock, SupplierLock
  <1> HIDE DEF c, W
  <1>6. snap[t].order[o] = order[o]
    BY <1>1, <1>2, <1>3, <1>5 DEF Commit, Base, Reads, ReadsOrder
  <1>7. order[o] = NoOrder
    BY <1>1, <1>3, <1>6 DEF Base, Documents, Sound
  <1>8. supplier[r.supplier] = "ACTIVE"
    BY <1>1, <1>2, <1>3, <1>5, LockedSupplier
  <1>9. None \in Quantities /\ \A l \in Line : None[l] = 0
    BY DEF None, Quantities
  <1>10. c \in OrderDoc
    BY <1>4
  <1>11. Sound(c)
    <2>1. AddUp(c.receipts, c.received)
      BY <1>4, NothingAddsUp, Zenon
    <2>2. QED
      BY <1>3, <1>4, <1>9, <2>1 DEF Sound, StatusTells, Quantities
  <1>12. Advances(order[o], c)
    BY <1>4, <1>7 DEF Advances, Created
  <1>13. restocked' = [restocked EXCEPT ![o] = c.received]
    BY <1>1, <1>3, <1>4, <1>7 DEF Base, Documents, NoOrder
  <1>14. Wrote(t)
    BY <1>1, <1>2, <1>3, <1>4, <1>5, <1>8, <1>10, <1>11, <1>12, <1>13, WroteIf
  <1>15. order'[o] = c
    BY <1>1, <1>3 DEF Puts, Base, Documents
  <1>16. QED
    BY <1>4, <1>7, <1>14, <1>15 DEF NoOrder

LEMMA UpdateWrites ==
    ASSUME Base, NEW t \in Txn, CommitUpdate(t)
    PROVE  /\ Wrote(t) /\ order[req[t].order].version = req[t].version
           /\ order'[req[t].order].receipts = order[req[t].order].receipts
  <1> DEFINE r == req[t]
             o == r.order
             a == snap[t].order[o]
             W == OrderLock(o) \cup SupplierLock(r.supplier)
             d == [a EXCEPT !.supplier = r.supplier, !.ordered = r.lines]
  <1>1. /\ r.op = "update" /\ snap[t].supplier[r.supplier] = "ACTIVE"
        /\ Write(t, {"DRAFT"}, SupplierLock(r.supplier), d)
        /\ supplier' = supplier /\ restocked' = restocked
    BY Zenon DEF CommitUpdate
  <1>2. Running(t) /\ r \in Requests
    BY <1>1, RunningRequest
  <1>3. o \in Order /\ r.supplier \in Supplier /\ r.lines \in Quantities
    BY <1>1, <1>2 DEF Requests, CreateRequest, UpdateRequest, MoveRequest, ReceiveRequest, RemoveRequest
  <1> HIDE DEF d
  <1>4. /\ a = order[o] /\ a \in OrderDoc /\ Sound(a) /\ a.status = "DRAFT"
        /\ a.version = r.version /\ a.version < MaxVersion
        /\ Puts(o, Raised(d)) /\ Commit(t, W)
    <2>1. a = order[o] /\ order[o] \in OrderDoc /\ Sound(order[o])
      BY <1>1, <1>2, <1>3, WriteKnows
    <2>2. order[o].status \in {"DRAFT"} /\ order[o].version = r.version /\ order[o].version < MaxVersion
      BY <1>1, <1>2, <1>3, WriteKnows
    <2>3. Puts(o, Raised(d))
      BY <1>1, <1>2, <1>3, WriteKnows
    <2>4. Commit(t, W)
      BY <1>1, <1>2, <1>3, WriteKnows
    <2>5. QED
      BY <2>1, <2>2, <2>3, <2>4
  <1>5. /\ d \in OrderDoc /\ d.status = "DRAFT" /\ d.supplier = r.supplier /\ d.version = a.version
        /\ d.ordered = r.lines /\ d.received = a.received /\ d.receipts = a.receipts
    BY <1>3, <1>4 DEF OrderDoc, d
  <1>6. << "order", o >> \in W /\ << "supplier", r.supplier >> \in W
    BY DEF OrderLock, SupplierLock
  <1> DEFINE c == Raised(d)
  <1> HIDE DEF a, W
  <1>7. /\ c \in OrderDoc /\ c.status = "DRAFT" /\ c.supplier = r.supplier
        /\ c.version = a.version + 1 /\ c.ordered = r.lines /\ c.received = a.received
        /\ c.receipts = a.receipts
    BY <1>4, <1>5, RaisedDoc
  <1> HIDE DEF c
  <1>8. supplier[r.supplier] = "ACTIVE"
    BY <1>1, <1>2, <1>3, <1>4, <1>6, LockedSupplier
  <1>9. a.received = None
    BY <1>4 DEF Sound, StatusTells
  <1>10. Sound(c)
    <2>1. \A l \in Line : c.received[l] <= c.ordered[l]
      BY <1>3, <1>7, <1>9 DEF None, Quantities
    <2>2. \A x \in c.receipts : x.version < c.version
      BY <1>4, <1>7 DEF Sound, OrderDoc, Receipt
    <2>3. AddUp(c.receipts, c.received)
      BY <1>4, <1>7, Zenon DEF Sound
    <2>4. QED
      BY <1>3, <1>7, <1>9, <2>1, <2>2, <2>3 DEF Sound, StatusTells
  <1>11. Advances(a, c)
    BY <1>4, <1>7 DEF Advances, Written
  <1>12. restocked' = [restocked EXCEPT ![o] = c.received]
    BY <1>1, <1>3, <1>4, <1>7 DEF Base, Documents
  <1>13. Puts(o, c)
    BY <1>4 DEF c
  <1>14. Wrote(t)
    BY <1>1, <1>2, <1>3, <1>4, <1>6, <1>7, <1>8, <1>10, <1>11, <1>12, <1>13, WroteIf
  <1>15. order'[o] = c
    BY <1>3, <1>13 DEF Puts, Base, Documents
  <1>16. QED
    BY <1>4, <1>7, <1>14, <1>15

LEMMA SendWrites ==
    ASSUME Base, NEW t \in Txn, CommitSend(t)
    PROVE  /\ Wrote(t) /\ order[req[t].order].version = req[t].version
           /\ order'[req[t].order].receipts = order[req[t].order].receipts
  <1> DEFINE r == req[t]
             o == r.order
             a == snap[t].order[o]
             W == OrderLock(o) \cup SupplierLock(a.supplier)
             d == [a EXCEPT !.status = "SENT"]
  <1>1. /\ r.op = "send" /\ snap[t].supplier[a.supplier] = "ACTIVE"
        /\ Write(t, {"DRAFT"}, SupplierLock(a.supplier), d)
        /\ supplier' = supplier /\ restocked' = restocked
    BY Zenon DEF CommitSend
  <1>2. Running(t) /\ r \in Requests
    BY <1>1, RunningRequest
  <1>3. o \in Order
    BY <1>1, <1>2 DEF Requests, CreateRequest, UpdateRequest, MoveRequest, ReceiveRequest, RemoveRequest
  <1> HIDE DEF d
  <1>4. /\ a = order[o] /\ a \in OrderDoc /\ Sound(a) /\ a.status = "DRAFT"
        /\ a.version = r.version /\ a.version < MaxVersion
        /\ Puts(o, Raised(d)) /\ Commit(t, W)
    <2>1. a = order[o] /\ order[o] \in OrderDoc /\ Sound(order[o])
      BY <1>1, <1>2, <1>3, WriteKnows
    <2>2. order[o].status \in {"DRAFT"} /\ order[o].version = r.version /\ order[o].version < MaxVersion
      BY <1>1, <1>2, <1>3, WriteKnows
    <2>3. Puts(o, Raised(d))
      BY <1>1, <1>2, <1>3, WriteKnows
    <2>4. Commit(t, W)
      BY <1>1, <1>2, <1>3, WriteKnows
    <2>5. QED
      BY <2>1, <2>2, <2>3, <2>4
  <1>5. /\ d \in OrderDoc /\ d.status = "SENT" /\ d.supplier = a.supplier /\ d.version = a.version
        /\ d.ordered = a.ordered /\ d.received = a.received /\ d.receipts = a.receipts
    BY <1>4 DEF OrderDoc, Open, d
  <1>6. << "order", o >> \in W /\ << "supplier", a.supplier >> \in W
    BY DEF OrderLock, SupplierLock
  <1> DEFINE c == Raised(d)
  <1> HIDE DEF a, W
  <1>7. /\ c \in OrderDoc /\ c.status = "SENT" /\ c.supplier = a.supplier
        /\ c.version = a.version + 1 /\ c.ordered = a.ordered /\ c.received = a.received
        /\ c.receipts = a.receipts
    BY <1>4, <1>5, RaisedDoc
  <1> HIDE DEF c
  <1>8. a.supplier \in Supplier /\ a.received = None
    BY <1>4 DEF Sound, StatusTells
  <1>9. supplier[a.supplier] = "ACTIVE"
    BY <1>1, <1>2, <1>4, <1>6, <1>8, LockedSupplier
  <1>10. Sound(c)
    <2>1. \A x \in c.receipts : x.version < c.version
      BY <1>4, <1>7 DEF Sound, OrderDoc, Receipt
    <2>2. AddUp(c.receipts, c.received)
      BY <1>4, <1>7, Zenon DEF Sound
    <2>3. QED
      BY <1>4, <1>7, <1>8, <2>1, <2>2 DEF Sound, StatusTells
  <1>11. Advances(a, c)
    BY <1>4, <1>7 DEF Advances, Written
  <1>12. restocked' = [restocked EXCEPT ![o] = c.received]
    BY <1>1, <1>3, <1>4, <1>7 DEF Base, Documents
  <1>13. Puts(o, c)
    BY <1>4 DEF c
  <1>14. Wrote(t)
    BY <1>1, <1>2, <1>3, <1>4, <1>6, <1>7, <1>9, <1>10, <1>11, <1>12, <1>13, WroteIf
  <1>15. order'[o] = c
    BY <1>3, <1>13 DEF Puts, Base, Documents
  <1>16. QED
    BY <1>4, <1>7, <1>14, <1>15

LEMMA CancelWrites ==
    ASSUME Base, NEW t \in Txn, CommitCancel(t)
    PROVE  /\ Wrote(t) /\ order[req[t].order].version = req[t].version
           /\ order'[req[t].order].receipts = order[req[t].order].receipts
  <1> DEFINE r == req[t]
             o == r.order
             a == snap[t].order[o]
             W == OrderLock(o) \cup {}
             d == [a EXCEPT !.status = "CANCELLED", !.closedShort = a.received # None]
  <1>1. /\ r.op = "cancel"
        /\ Write(t, {"DRAFT"} \cup Open, {}, d)
        /\ supplier' = supplier /\ restocked' = restocked
    BY Zenon DEF CommitCancel
  <1>2. Running(t) /\ r \in Requests
    BY <1>1, RunningRequest
  <1>3. o \in Order
    BY <1>1, <1>2 DEF Requests, CreateRequest, UpdateRequest, MoveRequest, ReceiveRequest, RemoveRequest
  <1> HIDE DEF d
  <1>4. /\ a = order[o] /\ a \in OrderDoc /\ Sound(a) /\ a.status \in {"DRAFT"} \cup Open
        /\ a.version = r.version /\ a.version < MaxVersion
        /\ Puts(o, Raised(d)) /\ Commit(t, W)
    <2>1. a = order[o] /\ order[o] \in OrderDoc /\ Sound(order[o])
      BY <1>1, <1>2, <1>3, WriteKnows
    <2>2. /\ order[o].status \in {"DRAFT"} \cup Open
          /\ order[o].version = r.version /\ order[o].version < MaxVersion
      BY <1>1, <1>2, <1>3, WriteKnows
    <2>3. Puts(o, Raised(d))
      BY <1>1, <1>2, <1>3, WriteKnows
    <2>4. Commit(t, W)
      BY <1>1, <1>2, <1>3, WriteKnows
    <2>5. QED
      BY <2>1, <2>2, <2>3, <2>4
  <1>5. PICK b \in BOOLEAN : b = (a.received # None) /\ d = [a EXCEPT !.status = "CANCELLED", !.closedShort = b]
    BY Zenon DEF d
  <1>6. /\ d \in OrderDoc /\ d.status = "CANCELLED" /\ d.supplier = a.supplier
        /\ d.version = a.version /\ d.ordered = a.ordered /\ d.received = a.received
        /\ d.receipts = a.receipts /\ d.closedShort = b
    BY <1>4, <1>5 DEF OrderDoc
  <1>7. << "order", o >> \in W
    BY DEF OrderLock
  <1> DEFINE c == Raised(d)
  <1> HIDE DEF a, W
  <1>8. /\ c \in OrderDoc /\ c.status = "CANCELLED" /\ c.supplier = a.supplier
        /\ c.version = a.version + 1 /\ c.ordered = a.ordered /\ c.received = a.received
        /\ c.receipts = a.receipts /\ c.closedShort = b
    BY <1>4, <1>6, RaisedDoc
  <1> HIDE DEF c
  <1>9. a.supplier \in Supplier /\ a.status \notin {"NONE", "RECEIVED", "CANCELLED"}
    BY <1>4 DEF Sound, Open
  <1>10. Sound(c)
    <2>1. \A x \in c.receipts : x.version < c.version
      BY <1>4, <1>8 DEF Sound, OrderDoc, Receipt
    <2>2. c.closedShort <=> c.received # None
      BY <1>5, <1>8, Zenon
    <2>3. StatusTells(c)
      BY <1>8, <2>2 DEF StatusTells
    <2>4. \A l \in Line : c.received[l] <= c.ordered[l]
      BY <1>4, <1>8 DEF Sound
    <2>5. AddUp(c.receipts, c.received)
      BY <1>4, <1>8, Zenon DEF Sound
    <2>6. QED
      BY <1>8, <1>9, <2>1, <2>3, <2>4, <2>5 DEF Sound
  <1>11. Advances(a, c)
    BY <1>4, <1>8, <1>9 DEF Advances, Written
  <1>12. supplier[c.supplier] # "GONE"
    BY <1>3, <1>4, <1>8, <1>9 DEF Base, Documents, SuppliersStay
  <1>13. restocked' = [restocked EXCEPT ![o] = c.received]
    BY <1>1, <1>3, <1>4, <1>8 DEF Base, Documents
  <1>14. Puts(o, c)
    BY <1>4 DEF c
  <1>15. Wrote(t)
    BY <1>1, <1>2, <1>3, <1>4, <1>7, <1>8, <1>10, <1>11, <1>12, <1>13, <1>14, WroteIf
  <1>16. order'[o] = c
    BY <1>3, <1>14 DEF Puts, Base, Documents
  <1>17. QED
    BY <1>4, <1>8, <1>15, <1>16

\* What is received stays within what was ordered, and says by its status
\* whether anything is outstanding.
LEMMA NextStatusTells ==
    ASSUME NEW ordered \in Quantities, NEW got \in Quantities, NEW q \in Quantities,
           q # None, \A l \in Line : q[l] <= ordered[l] - got[l],
           NEW sum, sum = [l \in Line |-> got[l] + q[l]]
    PROVE  /\ sum \in Quantities /\ sum # None
           /\ \A l \in Line : sum[l] <= ordered[l]
           /\ IF NextStatus(ordered, sum) = "RECEIVED" THEN sum = ordered
              ELSE NextStatus(ordered, sum) = "PARTIALLY_RECEIVED" /\ sum # ordered
  <1>1. \A l \in Line : got[l] \in 0..MaxQty /\ q[l] \in 0..MaxQty /\ ordered[l] \in 0..MaxQty
    BY DEF Quantities
  <1>2. sum \in Quantities /\ \A l \in Line : sum[l] <= ordered[l] /\ sum[l] = got[l] + q[l]
    BY <1>1 DEF Quantities
  <1>3. PICK l \in Line : q[l] # 0
    BY DEF Quantities, None
  <1>4. sum[l] # 0
    BY <1>1, <1>2, <1>3
  <1>5. sum # None
    BY <1>4 DEF None
  <1>6. CASE \A k \in Line : sum[k] >= ordered[k]
    <2>1. ASSUME NEW k \in Line PROVE sum[k] = ordered[k]
      <3>1. sum[k] \in 0..MaxQty /\ ordered[k] \in 0..MaxQty
        BY <1>1, <1>2 DEF Quantities
      <3>2. QED
        BY <1>2, <1>6, <3>1
    <2>2. sum = ordered
      BY <1>2, <2>1 DEF Quantities
    <2>3. NextStatus(ordered, sum) = "RECEIVED"
      BY <1>6 DEF NextStatus
    <2>4. QED
      BY <1>2, <1>5, <2>2, <2>3
  <1>7. CASE ~(\A k \in Line : sum[k] >= ordered[k])
    <2>1. sum # ordered
      <3>1. PICK k \in Line : ~(sum[k] >= ordered[k])
        BY <1>7
      <3>2. ordered[k] \in Int
        BY <1>1
      <3>3. QED
        BY <3>1, <3>2
    <2>2. NextStatus(ordered, sum) = "PARTIALLY_RECEIVED"
      BY <1>7 DEF NextStatus
    <2>3. QED
      BY <1>2, <1>5, <2>1, <2>2
  <1>8. QED
    BY <1>6, <1>7

ReceiptOf(r) == [key |-> r.key, version |-> r.version, quantity |-> r.quantity, delivery |-> r.delivery]

LEMMA ReceiveWrites ==
    ASSUME Base, NEW t \in Txn, CommitReceive(t)
    PROVE  /\ Wrote(t) /\ req[t] \in ReceiveRequest
           /\ order[req[t].order].version = req[t].version
           /\ ReceiptsOf(order[req[t].order], req[t].key) = {}
           /\ order'[req[t].order].version = order[req[t].order].version + 1
           /\ order'[req[t].order].receipts = order[req[t].order].receipts \cup {ReceiptOf(req[t])}
  <1> DEFINE r == req[t]
             o == r.order
             a == snap[t].order[o]
             sum == [l \in Line |-> a.received[l] + r.quantity[l]]
             status == NextStatus(a.ordered, sum)
             W == OrderLock(o) \cup SupplierLock(a.supplier)
             d == [a EXCEPT !.received = sum, !.status = status, !.receipts = @ \cup {ReceiptOf(r)}]
  <1>1. /\ r.op = "receive" /\ Receivable(a, r)
        /\ Write(t, Open, SupplierLock(a.supplier), d)
        /\ supplier' = supplier
        /\ restocked' = [restocked EXCEPT ![o] = [l \in Line |-> @[l] + r.quantity[l]]]
    BY Zenon DEF CommitReceive, ReceiptOf
  <1>2. Running(t) /\ r \in ReceiveRequest
    <2>1. r.op = "receive"
      BY Zenon DEF CommitReceive
    <2>2. Running(t) /\ r \in Requests
      BY <2>1, RunningRequest
    <2>3. QED
      BY <2>1, <2>2 DEF Requests, CreateRequest, UpdateRequest, MoveRequest, RemoveRequest
  <1>3. /\ o \in Order /\ r.quantity \in Quantities /\ r.quantity # None /\ r.key \in Key
        /\ r.version \in 0..MaxVersion /\ r.delivery \in Delivery
    BY <1>2 DEF ReceiveRequest
  <1> HIDE DEF d
  <1>4. /\ a = order[o] /\ a \in OrderDoc /\ Sound(a) /\ a.status \in Open
        /\ a.version = r.version /\ a.version < MaxVersion
        /\ Puts(o, Raised(d)) /\ Commit(t, W)
    <2>1. a = order[o] /\ order[o] \in OrderDoc /\ Sound(order[o])
      BY <1>1, <1>2, <1>3, WriteKnows
    <2>2. /\ order[o].status \in Open
          /\ order[o].version = r.version /\ order[o].version < MaxVersion
      BY <1>1, <1>2, <1>3, WriteKnows
    <2>3. Puts(o, Raised(d))
      BY <1>1, <1>2, <1>3, WriteKnows
    <2>4. Commit(t, W)
      BY <1>1, <1>2, <1>3, WriteKnows
    <2>5. QED
      BY <2>1, <2>2, <2>3, <2>4
  <1>5. /\ sum \in Quantities /\ sum # None
        /\ \A l \in Line : sum[l] <= a.ordered[l]
        /\ IF status = "RECEIVED" THEN sum = a.ordered
           ELSE status = "PARTIALLY_RECEIVED" /\ sum # a.ordered
    <2>1. a.ordered \in Quantities /\ a.received \in Quantities
      BY <1>4 DEF OrderDoc
    <2>2. \A l \in Line : r.quantity[l] <= a.ordered[l] - a.received[l]
      BY <1>1 DEF Receivable
    <2> HIDE DEF a
    <2>3. QED
      BY <1>3, <2>1, <2>2, NextStatusTells
  <1>6. ReceiptOf(r) \in Receipt
    BY <1>3 DEF ReceiptOf, Receipt
  <1> HIDE DEF sum, status
  <1>7. /\ d \in OrderDoc /\ d.status = status /\ d.supplier = a.supplier
        /\ d.version = a.version /\ d.ordered = a.ordered /\ d.received = sum
        /\ d.receipts = a.receipts \cup {ReceiptOf(r)}
    BY <1>4, <1>5, <1>6 DEF OrderDoc, Open, d
  <1>8. << "order", o >> \in W
    BY DEF OrderLock
  <1> DEFINE c == Raised(d)
  <1> HIDE DEF W
  <1>9. /\ c \in OrderDoc /\ c.status = status /\ c.supplier = a.supplier
        /\ c.version = a.version + 1 /\ c.ordered = a.ordered /\ c.received = sum
        /\ c.receipts = a.receipts \cup {ReceiptOf(r)}
    BY <1>4, <1>7, RaisedDoc
  <1> HIDE DEF c
  <1>10. a.supplier \in Supplier /\ a.status \notin {"NONE", "RECEIVED", "CANCELLED"}
    BY <1>4 DEF Sound, Open
  <1>11. Sound(c)
    <2>1. \A x \in c.receipts : x.version < c.version
      BY <1>4, <1>9 DEF Sound, OrderDoc, Receipt, ReceiptOf
    <2>2. StatusTells(c)
      BY <1>5, <1>9 DEF StatusTells
    <2>3. c.status # "NONE" /\ c.supplier \in Supplier
      BY <1>5, <1>9, <1>10
    <2>4. \A l \in Line : c.received[l] <= c.ordered[l]
      BY <1>5, <1>9
    <2>5. c \in OrderDoc
      BY <1>9
    <2>6. AddUp(c.receipts, c.received)
      <3>1. a.receipts \in SUBSET Receipt /\ AddUp(a.receipts, a.received)
        BY <1>4 DEF Sound, OrderDoc
      <3>2. ReceiptOf(r) \notin a.receipts
        BY <1>1 DEF Receivable, ReceiptsOf, ReceiptOf
      <3>3. \A l \in Line : sum[l] = a.received[l] + ReceiptOf(r).quantity[l]
        BY DEF sum, ReceiptOf
      <3>4. AddUp(a.receipts \cup {ReceiptOf(r)}, sum)
        BY <1>6, <3>1, <3>2, <3>3, OneMoreAddsUp
      <3>5. QED
        BY <1>9, <3>4, Zenon
    <2>7. QED
      BY <2>1, <2>2, <2>3, <2>4, <2>5, <2>6 DEF Sound
  <1>12. Advances(a, c)
    BY <1>4, <1>5, <1>9, <1>10 DEF Advances, Written, ReceiptOf
  <1>13. supplier[c.supplier] # "GONE"
    BY <1>3, <1>4, <1>9, <1>10 DEF Base, Documents, SuppliersStay
  <1>14. restocked' = [restocked EXCEPT ![o] = c.received]
    <2>1. restocked[o] = a.received
      BY <1>3, <1>4 DEF Base, Documents
    <2>2. restocked' = [restocked EXCEPT ![o] = [l \in Line |-> restocked[o][l] + r.quantity[l]]]
      BY <1>1, Zenon
    <2>3. c.received = [l \in Line |-> restocked[o][l] + r.quantity[l]]
      BY <1>9, <2>1, Zenon DEF sum
    <2>4. QED
      BY <2>2, <2>3, Zenon
  <1>15. Puts(o, c)
    BY <1>4 DEF c
  <1>16. Wrote(t)
    BY <1>1, <1>2, <1>3, <1>4, <1>8, <1>9, <1>5, <1>11, <1>12, <1>13, <1>14, <1>15, WroteIf
  <1>17. order'[o] = c
    BY <1>3, <1>15 DEF Puts, Base, Documents
  <1>18. QED
    BY <1>1, <1>2, <1>4, <1>9, <1>16, <1>17 DEF Receivable

-----------------------------------------------------------------------------
\* Suppliers.

LEMMA ArchiveBase ==
    ASSUME Base, NEW t \in Txn, ArchiveSupplier(t)
    PROVE  Base'
  <1>1. PICK s \in Supplier, state \in {"ACTIVE", "ARCHIVED"} :
          /\ supplier' = [supplier EXCEPT ![s] = state]
          /\ missed' = [u \in Txn |-> IF Running(u) THEN missed[u] \cup {<< "supplier", s >>} ELSE {}]
          /\ order' = order /\ restocked' = restocked /\ req' = req /\ snap' = snap
    BY Zenon DEF ArchiveSupplier
  <1>2. /\ \A x \in Supplier : x # s => supplier'[x] = supplier[x]
        /\ supplier'[s] = state
        /\ supplier' \in [Supplier -> {"ACTIVE", "ARCHIVED", "GONE"}]
    BY <1>1 DEF Base, Documents
  <1>3. Documents'
    <2>1. SuppliersStay'
      BY <1>1, <1>2 DEF Base, Documents, SuppliersStay, Sound
    <2>2. QED
      BY <1>1, <1>2, <2>1 DEF Base, Documents
  <1>4. ASSUME NEW u \in Txn, Running(u)'
        PROVE  /\ req'[u] \in Requests
               /\ \A o \in Order : ReadsOrder(u, o)'
               /\ \A x \in Supplier : ReadsSupplier(u, x)'
    <2>1. Running(u) /\ missed'[u] = missed[u] \cup {<< "supplier", s >>}
      BY <1>1, <1>4 DEF Running
    <2>2. \A o \in Order : ReadsOrder(u, o)'
      BY <1>1, <2>1, OtherOrderReads
    <2>3. \A x \in Supplier : ReadsSupplier(u, x)'
      BY <1>1, <1>2, <2>1 DEF Base, Reads, ReadsSupplier
    <2>4. QED
      BY <1>1, <2>1, <2>2, <2>3 DEF Base, Reads
  <1>5. DOMAIN missed' = Txn
    BY <1>1
  <1>6. QED
    BY <1>1, <1>3, <1>4, <1>5 DEF Base, Reads

\* Whoever names the supplier has locked it, so remove would have seen it.
LEMMA RemoveBase ==
    ASSUME Base, NEW t \in Txn, CommitRemove(t)
    PROVE  Base'
  <1> DEFINE s == req[t].supplier
             W == SupplierLock(s)
  <1>1. /\ req[t].op = "remove" /\ Commit(t, W)
        /\ \A o \in Order : snap[t].order[o].supplier # s
        /\ supplier' = [supplier EXCEPT ![s] = "GONE"]
        /\ order' = order /\ restocked' = restocked
    BY Zenon DEF CommitRemove
  <1>2. Running(t) /\ s \in Supplier
    <2>1. Running(t) /\ req[t] \in Requests
      BY <1>1, RunningRequest
    <2>2. QED
      BY <1>1, <2>1 DEF Requests, CreateRequest, UpdateRequest, MoveRequest, ReceiveRequest, RemoveRequest
  <1>3. /\ \A x \in Supplier : x # s => supplier'[x] = supplier[x]
        /\ supplier' \in [Supplier -> {"ACTIVE", "ARCHIVED", "GONE"}]
    BY <1>1, <1>2 DEF Base, Documents
  <1>4. \A o \in Order : order[o].supplier # s
    <2>1. << "supplier", s >> \notin missed[t]
      BY <1>1 DEF Commit, SupplierLock
    <2>2. \A o \in Order : order[o].supplier = s => snap[t].order[o].supplier = s
      BY <1>2, <2>1 DEF Base, Reads, ReadsSupplier
    <2>3. QED
      BY <1>1, <2>2
  <1>5. Documents'
    <2>1. SuppliersStay'
      BY <1>1, <1>3, <1>4 DEF Base, Documents, SuppliersStay, Sound
    <2>2. QED
      BY <1>1, <1>3, <2>1 DEF Base, Documents
  <1>6. ASSUME NEW u \in Txn, Running(u)'
        PROVE  /\ req'[u] \in Requests
               /\ \A o \in Order : ReadsOrder(u, o)'
               /\ \A x \in Supplier : ReadsSupplier(u, x)'
    <2>1. /\ Running(u) /\ missed'[u] = missed[u] \cup {<< "supplier", s >>}
          /\ snap'[u] = snap[u] /\ req'[u] = req[u]
      BY <1>1, <1>6, CommitLeaves DEF SupplierLock
    <2>2. \A o \in Order : ReadsOrder(u, o)'
      BY <1>1, <2>1, OtherOrderReads
    <2>3. \A x \in Supplier : ReadsSupplier(u, x)'
      BY <1>1, <1>3, <2>1 DEF Base, Reads, ReadsSupplier
    <2>4. QED
      BY <2>1, <2>2, <2>3 DEF Base, Reads
  <1>7. DOMAIN req' = Txn /\ DOMAIN snap' = Txn /\ DOMAIN missed' = Txn
    BY <1>1, CommitLeaves
  <1>8. QED
    BY <1>5, <1>6, <1>7 DEF Base, Reads

-----------------------------------------------------------------------------
\* The inductive invariant, part two: the pages and their requests.

\* A page shows an earlier state of an order, and its dialog fits what it shows.
Copy(v) ==
    /\ v.id \in Order /\ v.doc.status # "NONE"
    /\ Sound(v.doc) /\ Past(v.doc, order[v.id])
Fits(quantity, doc) ==
    /\ doc.status \in Open
    /\ \A l \in Line : quantity[l] <= doc.ordered[l] - doc.received[l]

Dialog == [delivery : Delivery, quantity : Quantities, key : Key \cup {Null}, sent : Quantities]
Filled(u) == receipt[u] \in Dialog /\ Copy(view[u]) /\ Fits(receipt[u].quantity, view[u].doc)

Pages ==
    /\ DOMAIN view = User /\ DOMAIN receipt = User /\ DOMAIN waiting = User
    /\ DOMAIN told = Delivery
    /\ \A u \in User : (view[u] = Null \/ Copy(view[u])) /\ (receipt[u] = NoReceipt \/ Filled(u))

\* A receive request was sent from a copy that its quantities fit.
SentFrom(t, doc) ==
    /\ doc.version = req[t].version /\ Fits(req[t].quantity, doc)
    /\ Past(doc, snap[t].order[req[t].order]) /\ Past(doc, order[req[t].order])
SentWell(t) ==
    /\ req[t].op = "receive" => \E doc \in OrderDoc : SentFrom(t, doc)
    /\ req[t].op \in {"send", "cancel"} => order[req[t].order].status # "NONE"
Sendings == \A t \in Txn : Running(t) => SentWell(t)

\* A page that waits for the answer to a receipt still has its dialog.
AwaitsIt(u) ==
    LET t == waiting[u] IN
    /\ t \in Txn /\ Running(t) /\ req[t].op # "remove"
    /\ IF req[t].op = "receive" THEN receipt[u] \in Dialog /\ receipt[u].key = req[t].key
       ELSE receipt[u] = NoReceipt
Waitings == \A u \in User : waiting[u] # Null => AwaitsIt(u)

\* An attempt is in a dialog that was sent, in a request, or in a receipt.  Its
\* key stands for it.
AttemptSet == [op : {"receive"}, order : Order, key : Key, version : 0..MaxVersion,
               quantity : Quantities, delivery : Delivery]
InDialog(u, a) ==
    /\ receipt[u].key = a.key /\ receipt[u].sent = a.quantity /\ receipt[u].delivery = a.delivery
    /\ view[u].id = a.order /\ view[u].doc.version = a.version
InReceipt(a) == ReceiptOf(a) \in order[a.order].receipts
Attempted(a) == (\E u \in User : InDialog(u, a)) \/ (\E t \in Txn : req[t] = a) \/ InReceipt(a)
Keyed == \A a, b \in AttemptSet : Attempted(a) /\ Attempted(b) /\ a.key = b.key => a = b

\* What is known of a delivery whose user just repeats it.  A request for it is
\* live while the order is as the page showed it.
Live(t) == req[t].op = "receive" /\ order[req[t].order].version = req[t].version
LiveFor(t, d) == Live(t) /\ req[t].delivery = d
DialogOf(u, d) == receipt[u].delivery = d
Received(o, r, d) == r \in order[o].receipts /\ r.delivery = d

OneDialog == \A u, v \in User : receipt[u].delivery = receipt[v].delivery /\ receipt[u] # NoReceipt => u = v

Unedited(d) == \A u \in User : DialogOf(u, d) /\ receipt[u].key # Null => receipt[u].sent = receipt[u].quantity
LiveHasDialog(d) ==
    \A t \in Txn : LiveFor(t, d) => \E u \in User : DialogOf(u, d) /\ receipt[u].key = req[t].key
RecordedIsSettled(d) ==
    \A o \in Order, r \in Receipt : Received(o, r, d) =>
        /\ \A t \in Txn : ~LiveFor(t, d)
        /\ \A u \in User : DialogOf(u, d) => receipt[u].key = r.key
        /\ told[d] = "recorded" \/ \E u \in User : DialogOf(u, d)
ReceivedAtMostOnce(d) ==
    \A o, p \in Order : \A r, s \in Receipt : Received(o, r, d) /\ Received(p, s, d) => o = p /\ r = s
Denied(d) == told[d] = "not recorded"
DenialHolds(d) ==
    Denied(d) =>
        /\ \A u \in User : ~DialogOf(u, d)
        /\ \A o \in Order, r \in Receipt : ~Received(o, r, d)
Repeated(d) ==
    Unedited(d) /\ LiveHasDialog(d) /\ RecordedIsSettled(d) /\ ReceivedAtMostOnce(d) /\ DenialHolds(d)

NewsHolds ==
    \A d \in Delivery : told[d] = "recorded" => \E o \in Order, r \in Receipt : Received(o, r, d)
Deliveries == OneDialog /\ NewsHolds /\ \A d \in Delivery \ strayed : Repeated(d)

IInv == Base /\ Pages /\ Sendings /\ Waitings /\ Keyed /\ Deliveries

-----------------------------------------------------------------------------
\* Most steps touch no receipt.

OrdersAdvance == \A o \in Order : Advances(order[o], order'[o])

LEMMA AdvancesRaise ==
    ASSUME NEW a \in OrderDoc, NEW b \in OrderDoc, Advances(a, b)
    PROVE  a.version <= b.version
  BY DEF Advances, Created, Written, NoOrder, OrderDoc

LEMMA RequestTypes ==
    ASSUME Base, NEW t \in Txn, req[t].op = "receive"
    PROVE  Running(t) /\ req[t] \in ReceiveRequest /\ req[t] \in AttemptSet
  <1>1. Running(t) /\ req[t] \in Requests
    BY RunningRequest
  <1>2. req[t] \in ReceiveRequest
    BY <1>1 DEF Requests, CreateRequest, UpdateRequest, MoveRequest, RemoveRequest
  <1>3. QED
    BY <1>1, <1>2 DEF ReceiveRequest, AttemptSet

\* The copy that a request was sent from is still one of the order's states.
LEMMA SendingStays ==
    ASSUME Base, Base', Sendings, OrdersAdvance, NEW t \in Txn, Running(t),
           req'[t] = req[t], snap'[t] = snap[t] \/ snap'[t].order = order
    PROVE  SentWell(t)'
  <1>1. SentWell(t)
    BY DEF Sendings
  <1>2. CASE req[t].op = "receive"
    <2> DEFINE o == req[t].order
    <2>1. o \in Order
      BY <1>2, RequestTypes DEF ReceiveRequest
    <2>2. PICK doc \in OrderDoc : SentFrom(t, doc)
      BY <1>1, <1>2 DEF SentWell
    <2>3. order[o] \in OrderDoc /\ order'[o] \in OrderDoc
      BY <2>1 DEF Base, Documents
    <2>4. Past(doc, order'[o])
      <3>1. Past(doc, order[o]) /\ Advances(order[o], order'[o])
        BY <2>1, <2>2 DEF SentFrom, OrdersAdvance
      <3>2. QED
        BY <2>3, <3>1, PastAdvances
    <2>5. Past(doc, snap'[t].order[o])
      <3>1. Past(doc, order[o]) /\ Past(doc, snap[t].order[o])
        BY <2>2 DEF SentFrom
      <3>2. snap'[t].order[o] = snap[t].order[o] \/ snap'[t].order[o] = order[o]
        OBVIOUS
      <3>3. QED
        BY <3>1, <3>2
    <2>6. doc.version = req'[t].version /\ Fits(req'[t].quantity, doc)
      BY <2>2 DEF SentFrom
    <2>7. req'[t].order = o
      OBVIOUS
    <2> HIDE DEF o
    <2>8. SentFrom(t, doc)'
      BY <2>4, <2>5, <2>6, <2>7 DEF SentFrom
    <2>9. QED
      BY <1>2, <2>8 DEF SentWell
  <1>3. CASE req[t].op \in {"send", "cancel"}
    <2>1. req[t].order \in Order
      <3>1. req[t] \in Requests
        BY <1>3, RunningRequest
      <3>2. QED
        BY <1>3, <3>1 DEF Requests, CreateRequest, UpdateRequest, MoveRequest, ReceiveRequest, RemoveRequest
    <2>2. order'[req[t].order].status # "NONE"
      BY <1>1, <1>3, <2>1 DEF SentWell, OrdersAdvance, Advances, Created, Written, NoOrder
    <2>3. QED
      BY <1>3, <2>2 DEF SentWell
  <1>4. CASE req[t].op \notin {"receive", "send", "cancel"}
    BY <1>4 DEF SentWell
  <1>5. QED
    BY <1>2, <1>3, <1>4

\* A request whose order was written since it was sent is no longer live.
LEMMA LiveBefore ==
    ASSUME Base, Base', Sendings, OrdersAdvance, NEW t \in Txn, req'[t] = req[t], Live(t)'
    PROVE  Live(t)
  <1> DEFINE o == req[t].order
  <1>1. req[t].op = "receive" /\ order'[o].version = req[t].version
    BY DEF Live
  <1>2. o \in Order /\ req[t].version \in Int /\ Running(t)
    BY <1>1, RequestTypes DEF ReceiveRequest
  <1>3. PICK doc \in OrderDoc : doc.version = req[t].version /\ Past(doc, order[o])
    BY <1>1, <1>2 DEF Sendings, SentWell, SentFrom
  <1>4. order[o] \in OrderDoc /\ order'[o] \in OrderDoc
    BY <1>2 DEF Base, Documents
  <1>5. order[o].version <= order'[o].version
    BY <1>2, <1>4, AdvancesRaise DEF OrdersAdvance
  <1>6. order[o].version = req[t].version
    BY <1>1, <1>3, <1>4, <1>5 DEF Past, OrderDoc
  <1>7. QED
    BY <1>1, <1>6 DEF Live

LEMMA KeyedStays ==
    ASSUME Keyed, \A a \in AttemptSet : Attempted(a)' => Attempted(a)
    PROVE  Keyed'
  BY DEF Keyed

KeepsView(u) ==
    \/ view'[u] = view[u]
    \/ receipt[u] = NoReceipt /\ (view'[u] = Null \/ Copy(view[u])')
KeepsWaiting(u) ==
    waiting'[u] # Null =>
        \/ waiting'[u] = waiting[u] /\ Running(waiting[u])' /\ req'[waiting[u]] = req[waiting[u]]
        \/ /\ receipt[u] = NoReceipt /\ waiting'[u] \in Txn
           /\ req'[waiting'[u]].op \in {"create", "update", "send", "cancel"}
KeepsRequest(t) ==
    Running(t)' =>
        \/ Running(t) /\ req'[t] = req[t] /\ (snap'[t] = snap[t] \/ snap'[t].order = order)
        \/ req'[t].op \in {"create", "update", "remove"}
        \/ req'[t].op \in {"send", "cancel"} /\ order'[req'[t].order].status # "NONE"
Domains == DOMAIN view = User /\ DOMAIN receipt = User /\ DOMAIN waiting = User /\ DOMAIN told = Delivery

Quiet ==
    /\ Base' /\ OrdersAdvance /\ Domains'
    /\ \A o \in Order : order'[o].receipts = order[o].receipts
    /\ receipt' = receipt /\ told' = told /\ strayed' = strayed
    /\ \A u \in User : KeepsView(u) /\ KeepsWaiting(u)
    /\ \A t \in Txn : KeepsRequest(t)

LEMMA QuietKeeps == IInv /\ Quiet => IInv'
  <1> SUFFICES ASSUME IInv, Quiet PROVE IInv'
    OBVIOUS
  <1>1. Base /\ Base' /\ Pages /\ Sendings /\ Waitings /\ Keyed /\ Deliveries /\ OrdersAdvance
    BY DEF IInv, Quiet
  <1>2. Pages'
    <2>1. ASSUME NEW u \in User, view'[u] = view[u], Copy(view[u]) PROVE Copy(view[u])'
      <3>1. /\ view[u].id \in Order /\ view[u].doc \in OrderDoc
            /\ Past(view[u].doc, order[view[u].id])
        BY <2>1 DEF Copy, Sound
      <3>2. /\ order[view[u].id] \in OrderDoc /\ order'[view[u].id] \in OrderDoc
            /\ Advances(order[view[u].id], order'[view[u].id])
        BY <1>1, <3>1 DEF Base, Documents, OrdersAdvance
      <3>3. Past(view[u].doc, order'[view[u].id])
        BY <3>1, <3>2, PastAdvances
      <3>4. QED
        BY <2>1, <3>3 DEF Copy
    <2>2. ASSUME NEW u \in User
          PROVE  (view[u] = Null \/ Copy(view[u]))' /\ (receipt[u] = NoReceipt \/ Filled(u))'
      <3>1. (view[u] = Null \/ Copy(view[u])) /\ (receipt[u] = NoReceipt \/ Filled(u))
        BY <1>1 DEF Pages
      <3>2. receipt'[u] = receipt[u] /\ KeepsView(u)
        BY DEF Quiet
      <3>3. (view[u] = Null \/ Copy(view[u]))'
        BY <2>1, <3>1, <3>2 DEF KeepsView
      <3>4. CASE Filled(u) /\ receipt[u] # NoReceipt
        <4>1. view'[u] = view[u]
          BY <3>2, <3>4 DEF KeepsView
        <4>2. Copy(view[u])'
          BY <2>1, <3>4, <4>1 DEF Filled
        <4>3. QED
          BY <3>2, <3>3, <3>4, <4>1, <4>2 DEF Filled
      <3>5. QED
        BY <3>1, <3>2, <3>3, <3>4
    <2>3. QED
      BY <2>2 DEF Quiet, Domains, Pages
  <1>3. Sendings'
    <2> SUFFICES ASSUME NEW t \in Txn, Running(t)' PROVE SentWell(t)'
      BY DEF Sendings
    <2>1. KeepsRequest(t)
      BY DEF Quiet
    <2>2. CASE Running(t) /\ req'[t] = req[t] /\ (snap'[t] = snap[t] \/ snap'[t].order = order)
      BY <1>1, <2>2, SendingStays
    <2>3. CASE \/ req'[t].op \in {"create", "update", "remove"}
               \/ req'[t].op \in {"send", "cancel"} /\ order'[req'[t].order].status # "NONE"
      BY <2>3 DEF SentWell
    <2>4. QED
      BY <2>1, <2>2, <2>3 DEF KeepsRequest
  <1>4. Waitings'
    <2> SUFFICES ASSUME NEW u \in User, waiting'[u] # Null PROVE AwaitsIt(u)'
      BY DEF Waitings
    <2>1. KeepsWaiting(u) /\ receipt'[u] = receipt[u]
      BY DEF Quiet
    <2>2. CASE waiting'[u] = waiting[u] /\ Running(waiting[u])' /\ req'[waiting[u]] = req[waiting[u]]
      BY <1>1, <2>1, <2>2 DEF Waitings, AwaitsIt, Running
    <2>3. CASE /\ receipt[u] = NoReceipt /\ waiting'[u] \in Txn
               /\ req'[waiting'[u]].op \in {"create", "update", "send", "cancel"}
      BY <2>1, <2>3 DEF AwaitsIt, Running, Idle
    <2>4. QED
      BY <2>1, <2>2, <2>3 DEF KeepsWaiting
  <1>5. \A t \in Txn : req'[t].op = "receive" => req'[t] = req[t]
    BY <1>1 DEF Quiet, KeepsRequest, Running, Idle
  <1>6. Keyed'
    <2> SUFFICES ASSUME NEW a \in AttemptSet, Attempted(a)' PROVE Attempted(a)
      BY <1>1, KeyedStays
    <2>1. ASSUME NEW u \in User, InDialog(u, a)' PROVE InDialog(u, a)
      <3>1. receipt'[u] = receipt[u] /\ KeepsView(u)
        BY DEF Quiet
      <3>2. receipt[u] # NoReceipt
        BY <2>1, <3>1 DEF InDialog, NoReceipt, AttemptSet
      <3>3. QED
        BY <2>1, <3>1, <3>2 DEF KeepsView, InDialog
    <2>2. ASSUME NEW t \in Txn, req'[t] = a PROVE req[t] = a
      BY <1>5, <2>2 DEF AttemptSet
    <2>3. InReceipt(a)' => InReceipt(a)
      BY DEF Quiet, InReceipt, AttemptSet
    <2>4. QED
      BY <2>1, <2>2, <2>3 DEF Attempted
  <1>7. Deliveries'
    <2>1. \A t \in Txn : Live(t)' => Live(t) /\ req'[t] = req[t]
      <3> SUFFICES ASSUME NEW t \in Txn, Live(t)' PROVE Live(t) /\ req'[t] = req[t]
        OBVIOUS
      <3>1. req'[t] = req[t]
        BY <1>5 DEF Live
      <3>2. QED
        BY <1>1, <3>1, LiveBefore
    <2>2. \A o \in Order, r \in Receipt, d \in Delivery : Received(o, r, d)' <=> Received(o, r, d)
      BY DEF Quiet, Received
    <2>3. \A u \in User, d \in Delivery : DialogOf(u, d)' <=> DialogOf(u, d)
      BY DEF Quiet, DialogOf
    <2>4. OneDialog' /\ NewsHolds'
      BY <1>1, <2>2 DEF Deliveries, OneDialog, NewsHolds, Quiet
    <2>5. ASSUME NEW d \in Delivery \ strayed PROVE Repeated(d)'
      <3>1. Repeated(d)
        BY <1>1, <2>5 DEF Deliveries
      <3>2. receipt' = receipt /\ told' = told
        BY DEF Quiet
      <3>3. \A t \in Txn : LiveFor(t, d)' => LiveFor(t, d) /\ req'[t] = req[t]
        BY <2>1 DEF LiveFor
      <3>4. Unedited(d)'
        BY <3>1, <3>2 DEF Repeated, Unedited, DialogOf
      <3>5. LiveHasDialog(d)'
        BY <3>1, <3>2, <3>3 DEF Repeated, LiveHasDialog, DialogOf
      <3>6. RecordedIsSettled(d)'
        BY <2>2, <2>3, <3>1, <3>2, <3>3 DEF Repeated, RecordedIsSettled
      <3>7. ReceivedAtMostOnce(d)'
        BY <2>2, <3>1 DEF Repeated, ReceivedAtMostOnce
      <3>8. DenialHolds(d)'
        <4>1. Denied(d)' <=> Denied(d)
          BY <3>2, Zenon DEF Denied
        <4>2. QED
          BY <2>2, <2>3, <3>1, <4>1 DEF Repeated, DenialHolds
      <3>9. QED
        BY <3>4, <3>5, <3>6, <3>7, <3>8 DEF Repeated
    <2>6. QED
      BY <2>4, <2>5 DEF Deliveries, Quiet
  <1>8. QED
    BY <1>1, <1>2, <1>3, <1>4, <1>6, <1>7 DEF IInv

-----------------------------------------------------------------------------
\* The quiet steps.

LEMMA SameOrders ==
    ASSUME order' = order
    PROVE  OrdersAdvance /\ \A o \in Order : order'[o].receipts = order[o].receipts
  BY DEF OrdersAdvance, Advances

LEMMA IdleBase ==
    ASSUME Base, UNCHANGED << documents, req, snap, missed >>
    PROVE  Base'
  <1>1. /\ order' = order /\ supplier' = supplier /\ restocked' = restocked
        /\ req' = req /\ snap' = snap /\ missed' = missed
    BY DEF documents
  <1>2. Documents'
    BY <1>1 DEF Base, Documents, SuppliersStay
  <1>3. ASSUME NEW t \in Txn, Running(t)'
        PROVE  /\ req'[t] \in Requests
               /\ \A o \in Order : ReadsOrder(t, o)'
               /\ \A s \in Supplier : ReadsSupplier(t, s)'
    <2>1. Running(t)
      BY <1>1, <1>3 DEF Running
    <2>2. QED
      BY <1>1, <2>1, OtherReads DEF Base, Reads
  <1>4. QED
    BY <1>1, <1>2, <1>3 DEF Base, Reads

\* A request ends, and the page that waited for it, if any, no longer does.
Ended(t) ==
    /\ req'[t] = Idle
    /\ \A x \in Txn : x # t => req'[x] = req[x] /\ snap'[x] = snap[x]

LEMMA CommitEnds ==
    ASSUME Base, NEW t \in Txn, NEW W, Commit(t, W)
    PROVE  Ended(t)
  BY DEF Base, Reads, Commit, Ended

LEMMA AbortEnds ==
    ASSUME Base, NEW t \in Txn, Abort(t)
    PROVE  Ended(t)
  BY DEF Base, Reads, Abort, Ended

LEMMA EndedKeeps ==
    ASSUME IInv, NEW t \in Txn, Ended(t), StopWaiting(t)
    PROVE  /\ DOMAIN waiting' = User
           /\ \A u \in User : KeepsWaiting(u) /\ (waiting'[u] # Null => waiting'[u] = waiting[u] /\ waiting[u] # t)
           /\ \A x \in Txn : KeepsRequest(x)
  <1>1. \A u \in User : waiting'[u] = IF waiting[u] = t THEN Null ELSE waiting[u]
    BY DEF StopWaiting, Waits
  <1>2. ASSUME NEW u \in User, waiting'[u] # Null
        PROVE  /\ waiting'[u] = waiting[u] /\ waiting[u] # t
               /\ Running(waiting[u])' /\ req'[waiting[u]] = req[waiting[u]]
    <2>1. waiting'[u] = waiting[u] /\ waiting[u] # t /\ waiting[u] # Null
      BY <1>1, <1>2
    <2>2. waiting[u] \in Txn /\ Running(waiting[u])
      BY <2>1 DEF IInv, Waitings, AwaitsIt
    <2>3. QED
      BY <2>1, <2>2 DEF Ended, Running
  <1>3. \A x \in Txn : KeepsRequest(x)
    BY DEF Ended, KeepsRequest, Running
  <1>4. QED
    BY <1>2, <1>3 DEF KeepsWaiting, StopWaiting

\* A request begins that is no receipt.
LEMMA BegunKeeps ==
    ASSUME IInv, NEW u \in User, NEW t \in Txn, NEW r, Ask(u, t, r), receipt[u] = NoReceipt,
           order' = order, r.op \in {"create", "update", "send", "cancel"},
           r.op \in {"send", "cancel"} => order[r.order].status # "NONE"
    PROVE  /\ DOMAIN waiting' = User
           /\ \A v \in User : KeepsWaiting(v)
           /\ \A x \in Txn : KeepsRequest(x)
  <1>1. /\ DOMAIN waiting = User /\ DOMAIN req = Txn /\ DOMAIN snap = Txn
        /\ \A v \in User : waiting[v] # Null => AwaitsIt(v)
    BY DEF IInv, Pages, Base, Reads, Waitings
  <1>2. /\ ~Running(t) /\ req'[t] = r /\ waiting'[u] = t /\ DOMAIN waiting' = User
        /\ \A x \in Txn : x # t => req'[x] = req[x] /\ snap'[x] = snap[x]
        /\ \A v \in User : v # u => waiting'[v] = waiting[v]
    BY <1>1 DEF Ask, Begin
  <1>3. ASSUME NEW v \in User PROVE KeepsWaiting(v)
    <2>1. CASE v = u
      BY <1>2, <2>1 DEF KeepsWaiting
    <2>2. CASE v # u /\ waiting[v] # Null
      <3>1. waiting[v] \in Txn /\ Running(waiting[v]) /\ waiting[v] # t
        BY <1>1, <1>2, <2>2 DEF AwaitsIt
      <3>2. QED
        BY <1>2, <2>2, <3>1 DEF KeepsWaiting, Running
    <2>3. QED
      BY <1>2, <2>1, <2>2 DEF KeepsWaiting
  <1>4. ASSUME NEW x \in Txn PROVE KeepsRequest(x)
    <2>1. CASE x = t
      BY <1>2, <2>1 DEF KeepsRequest
    <2>2. CASE x # t
      BY <1>2, <2>2 DEF KeepsRequest, Running
    <2>3. QED
      BY <2>1, <2>2
  <1>5. QED
    BY <1>2, <1>3, <1>4

\* An answer shows the order as it is after the step.
LEMMA AnswerKeeps ==
    ASSUME IInv, Base', NEW t \in Txn, Running(t), req[t].op # "receive", req[t].order \in Order,
           order'[req[t].order].status # "NONE",
           NEW doc, doc = order'[req[t].order], AnswerWith(t, req[t].order, doc)
    PROVE  DOMAIN view' = User /\ \A u \in User : KeepsView(u)
  <1>1. ASSUME NEW u \in User PROVE KeepsView(u)
    <2>1. CASE waiting[u] = t
      <3>1. receipt[u] = NoReceipt
        <4>1. waiting[u] # Null
          BY <2>1
        <4>2. QED
          BY <2>1, <4>1 DEF IInv, Waitings, AwaitsIt
      <3>2. view'[u] = [id |-> req[t].order, doc |-> order'[req[t].order]]
        BY <2>1 DEF AnswerWith, Waits
      <3>3. Sound(order'[req[t].order]) /\ order'[req[t].order] \in OrderDoc
        BY DEF Base, Documents
      <3>4. Copy(view[u])'
        BY <3>2, <3>3, PastSelf DEF Copy
      <3>5. QED
        BY <3>1, <3>4 DEF KeepsView
    <2>2. CASE waiting[u] # t
      BY <2>2 DEF AnswerWith, Waits, KeepsView
    <2>3. QED
      BY <2>1, <2>2
  <1>2. QED
    BY <1>1 DEF AnswerWith

LEMMA PageShapes ==
    ASSUME IInv
    PROVE  DOMAIN view = User /\ DOMAIN receipt = User /\ DOMAIN waiting = User /\ DOMAIN told = Delivery
  BY DEF IInv, Pages

LEMMA OpenQuiet == ASSUME IInv, NEW u \in User, OpenOrder(u) PROVE Quiet
  <1>1. PICK o \in Order : /\ order[o].status # "NONE"
                           /\ view' = [view EXCEPT ![u] = [id |-> o, doc |-> order[o]]]
    BY Zenon DEF OpenOrder
  <1>2. /\ receipt[u] = NoReceipt /\ UNCHANGED << documents, req, snap, missed >>
        /\ receipt' = receipt /\ waiting' = waiting /\ told' = told /\ strayed' = strayed
    BY Zenon DEF OpenOrder
  <1>3. order' = order /\ req' = req /\ snap' = snap
    BY <1>2 DEF documents
  <1>4. Base' /\ OrdersAdvance /\ \A p \in Order : order'[p].receipts = order[p].receipts
    BY <1>2, <1>3, IdleBase, SameOrders DEF IInv
  <1>5. ASSUME NEW v \in User PROVE KeepsView(v)
    <2>1. CASE v = u
      <3>1. view'[v] = [id |-> o, doc |-> order[o]]
        BY <1>1, <2>1, PageShapes
      <3>2. Sound(order[o]) /\ order[o] \in OrderDoc
        BY DEF IInv, Base, Documents
      <3>3. Copy(view[v])'
        BY <1>1, <1>3, <3>1, <3>2, PastSelf DEF Copy
      <3>4. QED
        BY <1>2, <2>1, <3>3 DEF KeepsView
    <2>2. CASE v # u
      BY <1>1, <2>2 DEF KeepsView
    <2>3. QED
      BY <2>1, <2>2
  <1>6. \A v \in User : KeepsWaiting(v)
    BY <1>2, <1>3 DEF IInv, Waitings, AwaitsIt, KeepsWaiting, Running
  <1>7. \A t \in Txn : KeepsRequest(t)
    BY <1>3 DEF KeepsRequest, Running
  <1>8. Domains'
    BY <1>1, <1>2, PageShapes DEF Domains
  <1>9. QED
    BY <1>2, <1>4, <1>5, <1>6, <1>7, <1>8 DEF Quiet

LEMMA CloseEditorQuiet == ASSUME IInv, NEW u \in User, CloseEditor(u) PROVE Quiet
  <1>1. view' = [view EXCEPT ![u] = Null]
    BY Zenon DEF CloseEditor
  <1>2. /\ receipt[u] = NoReceipt /\ UNCHANGED << documents, req, snap, missed >>
        /\ receipt' = receipt /\ waiting' = waiting /\ told' = told /\ strayed' = strayed
    BY Zenon DEF CloseEditor
  <1>3. order' = order /\ req' = req /\ snap' = snap
    BY <1>2 DEF documents
  <1>4. Base' /\ OrdersAdvance /\ \A p \in Order : order'[p].receipts = order[p].receipts
    BY <1>2, <1>3, IdleBase, SameOrders DEF IInv
  <1>5. \A v \in User : KeepsView(v)
    BY <1>1, <1>2, PageShapes DEF KeepsView
  <1>6. \A v \in User : KeepsWaiting(v)
    BY <1>2, <1>3 DEF IInv, Waitings, AwaitsIt, KeepsWaiting, Running
  <1>7. \A t \in Txn : KeepsRequest(t)
    BY <1>3 DEF KeepsRequest, Running
  <1>8. Domains'
    BY <1>1, <1>2, PageShapes DEF Domains
  <1>9. QED
    BY <1>2, <1>4, <1>5, <1>6, <1>7, <1>8 DEF Quiet

LEMMA GiveUpQuiet == ASSUME IInv, NEW u \in User, GiveUp(u) PROVE Quiet
  <1>1. waiting' = [waiting EXCEPT ![u] = Null]
    BY Zenon DEF GiveUp
  <1>2. /\ UNCHANGED << documents, req, snap, missed >>
        /\ receipt' = receipt /\ view' = view /\ told' = told /\ strayed' = strayed
    BY Zenon DEF GiveUp
  <1>3. order' = order /\ req' = req /\ snap' = snap
    BY <1>2 DEF documents
  <1>4. Base' /\ OrdersAdvance /\ \A p \in Order : order'[p].receipts = order[p].receipts
    BY <1>2, <1>3, IdleBase, SameOrders DEF IInv
  <1>5. \A v \in User : KeepsView(v)
    BY <1>2 DEF KeepsView
  <1>6. \A v \in User : KeepsWaiting(v)
    BY <1>1, <1>3, PageShapes DEF IInv, Waitings, AwaitsIt, KeepsWaiting, Running
  <1>7. \A t \in Txn : KeepsRequest(t)
    BY <1>3 DEF KeepsRequest, Running
  <1>8. Domains'
    BY <1>1, <1>2, PageShapes DEF Domains
  <1>9. QED
    BY <1>2, <1>4, <1>5, <1>6, <1>7, <1>8 DEF Quiet

\* A step in which only a request begins, for a page without a dialog.
LEMMA BegunQuiet ==
    ASSUME IInv, NEW u \in User, NEW t \in Txn, NEW r \in Requests, Ask(u, t, r),
           receipt[u] = NoReceipt, r.op \in {"create", "update", "send", "cancel"},
           r.op \in {"send", "cancel"} => order[r.order].status # "NONE",
           UNCHANGED << documents, view, receipt, told, strayed >>
    PROVE  Quiet
  <1>1. /\ UNCHANGED documents /\ order' = order /\ view' = view /\ receipt' = receipt
        /\ told' = told /\ strayed' = strayed
    BY DEF documents
  <1>2. Base'
    BY <1>1, BeginBase DEF Ask, IInv
  <1>3. /\ DOMAIN waiting' = User /\ \A v \in User : KeepsWaiting(v)
        /\ \A x \in Txn : KeepsRequest(x)
    BY <1>1, BegunKeeps
  <1>4. \A x \in Txn : KeepsRequest(x)
    BY <1>3
  <1>5. Domains'
    BY <1>1, <1>3, PageShapes DEF Domains
  <1>6. \A v \in User : KeepsView(v)
    BY <1>1 DEF KeepsView
  <1>7. QED
    BY <1>1, <1>2, <1>3, <1>4, <1>5, <1>6, SameOrders DEF Quiet

LEMMA ViewDoc ==
    ASSUME IInv, NEW u \in User, view[u] # Null
    PROVE  /\ Copy(view[u]) /\ view[u].id \in Order /\ view[u].doc \in OrderDoc
           /\ view[u].doc.version \in 0..MaxVersion /\ order[view[u].id].status # "NONE"
  <1>1. Copy(view[u])
    BY DEF IInv, Pages
  <1>2. view[u].doc \in OrderDoc /\ view[u].id \in Order
    BY <1>1 DEF Copy, Sound
  <1>3. QED
    BY <1>1, <1>2 DEF Copy, Past, OrderDoc

LEMMA SaveQuiet == ASSUME IInv, NEW u \in User, NEW t \in Txn, SaveDraft(u, t) PROVE Quiet
  <1>1. PICK s \in Supplier, lines \in DraftLines, o \in Order :
           \/ Ask(u, t, [op |-> "create", order |-> o, supplier |-> s, lines |-> lines])
           \/ view[u] # Null /\ view[u].id = o
              /\ Ask(u, t, [op |-> "update", order |-> o, supplier |-> s, lines |-> lines,
                            version |-> view[u].doc.version])
    BY Zenon DEF SaveDraft
  <1>2. receipt[u] = NoReceipt /\ UNCHANGED << documents, view, receipt, told, strayed >>
    BY Zenon DEF SaveDraft
  <1>3. lines \in Quantities
    BY DEF DraftLines
  <1>4. CASE Ask(u, t, [op |-> "create", order |-> o, supplier |-> s, lines |-> lines])
    <2> DEFINE r == [op |-> "create", order |-> o, supplier |-> s, lines |-> lines]
    <2>1. r \in Requests /\ r.op = "create"
      BY <1>3 DEF Requests, CreateRequest
    <2> HIDE DEF r
    <2>2. QED
      BY <1>2, <1>4, <2>1, BegunQuiet DEF r
  <1>5. CASE view[u] # Null /\ view[u].id = o
              /\ Ask(u, t, [op |-> "update", order |-> o, supplier |-> s, lines |-> lines,
                            version |-> view[u].doc.version])
    <2> DEFINE r == [op |-> "update", order |-> o, supplier |-> s, lines |-> lines,
                     version |-> view[u].doc.version]
    <2>1. view[u].doc.version \in 0..MaxVersion
      BY <1>5, ViewDoc
    <2>2. r \in Requests /\ r.op = "update"
      BY <1>3, <2>1 DEF Requests, UpdateRequest
    <2>3. Ask(u, t, r)
      BY <1>5
    <2> HIDE DEF r
    <2>4. QED
      BY <1>2, <2>2, <2>3, BegunQuiet
  <1>6. QED
    BY <1>1, <1>4, <1>5

LEMMA TransitionQuiet == ASSUME IInv, NEW u \in User, NEW t \in Txn, Transition(u, t) PROVE Quiet
  <1>1. PICK op \in {"send", "cancel"} :
           Ask(u, t, [op |-> op, order |-> view[u].id, version |-> view[u].doc.version])
    BY Zenon DEF Transition
  <1>2. /\ view[u] # Null /\ receipt[u] = NoReceipt
        /\ UNCHANGED << documents, view, receipt, told, strayed >>
    BY Zenon DEF Transition
  <1> DEFINE r == [op |-> op, order |-> view[u].id, version |-> view[u].doc.version]
  <1>3. /\ view[u].doc.version \in 0..MaxVersion /\ view[u].id \in Order
        /\ order[view[u].id].status # "NONE"
    BY <1>2, ViewDoc
  <1>4. r \in Requests /\ r.op \in {"send", "cancel"} /\ order[r.order].status # "NONE"
    BY <1>3 DEF Requests, MoveRequest
  <1>5. Ask(u, t, r)
    BY <1>1
  <1> HIDE DEF r
  <1>6. QED
    BY <1>2, <1>4, <1>5, BegunQuiet

LEMMA EndedQuiet ==
    ASSUME IInv, Base', OrdersAdvance, NEW t \in Txn, Ended(t), StopWaiting(t),
           \A o \in Order : order'[o].receipts = order[o].receipts,
           DOMAIN view' = User, \A u \in User : KeepsView(u),
           UNCHANGED << receipt, told, strayed >>
    PROVE  Quiet
  <1>1. /\ DOMAIN waiting' = User /\ \A u \in User : KeepsWaiting(u)
        /\ \A x \in Txn : KeepsRequest(x)
    BY EndedKeeps
  <1>2. \A x \in Txn : KeepsRequest(x)
    BY <1>1
  <1>3. Domains'
    BY <1>1, PageShapes DEF Domains
  <1>4. QED
    BY <1>1, <1>2, <1>3 DEF Quiet

LEMMA WroteAdvances ==
    ASSUME NEW t \in Txn, Wrote(t)
    PROVE  OrdersAdvance
  BY DEF Wrote, OrdersAdvance, Advances

LEMMA WroteQuiet ==
    ASSUME IInv, NEW t \in Txn, Wrote(t), req[t].op # "receive",
           order'[req[t].order].receipts = order[req[t].order].receipts,
           AnswerWith(t, req[t].order, order'[req[t].order]),
           UNCHANGED << receipt, told, strayed >>
    PROVE  Quiet
  <1>1. /\ Running(t) /\ req[t].order \in Order /\ Base' /\ order'[req[t].order].status # "NONE"
        /\ \A p \in Order : p # req[t].order => order'[p] = order[p]
    BY DEF Wrote
  <1>2. Ended(t)
    BY CommitEnds DEF Wrote, IInv
  <1>3. StopWaiting(t)
    BY DEF AnswerWith
  <1>4. DOMAIN view' = User /\ \A u \in User : KeepsView(u)
    BY <1>1, AnswerKeeps
  <1>5. \A o \in Order : order'[o].receipts = order[o].receipts
    BY <1>1
  <1>6. OrdersAdvance
    BY WroteAdvances
  <1>7. QED
    BY <1>1, <1>2, <1>3, <1>4, <1>5, <1>6, EndedQuiet

LEMMA CreateQuiet == ASSUME IInv, NEW t \in Txn, CommitCreate(t) PROVE Quiet
  <1>1. /\ req[t].op = "create" /\ AnswerWith(t, req[t].order, order'[req[t].order])
        /\ UNCHANGED << receipt, told, strayed >>
    BY Zenon DEF CommitCreate
  <1>2. Wrote(t) /\ order'[req[t].order].receipts = order[req[t].order].receipts
    BY CreateWrites DEF IInv
  <1>3. QED
    BY <1>1, <1>2, WroteQuiet

LEMMA UpdateQuiet == ASSUME IInv, NEW t \in Txn, CommitUpdate(t) PROVE Quiet
  <1>1. /\ req[t].op = "update" /\ AnswerWith(t, req[t].order, order'[req[t].order])
        /\ UNCHANGED << receipt, told, strayed >>
    BY Zenon DEF CommitUpdate
  <1>2. Wrote(t) /\ order'[req[t].order].receipts = order[req[t].order].receipts
    BY UpdateWrites DEF IInv
  <1>3. QED
    BY <1>1, <1>2, WroteQuiet

LEMMA SendQuiet == ASSUME IInv, NEW t \in Txn, CommitSend(t) PROVE Quiet
  <1>1. /\ req[t].op = "send" /\ AnswerWith(t, req[t].order, order'[req[t].order])
        /\ UNCHANGED << receipt, told, strayed >>
    BY Zenon DEF CommitSend
  <1>2. Wrote(t) /\ order'[req[t].order].receipts = order[req[t].order].receipts
    BY SendWrites DEF IInv
  <1>3. QED
    BY <1>1, <1>2, WroteQuiet

LEMMA CancelQuiet == ASSUME IInv, NEW t \in Txn, CommitCancel(t) PROVE Quiet
  <1>1. /\ req[t].op = "cancel" /\ AnswerWith(t, req[t].order, order'[req[t].order])
        /\ UNCHANGED << receipt, told, strayed >>
    BY Zenon DEF CommitCancel
  <1>2. Wrote(t) /\ order'[req[t].order].receipts = order[req[t].order].receipts
    BY CancelWrites DEF IInv
  <1>3. QED
    BY <1>1, <1>2, WroteQuiet

LEMMA LoseQuiet == ASSUME IInv, NEW t \in Txn, Lose(t) PROVE Quiet
  <1>1. /\ Abort(t) /\ StopWaiting(t) /\ UNCHANGED documents /\ view' = view
        /\ UNCHANGED << receipt, told, strayed >>
    BY Zenon DEF Lose
  <1>2. Base' /\ Ended(t) /\ order' = order
    BY <1>1, AbortBase, AbortEnds DEF IInv, documents
  <1>3. \A u \in User : KeepsView(u)
    BY <1>1 DEF KeepsView
  <1>4. QED
    BY <1>1, <1>2, <1>3, SameOrders, PageShapes, EndedQuiet

LEMMA RefuseOtherQuiet == ASSUME IInv, NEW t \in Txn, RefuseOther(t) PROVE Quiet
  <1>1. /\ Abort(t) /\ UNCHANGED documents /\ req[t].op \in {"create", "update", "send", "cancel"}
        /\ UNCHANGED << receipt, told, strayed >>
        /\ \/ AnswerWith(t, req[t].order, order[req[t].order]) /\ req[t].op \in {"send", "cancel"}
           \/ StopWaiting(t) /\ view' = view
    BY Zenon DEF RefuseOther
  <1>2. Base' /\ Ended(t) /\ order' = order
    BY <1>1, AbortBase, AbortEnds DEF IInv, documents
  <1>3. CASE AnswerWith(t, req[t].order, order[req[t].order]) /\ req[t].op \in {"send", "cancel"}
    <2>1. Running(t) /\ req[t] \in Requests
      BY <1>1, RunningRequest DEF IInv
    <2>2. req[t].order \in Order
      BY <1>3, <2>1 DEF Requests, CreateRequest, UpdateRequest, MoveRequest, ReceiveRequest, RemoveRequest
    <2>3. order[req[t].order].status # "NONE"
      BY <1>3, <2>1 DEF IInv, Sendings, SentWell
    <2>4. DOMAIN view' = User /\ \A u \in User : KeepsView(u)
      BY <1>2, <1>3, <2>1, <2>2, <2>3, AnswerKeeps
    <2>5. StopWaiting(t)
      BY <1>3 DEF AnswerWith
    <2>6. QED
      BY <1>1, <1>2, <2>4, <2>5, SameOrders, EndedQuiet
  <1>4. CASE StopWaiting(t) /\ view' = view
    <2>1. \A u \in User : KeepsView(u)
      BY <1>4 DEF KeepsView
    <2>2. QED
      BY <1>1, <1>2, <1>4, <2>1, SameOrders, PageShapes, EndedQuiet
  <1>5. QED
    BY <1>1, <1>3, <1>4

\* Steps that no page takes part in.
LEMMA BackgroundQuiet ==
    ASSUME IInv, Base', order' = order, UNCHANGED page, \A t \in Txn : KeepsRequest(t),
           \A t \in Txn : Running(t) /\ req[t].op # "remove" => Running(t)' /\ req'[t] = req[t]
    PROVE  Quiet
  <1>1. /\ view' = view /\ receipt' = receipt /\ waiting' = waiting /\ told' = told
        /\ strayed' = strayed
    BY DEF page
  <1>2. \A u \in User : KeepsView(u)
    BY <1>1 DEF KeepsView
  <1>3. \A u \in User : KeepsWaiting(u)
    BY <1>1 DEF IInv, Waitings, AwaitsIt, KeepsWaiting
  <1>4. Domains'
    BY <1>1, PageShapes DEF Domains
  <1>5. QED
    BY <1>1, <1>2, <1>3, <1>4, SameOrders DEF Quiet

LEMMA RerunQuiet == ASSUME IInv, NEW t \in Txn, Rerun(t) PROVE Quiet
  <1>1. Retry(t, Current) /\ UNCHANGED documents /\ UNCHANGED page
    BY Zenon DEF Rerun
  <1>2. Base' /\ order' = order
    BY <1>1, RetryBase DEF IInv, documents
  <1>3. DOMAIN snap = Txn /\ Current.order = order
    BY DEF IInv, Base, Reads, Current
  <1>4. \A x \in Txn : req'[x] = req[x] /\ (snap'[x] = snap[x] \/ snap'[x].order = order)
    BY <1>1, <1>3 DEF Retry
  <1>5. \A x \in Txn : KeepsRequest(x)
    BY <1>4 DEF KeepsRequest, Running
  <1>6. \A x \in Txn : Running(x) => Running(x)' /\ req'[x] = req[x]
    BY <1>4 DEF Running
  <1>7. QED
    BY <1>1, <1>2, <1>5, <1>6, BackgroundQuiet

LEMMA ArchiveQuiet == ASSUME IInv, NEW t \in Txn, ArchiveSupplier(t) PROVE Quiet
  <1>1. order' = order /\ UNCHANGED page /\ req' = req /\ snap' = snap
    BY Zenon DEF ArchiveSupplier
  <1>2. Base'
    BY ArchiveBase DEF IInv
  <1>3. \A x \in Txn : KeepsRequest(x)
    BY <1>1 DEF KeepsRequest, Running
  <1>4. \A x \in Txn : Running(x) => Running(x)' /\ req'[x] = req[x]
    BY <1>1 DEF Running
  <1>5. QED
    BY <1>1, <1>2, <1>3, <1>4, BackgroundQuiet

LEMMA AskRemoveQuiet == ASSUME IInv, NEW t \in Txn, AskRemove(t) PROVE Quiet
  <1>1. PICK s \in Supplier : Begin(t, [op |-> "remove", supplier |-> s], Current)
    BY Zenon DEF AskRemove
  <1>2. UNCHANGED documents /\ UNCHANGED page
    BY Zenon DEF AskRemove
  <1> DEFINE r == [op |-> "remove", supplier |-> s]
  <1>3. r \in Requests /\ r.op = "remove" /\ Begin(t, r, Current)
    BY <1>1 DEF Requests, RemoveRequest
  <1> HIDE DEF r
  <1>4. Base' /\ order' = order
    BY <1>2, <1>3, BeginBase DEF IInv, documents
  <1>5. /\ ~Running(t) /\ req'[t] = r
        /\ \A x \in Txn : x # t => req'[x] = req[x] /\ snap'[x] = snap[x]
    BY <1>3 DEF Begin, IInv, Base, Reads
  <1>6. ASSUME NEW x \in Txn PROVE KeepsRequest(x)
    BY <1>3, <1>5 DEF KeepsRequest, Running
  <1>7. \A x \in Txn : Running(x) => Running(x)' /\ req'[x] = req[x]
    BY <1>5 DEF Running
  <1>8. QED
    BY <1>2, <1>4, <1>6, <1>7, BackgroundQuiet

LEMMA RemoveQuiet == ASSUME IInv, NEW t \in Txn, CommitRemove(t) PROVE Quiet
  <1>1. /\ req[t].op = "remove" /\ Commit(t, SupplierLock(req[t].supplier)) /\ order' = order
        /\ UNCHANGED page
    BY Zenon DEF CommitRemove
  <1>2. Base'
    BY RemoveBase DEF IInv
  <1>3. Ended(t)
    BY <1>1, CommitEnds DEF IInv
  <1>4. \A x \in Txn : KeepsRequest(x)
    BY <1>3 DEF Ended, KeepsRequest, Running
  <1>5. \A x \in Txn : Running(x) /\ req[x].op # "remove" => Running(x)' /\ req'[x] = req[x]
    BY <1>1, <1>3 DEF Ended, Running
  <1>6. QED
    BY <1>1, <1>2, <1>4, <1>5, BackgroundQuiet

-----------------------------------------------------------------------------
\* A key stands for its attempt.

LEMMA OrderTypes ==
    ASSUME Base, NEW o \in Order
    PROVE  order[o] \in OrderDoc /\ Sound(order[o]) /\ \A r \in order[o].receipts : r \in Receipt
  BY DEF Base, Documents, OrderDoc

LEMMA DialogTypes ==
    ASSUME IInv, NEW u \in User, receipt[u] # NoReceipt
    PROVE  Filled(u) /\ receipt[u] \in Dialog /\ Copy(view[u]) /\ view[u].id \in Order
           /\ view[u].doc \in OrderDoc /\ receipt[u].delivery \in Delivery
  <1>1. Filled(u)
    BY DEF IInv, Pages
  <1>2. QED
    BY <1>1 DEF Filled, Copy, Sound, Dialog

LEMMA NotADialog ==
    ASSUME NEW u \in User, receipt[u] = NoReceipt
    PROVE  receipt[u].key = Null /\ receipt[u].delivery = Null
  BY DEF NoReceipt

LEMMA KeyDialogRequest ==
    ASSUME IInv, NEW u \in User, NEW t \in Txn, req[t].op = "receive", receipt[u].key = req[t].key
    PROVE  /\ view[u].id = req[t].order /\ view[u].doc.version = req[t].version
           /\ receipt[u].delivery = req[t].delivery /\ receipt[u].sent = req[t].quantity
  <1> DEFINE a == [op |-> "receive", order |-> view[u].id, key |-> receipt[u].key,
                   version |-> view[u].doc.version, quantity |-> receipt[u].sent,
                   delivery |-> receipt[u].delivery]
  <1>1. req[t] \in AttemptSet
    BY RequestTypes DEF IInv
  <1>2. receipt[u].key \in Key
    BY <1>1 DEF AttemptSet
  <1>3. receipt[u] # NoReceipt
    BY <1>2, NotADialog
  <1>4. receipt[u] \in Dialog /\ view[u].id \in Order /\ view[u].doc.version \in 0..MaxVersion
    BY <1>3, DialogTypes DEF OrderDoc
  <1>5. a \in AttemptSet /\ InDialog(u, a) /\ a.key = req[t].key
    BY <1>2, <1>4 DEF AttemptSet, Dialog, InDialog
  <1> HIDE DEF a
  <1>6. Attempted(a) /\ Attempted(req[t])
    BY <1>5 DEF Attempted
  <1>7. a = req[t]
    BY <1>1, <1>5, <1>6 DEF IInv, Keyed
  <1>8. QED
    BY <1>7 DEF a

LEMMA KeyReceiptRequest ==
    ASSUME IInv, NEW o \in Order, NEW r \in order[o].receipts, NEW t \in Txn,
           req[t].op = "receive", r.key = req[t].key
    PROVE  o = req[t].order /\ r = ReceiptOf(req[t])
  <1> DEFINE a == [op |-> "receive", order |-> o, key |-> r.key, version |-> r.version,
                   quantity |-> r.quantity, delivery |-> r.delivery]
  <1>1. req[t] \in AttemptSet /\ r \in Receipt
    BY RequestTypes, OrderTypes DEF IInv
  <1>2. a \in AttemptSet /\ ReceiptOf(a) = r /\ a.order = o /\ a.key = req[t].key
    BY <1>1 DEF AttemptSet, Receipt, ReceiptOf
  <1> HIDE DEF a
  <1>3. Attempted(a) /\ Attempted(req[t])
    BY <1>2 DEF Attempted, InReceipt
  <1>4. a = req[t]
    BY <1>1, <1>2, <1>3 DEF IInv, Keyed
  <1>5. QED
    BY <1>2, <1>4

LEMMA KeyReceiptDialog ==
    ASSUME IInv, NEW o \in Order, NEW r \in order[o].receipts, NEW u \in User, receipt[u].key = r.key
    PROVE  /\ view[u].id = o /\ view[u].doc.version = r.version
           /\ receipt[u].delivery = r.delivery /\ receipt[u].sent = r.quantity
  <1> DEFINE a == [op |-> "receive", order |-> o, key |-> r.key, version |-> r.version,
                   quantity |-> r.quantity, delivery |-> r.delivery]
             b == [op |-> "receive", order |-> view[u].id, key |-> receipt[u].key,
                   version |-> view[u].doc.version, quantity |-> receipt[u].sent,
                   delivery |-> receipt[u].delivery]
  <1>1. r \in Receipt
    BY OrderTypes DEF IInv
  <1>2. receipt[u].key \in Key
    BY <1>1 DEF Receipt
  <1>3. receipt[u] # NoReceipt
    BY <1>2, NotADialog
  <1>4. receipt[u] \in Dialog /\ view[u].id \in Order /\ view[u].doc.version \in 0..MaxVersion
    BY <1>3, DialogTypes DEF OrderDoc
  <1>5. a \in AttemptSet /\ ReceiptOf(a) = r /\ a.order = o /\ a.key = r.key
    BY <1>1 DEF AttemptSet, Receipt, ReceiptOf
  <1>6. b \in AttemptSet /\ InDialog(u, b) /\ b.key = r.key
    BY <1>2, <1>4 DEF AttemptSet, Dialog, InDialog
  <1> HIDE DEF a, b
  <1>7. Attempted(a) /\ Attempted(b)
    BY <1>5, <1>6 DEF Attempted, InReceipt
  <1>8. a = b
    BY <1>5, <1>6, <1>7 DEF IInv, Keyed
  <1>9. QED
    BY <1>8 DEF a, b

LEMMA KeyRequests ==
    ASSUME IInv, NEW t \in Txn, NEW x \in Txn, req[t].op = "receive", req[x].op = "receive",
           req[t].key = req[x].key
    PROVE  req[t] = req[x]
  <1>1. req[t] \in AttemptSet /\ req[x] \in AttemptSet
    BY RequestTypes DEF IInv
  <1>2. QED
    BY <1>1 DEF IInv, Keyed, Attempted

-----------------------------------------------------------------------------
\* The dialog is opened, filled in, and closed.

\* Only the dialog of a user who waits for nothing changes.
LEMMA DialogStep ==
    ASSUME IInv, NEW u \in User, Free(u), UNCHANGED << documents, view, waiting, req, snap, missed >>,
           DOMAIN receipt' = User, \A v \in User : v # u => receipt'[v] = receipt[v],
           DOMAIN told' = Delivery, receipt'[u] = NoReceipt \/ Filled(u)'
    PROVE  /\ Base' /\ Pages' /\ Sendings' /\ Waitings'
           /\ \A t \in Txn, d \in Delivery : LiveFor(t, d)' <=> LiveFor(t, d)
           /\ \A o \in Order, r \in Receipt, d \in Delivery : Received(o, r, d)' <=> Received(o, r, d)
  <1>1. order' = order /\ view' = view /\ waiting' = waiting /\ req' = req /\ snap' = snap
    BY DEF documents
  <1>2. Base'
    BY IdleBase DEF IInv
  <1>3. Pages'
    <2>1. ASSUME NEW v \in User
          PROVE (view[v] = Null \/ Copy(view[v]))' /\ (receipt[v] = NoReceipt \/ Filled(v))'
      <3>1. (view[v] = Null \/ Copy(view[v])) /\ (receipt[v] = NoReceipt \/ Filled(v))
        BY DEF IInv, Pages
      <3>2. (view[v] = Null \/ Copy(view[v]))'
        BY <1>1, <3>1 DEF Copy
      <3>3. CASE v # u
        BY <1>1, <3>1, <3>2, <3>3 DEF Filled, Copy
      <3>4. QED
        BY <3>2, <3>3
    <2>2. QED
      BY <1>1, <2>1, PageShapes DEF Pages
  <1>4. Sendings'
    BY <1>1 DEF IInv, Sendings, SentWell, SentFrom, Running
  <1>5. Waitings'
    <2> SUFFICES ASSUME NEW v \in User, waiting'[v] # Null PROVE AwaitsIt(v)'
      BY DEF Waitings
    <2>1. v # u /\ AwaitsIt(v)
      BY <1>1 DEF Free, IInv, Waitings
    <2>2. QED
      BY <1>1, <2>1 DEF AwaitsIt, Running
  <1>6. \A t \in Txn, d \in Delivery : LiveFor(t, d)' <=> LiveFor(t, d)
    BY <1>1 DEF LiveFor, Live
  <1>7. \A o \in Order, r \in Receipt, d \in Delivery : Received(o, r, d)' <=> Received(o, r, d)
    BY <1>1 DEF Received
  <1>8. QED
    BY <1>2, <1>3, <1>4, <1>5, <1>6, <1>7

LEMMA OutstandingFits ==
    ASSUME NEW doc \in OrderDoc, Sound(doc), doc.status \in Open
    PROVE  Outstanding(doc) \in Quantities /\ Fits(Outstanding(doc), doc)
  <1>1. doc.status # "CANCELLED"
    BY DEF Open
  <1>2. \A l \in Line : doc.ordered[l] \in 0..MaxQty /\ doc.received[l] \in 0..MaxQty
                        /\ doc.received[l] <= doc.ordered[l]
    BY DEF OrderDoc, Quantities, Sound
  <1>3. Outstanding(doc) = [l \in Line |-> doc.ordered[l] - doc.received[l]]
    BY <1>1 DEF Outstanding
  <1>4. QED
    BY <1>2, <1>3 DEF Quantities, Fits

LEMMA OpenReceiveKeeps == ASSUME IInv, NEW u \in User, OpenReceive(u) PROVE IInv'
  <1>1. /\ Free(u) /\ receipt[u] = NoReceipt /\ view[u] # Null /\ view[u].doc.status \in Open
        /\ UNCHANGED << documents, view, waiting, req, snap, missed >> /\ strayed' = strayed
    BY Zenon DEF OpenReceive
  <1>2. PICK d \in Delivery :
          /\ \A v \in User : receipt[v].delivery # d
          /\ told[d] # "recorded"
          /\ told' = [told EXCEPT ![d] = "nothing"]
          /\ receipt' = [receipt EXCEPT ![u] = ReceiptForm(d, view[u].doc)]
    BY Zenon DEF OpenReceive
  <1> DEFINE f == ReceiptForm(d, view[u].doc)
  <1>3. Copy(view[u]) /\ view[u].doc \in OrderDoc /\ Sound(view[u].doc)
    BY <1>1, ViewDoc DEF Copy
  <1>4. Outstanding(view[u].doc) \in Quantities /\ Fits(Outstanding(view[u].doc), view[u].doc)
    BY <1>1, <1>3, OutstandingFits
  <1>5. f \in Dialog /\ f.delivery = d /\ f.key = Null /\ f.quantity = Outstanding(view[u].doc)
    <2> DEFINE q == Outstanding(view[u].doc)
    <2>1. None \in Quantities
      BY DEF None, Quantities
    <2>2. q \in Quantities
      BY <1>4
    <2>3. f = [NoReceipt EXCEPT !.delivery = d, !.quantity = q]
      BY DEF ReceiptForm
    <2> HIDE DEF q, f
    <2>4. f = [delivery |-> d, quantity |-> q, key |-> Null, sent |-> None]
      BY <2>3 DEF NoReceipt
    <2>5. f \in Dialog /\ f.delivery = d /\ f.key = Null /\ f.quantity = q
      BY <2>1, <2>2, <2>4 DEF Dialog
    <2>6. QED
      BY <2>5 DEF q
  <1> HIDE DEF f
  <1>6. /\ DOMAIN receipt' = User /\ receipt'[u] = f
        /\ \A v \in User : v # u => receipt'[v] = receipt[v]
    BY <1>2, PageShapes DEF f
  <1>7. DOMAIN told' = Delivery /\ told'[d] = "nothing" /\ \A e \in Delivery : e # d => told'[e] = told[e]
    BY <1>2, PageShapes
  <1>8. Filled(u)'
    <2>1. order' = order /\ view' = view
      BY <1>1 DEF documents
    <2>2. QED
      BY <1>3, <1>4, <1>5, <1>6, <2>1 DEF Filled, Copy
  <1>9. Base' /\ Pages' /\ Sendings' /\ Waitings'
    BY <1>1, <1>6, <1>7, <1>8, DialogStep
  <1>10. /\ \A t \in Txn, e \in Delivery : LiveFor(t, e)' <=> LiveFor(t, e)
         /\ \A o \in Order, r \in Receipt, e \in Delivery : Received(o, r, e)' <=> Received(o, r, e)
    BY <1>1, <1>6, <1>7, <1>8, DialogStep
  <1>11. order' = order /\ view' = view /\ req' = req
    BY <1>1 DEF documents
  <1>12. Keyed'
    <2> SUFFICES ASSUME NEW a \in AttemptSet, Attempted(a)' PROVE Attempted(a)
      BY KeyedStays DEF IInv
    <2>1. ASSUME NEW v \in User, InDialog(v, a)' PROVE InDialog(v, a)
      <3>1. v # u
        BY <1>5, <1>6, <2>1 DEF InDialog, AttemptSet
      <3>2. QED
        BY <1>6, <1>11, <2>1, <3>1 DEF InDialog
    <2>2. QED
      BY <1>11, <2>1 DEF Attempted, InReceipt
  <1>13. \A v \in User : /\ DialogOf(v, d)' => v = u
                         /\ \A e \in Delivery : e # d => (DialogOf(v, e)' <=> DialogOf(v, e))
    BY <1>1, <1>2, <1>5, <1>6, NotADialog DEF DialogOf
  <1>14. OneDialog'
    BY <1>2, <1>5, <1>6 DEF IInv, Deliveries, OneDialog
  <1>15. NewsHolds'
    BY <1>7, <1>10 DEF IInv, Deliveries, NewsHolds
  <1>16. ASSUME NEW e \in Delivery \ strayed PROVE Repeated(e)'
    <2>1. Repeated(e)
      BY <1>16 DEF IInv, Deliveries
    <2>2. \A v \in User : receipt'[v].key # Null => v # u /\ receipt'[v] = receipt[v]
      BY <1>5, <1>6
    <2>3. Unedited(e)'
      BY <2>1, <2>2 DEF Repeated, Unedited, DialogOf
    <2>4. ReceivedAtMostOnce(e)'
      BY <1>10, <2>1 DEF Repeated, ReceivedAtMostOnce
    <2>5. CASE e = d
      <3>1. /\ \A t \in Txn : ~LiveFor(t, d)
            /\ \A o \in Order, r \in Receipt : ~Received(o, r, d)
        BY <1>2, <2>1, <2>5 DEF Repeated, LiveHasDialog, RecordedIsSettled, DialogOf
      <3>2. LiveHasDialog(d)' /\ RecordedIsSettled(d)'
        BY <1>10, <3>1 DEF LiveHasDialog, RecordedIsSettled
      <3>3. ~Denied(d)'
        BY <1>7, Zenon DEF Denied
      <3>4. DenialHolds(d)'
        BY <3>3 DEF DenialHolds
      <3>5. QED
        BY <2>3, <2>4, <2>5, <3>2, <3>4 DEF Repeated
    <2>6. CASE e # d
      <3>1. \A v \in User : /\ DialogOf(v, e)' <=> DialogOf(v, e)
                            /\ DialogOf(v, e) => v # u /\ receipt'[v] = receipt[v]
        BY <1>1, <1>6, <1>13, <2>6, NotADialog DEF DialogOf
      <3>2. LiveHasDialog(e)'
        BY <1>10, <1>11, <2>1, <3>1 DEF Repeated, LiveHasDialog
      <3>3. RecordedIsSettled(e)'
        BY <1>7, <1>10, <2>1, <2>6, <3>1 DEF Repeated, RecordedIsSettled
      <3>4. Denied(e)' <=> Denied(e)
        <4>1. told'[e] = told[e]
          BY <1>7, <2>6
        <4>2. QED
          BY <4>1, Zenon DEF Denied
      <3>5. DenialHolds(e)'
        BY <1>10, <2>1, <3>1, <3>4 DEF Repeated, DenialHolds
      <3>6. QED
        BY <2>3, <2>4, <3>2, <3>3, <3>5 DEF Repeated
    <2>7. QED
      BY <2>5, <2>6
  <1>17. Deliveries'
    BY <1>1, <1>14, <1>15, <1>16 DEF Deliveries
  <1>18. QED
    BY <1>9, <1>12, <1>17 DEF IInv

\* Who changes a receipt that was sent strays.
LEMMA StraySpares ==
    ASSUME NEW u \in User, Stray(u), NEW d \in Delivery \ strayed'
    PROVE  d \in Delivery \ strayed /\ (DialogOf(u, d) => receipt[u].key = Null)
  BY DEF Stray, DialogOf

LEMMA EditKeeps == ASSUME IInv, NEW u \in User, EditReceipt(u) PROVE IInv'
  <1>1. /\ Free(u) /\ receipt[u] # NoReceipt /\ Stray(u) /\ told' = told
        /\ UNCHANGED << documents, view, waiting, req, snap, missed >>
    BY Zenon DEF EditReceipt
  <1>2. PICK q \in Quantities \ {None} :
          /\ ReceiptValid(q, view[u].doc)
          /\ receipt' = [receipt EXCEPT ![u].quantity = q]
    BY Zenon DEF EditReceipt
  <1>3. Filled(u) /\ receipt[u] \in Dialog
    BY <1>1, DialogTypes
  <1>4. /\ DOMAIN receipt' = User /\ receipt'[u] \in Dialog /\ receipt'[u].quantity = q
        /\ receipt'[u].key = receipt[u].key /\ receipt'[u].sent = receipt[u].sent
        /\ receipt'[u].delivery = receipt[u].delivery
        /\ \A v \in User : v # u => receipt'[v] = receipt[v]
    BY <1>2, <1>3, PageShapes DEF Dialog
  <1>5. \A v \in User : /\ receipt'[v].key = receipt[v].key /\ receipt'[v].sent = receipt[v].sent
                        /\ receipt'[v].delivery = receipt[v].delivery
    BY <1>4
  <1>6. order' = order /\ view' = view /\ req' = req
    BY <1>1 DEF documents
  <1>7. Filled(u)'
    <2>1. Copy(view[u]) /\ view[u].doc.status \in Open /\ view[u].doc.status # "CANCELLED"
      BY <1>3 DEF Filled, Fits, Open
    <2>2. \A l \in Line : q[l] <= view[u].doc.ordered[l] - view[u].doc.received[l]
      BY <1>2, <2>1 DEF ReceiptValid, Outstanding
    <2>3. QED
      BY <1>4, <1>6, <2>1, <2>2 DEF Filled, Fits, Copy
  <1>8. Base' /\ Pages' /\ Sendings' /\ Waitings'
    BY <1>1, <1>4, <1>7, PageShapes, DialogStep
  <1>9. /\ \A t \in Txn, e \in Delivery : LiveFor(t, e)' <=> LiveFor(t, e)
        /\ \A o \in Order, r \in Receipt, e \in Delivery : Received(o, r, e)' <=> Received(o, r, e)
    BY <1>1, <1>4, <1>7, PageShapes, DialogStep
  <1>10. Keyed'
    <2> SUFFICES ASSUME NEW a \in AttemptSet, Attempted(a)' PROVE Attempted(a)
      BY KeyedStays DEF IInv
    <2>1. \A v \in User : InDialog(v, a)' => InDialog(v, a)
      BY <1>5, <1>6 DEF InDialog
    <2>2. QED
      BY <1>6, <2>1 DEF Attempted, InReceipt
  <1>11. \A v \in User, e \in Delivery : DialogOf(v, e)' <=> DialogOf(v, e)
    BY <1>5 DEF DialogOf
  <1>12. OneDialog'
    BY <1>1, <1>4, <1>5 DEF IInv, Deliveries, OneDialog
  <1>13. NewsHolds'
    BY <1>1, <1>9 DEF IInv, Deliveries, NewsHolds
  <1>14. ASSUME NEW e \in Delivery \ strayed' PROVE Repeated(e)'
    <2>1. e \in Delivery \ strayed /\ (DialogOf(u, e) => receipt[u].key = Null)
      BY <1>1, StraySpares
    <2>2. Repeated(e)
      BY <2>1 DEF IInv, Deliveries
    <2>3. Unedited(e)'
      BY <1>4, <1>5, <1>11, <2>1, <2>2 DEF Repeated, Unedited
    <2>4. LiveHasDialog(e)'
      BY <1>5, <1>6, <1>9, <1>11, <2>2 DEF Repeated, LiveHasDialog
    <2>5. RecordedIsSettled(e)'
      BY <1>1, <1>5, <1>9, <1>11, <2>2 DEF Repeated, RecordedIsSettled
    <2>6. ReceivedAtMostOnce(e)'
      BY <1>9, <2>2 DEF Repeated, ReceivedAtMostOnce
    <2>7. Denied(e)' <=> Denied(e)
      BY <1>1, Zenon DEF Denied
    <2>8. DenialHolds(e)'
      BY <1>9, <1>11, <2>2, <2>7 DEF Repeated, DenialHolds
    <2>9. QED
      BY <2>3, <2>4, <2>5, <2>6, <2>8 DEF Repeated
  <1>15. Deliveries'
    BY <1>12, <1>13, <1>14 DEF Deliveries
  <1>16. QED
    BY <1>8, <1>10, <1>15 DEF IInv

LEMMA CloseKeeps == ASSUME IInv, NEW u \in User, CloseReceive(u) PROVE IInv'
  <1>1. /\ Free(u) /\ receipt[u] # NoReceipt /\ Stray(u) /\ told' = told
        /\ UNCHANGED << documents, view, waiting, req, snap, missed >>
        /\ receipt' = [receipt EXCEPT ![u] = NoReceipt]
    BY Zenon DEF CloseReceive
  <1>2. /\ DOMAIN receipt' = User /\ receipt'[u] = NoReceipt
        /\ \A v \in User : v # u => receipt'[v] = receipt[v]
    BY <1>1, PageShapes
  <1>3. receipt'[u].key = Null /\ receipt'[u].delivery = Null
    BY <1>2 DEF NoReceipt
  <1>4. order' = order /\ view' = view /\ req' = req
    BY <1>1 DEF documents
  <1>5. Base' /\ Pages' /\ Sendings' /\ Waitings'
    BY <1>1, <1>2, PageShapes, DialogStep
  <1>6. /\ \A t \in Txn, e \in Delivery : LiveFor(t, e)' <=> LiveFor(t, e)
        /\ \A o \in Order, r \in Receipt, e \in Delivery : Received(o, r, e)' <=> Received(o, r, e)
    BY <1>1, <1>2, PageShapes, DialogStep
  <1>7. Keyed'
    <2> SUFFICES ASSUME NEW a \in AttemptSet, Attempted(a)' PROVE Attempted(a)
      BY KeyedStays DEF IInv
    <2>1. \A v \in User : InDialog(v, a)' => InDialog(v, a)
      BY <1>2, <1>3, <1>4 DEF InDialog, AttemptSet
    <2>2. QED
      BY <1>4, <2>1 DEF Attempted, InReceipt
  <1>8. \A v \in User, e \in Delivery : DialogOf(v, e)' <=> v # u /\ DialogOf(v, e)
    BY <1>2, <1>3 DEF DialogOf
  <1>9. OneDialog'
    <2>1. \A v \in User : receipt[v] # NoReceipt => receipt[v].delivery \in Delivery
      BY DialogTypes
    <2>2. QED
      BY <1>2, <1>3, <2>1 DEF IInv, Deliveries, OneDialog
  <1>10. NewsHolds'
    BY <1>1, <1>6 DEF IInv, Deliveries, NewsHolds
  <1>11. ASSUME NEW e \in Delivery \ strayed' PROVE Repeated(e)'
    <2>1. e \in Delivery \ strayed /\ (DialogOf(u, e) => receipt[u].key = Null)
      BY <1>1, StraySpares
    <2>2. Repeated(e)
      BY <2>1 DEF IInv, Deliveries
    <2>3. Unedited(e)'
      BY <1>2, <1>8, <2>2 DEF Repeated, Unedited
    <2>4. LiveHasDialog(e)'
      <3> SUFFICES ASSUME NEW t \in Txn, LiveFor(t, e)'
                   PROVE  \E v \in User : DialogOf(v, e)' /\ receipt'[v].key = req'[t].key
        BY DEF LiveHasDialog
      <3>1. LiveFor(t, e)
        BY <1>6
      <3>2. PICK v \in User : DialogOf(v, e) /\ receipt[v].key = req[t].key
        BY <2>2, <3>1 DEF Repeated, LiveHasDialog
      <3>3. req[t].key \in Key
        BY <3>1, RequestTypes DEF LiveFor, Live, ReceiveRequest, IInv
      <3>4. v # u
        BY <2>1, <3>2, <3>3
      <3>5. QED
        BY <1>2, <1>4, <1>8, <3>2, <3>4
    <2>5. RecordedIsSettled(e)'
      <3> SUFFICES ASSUME NEW o \in Order, NEW r \in Receipt, Received(o, r, e)'
                   PROVE  /\ \A t \in Txn : ~LiveFor(t, e)'
                          /\ \A v \in User : DialogOf(v, e)' => receipt'[v].key = r.key
                          /\ told'[e] = "recorded" \/ \E v \in User : DialogOf(v, e)'
        BY DEF RecordedIsSettled
      <3>1. Received(o, r, e)
        BY <1>6
      <3>2. /\ \A t \in Txn : ~LiveFor(t, e)
            /\ \A v \in User : DialogOf(v, e) => receipt[v].key = r.key
            /\ told[e] = "recorded" \/ \E v \in User : DialogOf(v, e)
        BY <2>2, <3>1 DEF Repeated, RecordedIsSettled
      <3>3. ~DialogOf(u, e)
        BY <2>1, <3>2 DEF Receipt
      <3>4. QED
        BY <1>1, <1>2, <1>6, <1>8, <3>2, <3>3
    <2>6. ReceivedAtMostOnce(e)'
      BY <1>6, <2>2 DEF Repeated, ReceivedAtMostOnce
    <2>7. Denied(e)' <=> Denied(e)
      BY <1>1, Zenon DEF Denied
    <2>8. DenialHolds(e)'
      BY <1>6, <1>8, <2>2, <2>7 DEF Repeated, DenialHolds
    <2>9. QED
      BY <2>3, <2>4, <2>5, <2>6, <2>8 DEF Repeated
  <1>12. Deliveries'
    BY <1>9, <1>10, <1>11 DEF Deliveries
  <1>13. QED
    BY <1>5, <1>7, <1>12 DEF IInv

-----------------------------------------------------------------------------
\* A receipt is sent, for the first time or again.

LEMMA KeyChoice ==
    ASSUME IInv, NEW u \in User, receipt[u] # NoReceipt, NEW k \in KeysFor(u)
    PROVE  /\ k \in Key
           /\ \/ receipt[u].key = k /\ receipt[u].sent = receipt[u].quantity
              \/ \A a \in AttemptSet : Attempted(a) => a.key # k
           /\ receipt[u].key # Null /\ receipt[u].sent = receipt[u].quantity => k = receipt[u].key
  <1>1. receipt[u] \in Dialog
    BY DialogTypes
  <1>2. CASE receipt[u].key # Null /\ receipt[u].sent = receipt[u].quantity
    BY <1>1, <1>2 DEF KeysFor, Dialog
  <1>3. CASE ~(receipt[u].key # Null /\ receipt[u].sent = receipt[u].quantity)
    <2>1. k \in Key /\ k \notin KeysInUse
      BY <1>3 DEF KeysFor
    <2>2. ASSUME NEW a \in AttemptSet, Attempted(a) PROVE a.key # k
      <3>1. ASSUME NEW v \in User, InDialog(v, a) PROVE a.key \in KeysInUse
        BY <3>1 DEF InDialog, KeysInUse
      <3>2. ASSUME NEW x \in Txn, req[x] = a PROVE a.key \in KeysInUse
        BY <3>2 DEF AttemptSet, KeysInUse
      <3>3. ASSUME InReceipt(a) PROVE a.key \in KeysInUse
        <4>1. a.order \in Order /\ ReceiptOf(a) \in order[a.order].receipts /\ ReceiptOf(a).key = a.key
          BY <3>3 DEF AttemptSet, InReceipt, ReceiptOf
        <4>2. ReceiptOf(a) \in UNION {order[o].receipts : o \in Order}
          BY <4>1
        <4>3. QED
          BY <4>1, <4>2 DEF KeysInUse
      <3>4. QED
        BY <2>1, <2>2, <3>1, <3>2, <3>3 DEF Attempted
    <2>3. QED
      BY <1>3, <2>1, <2>2
  <1>4. QED
    BY <1>2, <1>3

LEMMA SubmitKeeps == ASSUME IInv, NEW u \in User, NEW t \in Txn, SubmitReceive(u, t) PROVE IInv'
  <1>1. PICK k \in KeysFor(u) :
          /\ receipt' = [receipt EXCEPT ![u].key = k, ![u].sent = receipt[u].quantity]
          /\ Ask(u, t, ReceiveBody(u, k))
    BY Zenon DEF SubmitReceive
  <1>2. /\ receipt[u] # NoReceipt /\ receipt[u].quantity # None
        /\ UNCHANGED documents /\ view' = view /\ told' = told /\ strayed' = strayed
    BY Zenon DEF SubmitReceive
  <1> DEFINE r == ReceiveBody(u, k)
  <1>3. Filled(u) /\ receipt[u] \in Dialog /\ Copy(view[u]) /\ view[u].id \in Order /\ view[u].doc \in OrderDoc
    BY <1>2, DialogTypes
  <1>4. /\ k \in Key
        /\ \/ receipt[u].key = k /\ receipt[u].sent = receipt[u].quantity
           \/ \A a \in AttemptSet : Attempted(a) => a.key # k
        /\ receipt[u].key # Null /\ receipt[u].sent = receipt[u].quantity => k = receipt[u].key
    BY <1>2, KeyChoice
  <1>5. /\ r \in ReceiveRequest /\ r.op = "receive" /\ r.key = k /\ r.order = view[u].id
        /\ r.version = view[u].doc.version /\ r.quantity = receipt[u].quantity
        /\ r.delivery = receipt[u].delivery
    BY <1>2, <1>3, <1>4 DEF ReceiveBody, ReceiveRequest, Dialog, OrderDoc
  <1>6. Ask(u, t, r)
    BY <1>1
  <1> HIDE DEF r
  <1>7. /\ DOMAIN receipt' = User /\ receipt'[u] \in Dialog /\ receipt'[u].key = k
        /\ receipt'[u].sent = receipt[u].quantity /\ receipt'[u].quantity = receipt[u].quantity
        /\ receipt'[u].delivery = receipt[u].delivery
        /\ \A v \in User : v # u => receipt'[v] = receipt[v]
    BY <1>1, <1>3, <1>4, PageShapes DEF Dialog
  <1>8. order' = order
    BY <1>2 DEF documents
  <1>9. /\ ~Running(t) /\ Begin(t, r, Current) /\ req'[t] = r /\ snap'[t].order = order
        /\ DOMAIN waiting' = User /\ waiting'[u] = t
        /\ \A v \in User : v # u => waiting'[v] = waiting[v]
        /\ \A x \in Txn : x # t => req'[x] = req[x] /\ snap'[x] = snap[x]
    BY <1>6, PageShapes DEF Ask, Begin, Current, IInv, Base, Reads
  <1>10. Base' /\ OrdersAdvance
    <2>1. r \in Requests
      BY <1>5 DEF Requests
    <2>2. QED
      BY <1>2, <1>8, <1>9, <2>1, BeginBase, SameOrders DEF IInv
  <1>11. Pages'
    <2>1. ASSUME NEW v \in User
          PROVE (view[v] = Null \/ Copy(view[v]))' /\ (receipt[v] = NoReceipt \/ Filled(v))'
      <3>1. (view[v] = Null \/ Copy(view[v])) /\ (receipt[v] = NoReceipt \/ Filled(v))
        BY DEF IInv, Pages
      <3>2. (view[v] = Null \/ Copy(view[v]))'
        BY <1>2, <1>8, <3>1 DEF Copy
      <3>3. CASE v # u
        BY <1>2, <1>7, <1>8, <3>1, <3>2, <3>3 DEF Filled, Copy
      <3>4. CASE v = u
        BY <1>2, <1>3, <1>7, <1>8, <3>2, <3>4 DEF Filled, Copy
      <3>5. QED
        BY <3>2, <3>3, <3>4
    <2>2. QED
      BY <1>2, <1>7, <1>9, <2>1, PageShapes DEF Pages
  <1>12. Sendings'
    <2> SUFFICES ASSUME NEW x \in Txn, Running(x)' PROVE SentWell(x)'
      BY DEF Sendings
    <2>1. CASE x # t
      <3>1. Running(x) /\ req'[x] = req[x] /\ snap'[x] = snap[x]
        BY <1>9, <2>1 DEF Running
      <3>2. QED
        BY <1>10, <3>1, SendingStays DEF IInv
    <2>2. CASE x = t
      <3>1. Past(view[u].doc, order[view[u].id]) /\ Fits(receipt[u].quantity, view[u].doc)
        BY <1>3 DEF Copy, Filled
      <3>2. SentFrom(t, view[u].doc)'
        BY <1>2, <1>5, <1>8, <1>9, <3>1 DEF SentFrom
      <3>3. QED
        BY <1>2, <1>3, <1>5, <1>9, <2>2, <3>2 DEF SentWell
    <2>3. QED
      BY <2>1, <2>2
  <1>13. Waitings'
    <2> SUFFICES ASSUME NEW v \in User, waiting'[v] # Null PROVE AwaitsIt(v)'
      BY DEF Waitings
    <2>1. CASE v = u
      BY <1>4, <1>5, <1>7, <1>9, <2>1 DEF AwaitsIt, Running, Idle
    <2>2. CASE v # u
      <3>1. AwaitsIt(v) /\ waiting'[v] = waiting[v]
        BY <1>9, <2>2 DEF IInv, Waitings
      <3>2. waiting[v] # t /\ waiting[v] \in Txn
        BY <1>9, <3>1 DEF AwaitsIt
      <3>3. QED
        BY <1>7, <1>9, <2>2, <3>1, <3>2 DEF AwaitsIt, Running
    <2>3. QED
      BY <2>1, <2>2
  <1>14. Keyed'
    <2>1. ASSUME NEW a \in AttemptSet, Attempted(a)' PROVE Attempted(a) \/ a = r
      <3>1. ASSUME NEW v \in User, InDialog(v, a)' PROVE InDialog(v, a) \/ a = r
        <4>1. CASE v # u
          BY <1>2, <1>7, <3>1, <4>1 DEF InDialog
        <4>2. CASE v = u
          <5>1. /\ a.key = r.key /\ a.quantity = r.quantity /\ a.delivery = r.delivery
                /\ a.order = r.order /\ a.version = r.version
            BY <1>2, <1>5, <1>7, <3>1, <4>2 DEF InDialog
          <5>2. QED
            BY <1>5, <5>1 DEF AttemptSet, ReceiveRequest
        <4>3. QED
          BY <4>1, <4>2
      <3>2. ASSUME NEW x \in Txn, req'[x] = a PROVE req[x] = a \/ a = r
        BY <1>9, <3>2
      <3>3. InReceipt(a)' => InReceipt(a)
        BY <1>8 DEF InReceipt
      <3>4. QED
        BY <2>1, <3>1, <3>2, <3>3 DEF Attempted
    <2>2. Attempted(r) \/ \A a \in AttemptSet : Attempted(a) => a.key # k
      BY <1>4, <1>5 DEF Attempted, InDialog
    <2>3. r \in AttemptSet
      BY <1>5 DEF ReceiveRequest, AttemptSet
    <2>4. QED
      BY <1>5, <2>1, <2>2, <2>3 DEF IInv, Keyed
  <1>15. Deliveries'
    <2>1. \A x \in Txn, e \in Delivery :
            LiveFor(x, e)' => \/ x # t /\ LiveFor(x, e) /\ req'[x] = req[x]
                              \/ x = t /\ DialogOf(u, e) /\ order[view[u].id].version = view[u].doc.version
      BY <1>5, <1>8, <1>9 DEF LiveFor, Live, DialogOf
    <2>2. \A o \in Order, x \in Receipt, e \in Delivery : Received(o, x, e)' <=> Received(o, x, e)
      BY <1>8 DEF Received
    <2>3. \A v \in User, e \in Delivery : DialogOf(v, e)' <=> DialogOf(v, e)
      BY <1>7 DEF DialogOf
    <2>4. OneDialog'
      BY <1>2, <1>7 DEF IInv, Deliveries, OneDialog
    <2>5. NewsHolds'
      BY <1>2, <2>2 DEF IInv, Deliveries, NewsHolds
    <2>6. ASSUME NEW e \in Delivery \ strayed PROVE Repeated(e)'
      <3>1. Repeated(e)
        BY <2>6 DEF IInv, Deliveries
      <3>2. DialogOf(u, e) /\ receipt[u].key # Null =>
               receipt[u].key = k /\ receipt[u].sent = receipt[u].quantity
        BY <1>4, <3>1 DEF Repeated, Unedited
      <3>3. Unedited(e)'
        BY <1>7, <2>3, <3>1 DEF Repeated, Unedited
      <3>4. LiveHasDialog(e)'
        <4> SUFFICES ASSUME NEW x \in Txn, LiveFor(x, e)'
                     PROVE  \E v \in User : DialogOf(v, e)' /\ receipt'[v].key = req'[x].key
          BY DEF LiveHasDialog
        <4>1. CASE x # t /\ LiveFor(x, e) /\ req'[x] = req[x]
          <5>1. PICK v \in User : DialogOf(v, e) /\ receipt[v].key = req[x].key
            BY <3>1, <4>1 DEF Repeated, LiveHasDialog
          <5>2. req[x].key \in Key
            BY <4>1, RequestTypes DEF LiveFor, Live, ReceiveRequest, IInv
          <5>3. receipt'[v].key = receipt[v].key
            BY <1>7, <3>2, <5>1, <5>2
          <5>4. QED
            BY <2>3, <4>1, <5>1, <5>3
        <4>2. CASE x = t /\ DialogOf(u, e)
          BY <1>5, <1>7, <1>9, <2>3, <4>2
        <4>3. QED
          BY <2>1, <4>1, <4>2
      <3>5. RecordedIsSettled(e)'
        <4> SUFFICES ASSUME NEW o \in Order, NEW x \in Receipt, Received(o, x, e)'
                     PROVE  /\ \A y \in Txn : ~LiveFor(y, e)'
                            /\ \A v \in User : DialogOf(v, e)' => receipt'[v].key = x.key
                            /\ told'[e] = "recorded" \/ \E v \in User : DialogOf(v, e)'
          BY DEF RecordedIsSettled
        <4>1. Received(o, x, e)
          BY <2>2
        <4>2. /\ \A y \in Txn : ~LiveFor(y, e)
              /\ \A v \in User : DialogOf(v, e) => receipt[v].key = x.key
              /\ told[e] = "recorded" \/ \E v \in User : DialogOf(v, e)
          BY <3>1, <4>1 DEF Repeated, RecordedIsSettled
        <4>3. DialogOf(u, e) => /\ k = x.key
                                /\ order[view[u].id].version # view[u].doc.version
          <5> SUFFICES ASSUME DialogOf(u, e)
                       PROVE k = x.key /\ order[view[u].id].version # view[u].doc.version
            OBVIOUS
          <5>1. receipt[u].key = x.key /\ x.key \in Key
            BY <4>2 DEF Receipt
          <5>2. k = x.key
            BY <3>2, <5>1
          <5>3. x \in order[o].receipts
            BY <4>1 DEF Received
          <5>4. view[u].id = o /\ view[u].doc.version = x.version
            BY <5>1, <5>3, KeyReceiptDialog
          <5>5. x.version < order[o].version /\ x.version \in Int /\ order[o].version \in Int
            BY <5>3, OrderTypes DEF Sound, IInv, OrderDoc, Receipt
          <5>6. QED
            BY <5>2, <5>4, <5>5
        <4>4. QED
          BY <1>2, <1>7, <2>1, <2>3, <4>2, <4>3
      <3>6. ReceivedAtMostOnce(e)'
        BY <2>2, <3>1 DEF Repeated, ReceivedAtMostOnce
      <3>7. Denied(e)' <=> Denied(e)
        BY <1>2, Zenon DEF Denied
      <3>8. DenialHolds(e)'
        BY <2>2, <2>3, <3>1, <3>7 DEF Repeated, DenialHolds
      <3>9. QED
        BY <3>3, <3>4, <3>5, <3>6, <3>8 DEF Repeated
    <2>7. QED
      BY <1>2, <2>4, <2>5, <2>6 DEF Deliveries
  <1>16. QED
    BY <1>10, <1>11, <1>12, <1>13, <1>14, <1>15 DEF IInv

-----------------------------------------------------------------------------
\* A receive request is answered.

LEMMA Waiter ==
    ASSUME IInv, NEW t \in Txn, req[t].op = "receive", NEW u \in User, waiting[u] = t
    PROVE  /\ receipt[u] # NoReceipt /\ receipt[u] \in Dialog /\ receipt[u].key = req[t].key
           /\ req[t].key \in Key /\ receipt[u].delivery = req[t].delivery
  <1>1. waiting[u] # Null
    OBVIOUS
  <1>2. receipt[u] \in Dialog /\ receipt[u].key = req[t].key
    BY <1>1 DEF IInv, Waitings, AwaitsIt
  <1>3. receipt[u].delivery = req[t].delivery
    BY <1>2, KeyDialogRequest
  <1>4. req[t].key \in Key
    BY RequestTypes DEF ReceiveRequest, IInv
  <1>5. receipt[u] # NoReceipt
    BY <1>2, <1>4, NotADialog
  <1>6. QED
    BY <1>2, <1>3, <1>4, <1>5

\* What every answer keeps, whatever it says.
LEMMA Answered ==
    ASSUME IInv, Base', OrdersAdvance, NEW t \in Txn, req[t].op = "receive",
           Ended(t), StopWaiting(t), DOMAIN view' = User, DOMAIN receipt' = User, DOMAIN told' = Delivery,
           \A u \in User : waiting[u] # t => view'[u] = view[u] /\ receipt'[u] = receipt[u],
           \A u \in User : waiting[u] = t => /\ view'[u] = Null \/ Copy(view[u])'
                                             /\ receipt'[u] = NoReceipt \/ Filled(u)'
                                             /\ receipt'[u].key = Null,
           \A a \in AttemptSet : InReceipt(a)' => InReceipt(a) \/ a = req[t]
    PROVE  /\ Pages' /\ Sendings' /\ Waitings' /\ Keyed'
           /\ \A x \in Txn, e \in Delivery : LiveFor(x, e)' => x # t /\ LiveFor(x, e) /\ req'[x] = req[x]
  <1>1. Base /\ Pages /\ Sendings /\ Waitings /\ Keyed
    BY DEF IInv
  <1>2. /\ DOMAIN waiting' = User
        /\ \A u \in User : waiting'[u] # Null => waiting'[u] = waiting[u] /\ waiting[u] # t
    BY EndedKeeps
  <1>3. Pages'
    <2>1. ASSUME NEW u \in User, waiting[u] # t, Copy(view[u]) PROVE Copy(view[u])'
      <3>1. /\ view[u].id \in Order /\ view[u].doc \in OrderDoc
            /\ Past(view[u].doc, order[view[u].id]) /\ view'[u] = view[u]
        BY <2>1 DEF Copy, Sound
      <3>2. /\ order[view[u].id] \in OrderDoc /\ order'[view[u].id] \in OrderDoc
            /\ Advances(order[view[u].id], order'[view[u].id])
        BY <1>1, <3>1 DEF Base, Documents, OrdersAdvance
      <3>3. Past(view[u].doc, order'[view[u].id])
        BY <3>1, <3>2, PastAdvances
      <3>4. QED
        BY <2>1, <3>1, <3>3 DEF Copy
    <2>2. ASSUME NEW u \in User
          PROVE  (view[u] = Null \/ Copy(view[u]))' /\ (receipt[u] = NoReceipt \/ Filled(u))'
      <3>1. (view[u] = Null \/ Copy(view[u])) /\ (receipt[u] = NoReceipt \/ Filled(u))
        BY <1>1 DEF Pages
      <3>2. CASE waiting[u] # t
        <4>1. view'[u] = view[u] /\ receipt'[u] = receipt[u]
          BY <3>2
        <4>2. (view[u] = Null \/ Copy(view[u]))'
          BY <2>1, <3>1, <3>2, <4>1
        <4>3. Filled(u) => Filled(u)'
          BY <2>1, <3>2, <4>1 DEF Filled
        <4>4. QED
          BY <3>1, <4>1, <4>2, <4>3
      <3>3. CASE waiting[u] = t
        BY <3>3
      <3>4. QED
        BY <3>2, <3>3
    <2>3. QED
      BY <1>2, <2>2 DEF Pages
  <1>4. Sendings'
    <2> SUFFICES ASSUME NEW x \in Txn, Running(x)' PROVE SentWell(x)'
      BY DEF Sendings
    <2>1. x # t /\ Running(x) /\ req'[x] = req[x] /\ snap'[x] = snap[x]
      BY DEF Ended, Running
    <2>2. QED
      BY <1>1, <2>1, SendingStays
  <1>5. Waitings'
    <2> SUFFICES ASSUME NEW u \in User, waiting'[u] # Null PROVE AwaitsIt(u)'
      BY DEF Waitings
    <2>1. waiting'[u] = waiting[u] /\ waiting[u] # t /\ AwaitsIt(u)
      BY <1>1, <1>2 DEF Waitings
    <2>2. QED
      BY <2>1 DEF AwaitsIt, Ended, Running
  <1>6. Keyed'
    <2> SUFFICES ASSUME NEW a \in AttemptSet, Attempted(a)' PROVE Attempted(a)
      BY <1>1, KeyedStays
    <2>1. ASSUME NEW u \in User, InDialog(u, a)' PROVE InDialog(u, a)
      <3>1. receipt'[u].key # Null
        BY <2>1 DEF InDialog, AttemptSet
      <3>2. view'[u] = view[u] /\ receipt'[u] = receipt[u]
        BY <3>1
      <3>3. QED
        BY <2>1, <3>2 DEF InDialog
    <2>2. ASSUME NEW x \in Txn, req'[x] = a PROVE req[x] = a
      BY <2>2 DEF Ended, Idle, AttemptSet
    <2>3. QED
      BY <2>1, <2>2 DEF Attempted
  <1>7. ASSUME NEW x \in Txn, NEW e \in Delivery, LiveFor(x, e)'
        PROVE  x # t /\ LiveFor(x, e) /\ req'[x] = req[x]
    <2>1. x # t /\ req'[x] = req[x]
      BY <1>7 DEF LiveFor, Live, Ended, Idle
    <2>2. Live(x)
      BY <1>1, <1>7, <2>1, LiveBefore DEF LiveFor
    <2>3. QED
      BY <1>7, <2>1, <2>2 DEF LiveFor
  <1>8. QED
    BY <1>3, <1>4, <1>5, <1>6, <1>7

\* Two live requests for a delivery that is just repeated are one attempt.
LEMMA LiveAlone ==
    ASSUME IInv, NEW d \in Delivery \ strayed, NEW t \in Txn, NEW x \in Txn, LiveFor(t, d), LiveFor(x, d)
    PROVE  req[x] = req[t]
  <1>1. Repeated(d) /\ OneDialog
    BY DEF IInv, Deliveries
  <1>2. PICK u \in User : DialogOf(u, d) /\ receipt[u].key = req[t].key
    BY <1>1 DEF Repeated, LiveHasDialog
  <1>3. PICK v \in User : DialogOf(v, d) /\ receipt[v].key = req[x].key
    BY <1>1 DEF Repeated, LiveHasDialog
  <1>4. u = v
    BY <1>1, <1>2, <1>3, NotADialog DEF OneDialog, DialogOf
  <1>5. QED
    BY <1>2, <1>3, <1>4, KeyRequests DEF LiveFor, Live

LEMMA RefusedBeforeKeeps == ASSUME IInv, NEW t \in Txn, RefusedBefore(t) PROVE IInv'
  <1>1. /\ req[t].op = "receive" /\ Abort(t) /\ StopWaiting(t) /\ UNCHANGED documents
        /\ view' = view /\ told' = told
        /\ receipt' = [u \in User |-> IF Waits(u, t) THEN [receipt[u] EXCEPT !.key = Null] ELSE receipt[u]]
        /\ strayed' = IF Awaited(t) THEN strayed \cup {req[t].delivery} ELSE strayed
    BY Zenon DEF RefusedBefore
  <1>2. Base' /\ Ended(t) /\ order' = order
    BY <1>1, AbortBase, AbortEnds DEF IInv, documents
  <1>3. \A u \in User : waiting[u] # t => receipt'[u] = receipt[u]
    BY <1>1 DEF Waits
  <1>4. ASSUME NEW u \in User, waiting[u] = t
        PROVE  Copy(view[u])' /\ Filled(u)' /\ receipt'[u].key = Null
    <2>1. receipt[u] # NoReceipt /\ receipt[u] \in Dialog
      BY <1>1, <1>4, Waiter
    <2>2. Filled(u)
      BY <2>1, DialogTypes
    <2>3. receipt'[u] = [receipt[u] EXCEPT !.key = Null]
      BY <1>1, <1>4 DEF Waits
    <2>4. receipt'[u] \in Dialog /\ receipt'[u].key = Null /\ receipt'[u].quantity = receipt[u].quantity
      BY <2>1, <2>3 DEF Dialog
    <2>5. QED
      BY <1>1, <1>2, <2>2, <2>4 DEF Filled, Copy
  <1>5. /\ Pages' /\ Sendings' /\ Waitings' /\ Keyed'
        /\ \A x \in Txn, e \in Delivery : LiveFor(x, e)' => x # t /\ LiveFor(x, e) /\ req'[x] = req[x]
    <2>1. DOMAIN view' = User /\ DOMAIN receipt' = User /\ DOMAIN told' = Delivery
      BY <1>1, PageShapes
    <2>2. OrdersAdvance
      BY <1>2, SameOrders
    <2>3. \A a \in AttemptSet : InReceipt(a)' => InReceipt(a)
      BY <1>2 DEF InReceipt
    <2>4. \A u \in User : waiting[u] # t => view'[u] = view[u] /\ receipt'[u] = receipt[u]
      BY <1>1, <1>3
    <2>5. QED
      BY <1>1, <1>2, <1>4, <2>1, <2>2, <2>3, <2>4, Answered
  <1>6. \A u \in User : receipt'[u].delivery = receipt[u].delivery
    <2> TAKE u \in User
    <2>1. CASE waiting[u] = t
      <3>1. receipt[u] \in Dialog /\ receipt'[u] = [receipt[u] EXCEPT !.key = Null]
        BY <1>1, <2>1, Waiter DEF Waits
      <3>2. QED
        BY <3>1 DEF Dialog
    <2>2. CASE waiting[u] # t
      BY <1>3, <2>2
    <2>3. QED
      BY <2>1, <2>2
  <1>7. \A u \in User, e \in Delivery : DialogOf(u, e)' <=> DialogOf(u, e)
    BY <1>6 DEF DialogOf
  <1>8. \A o \in Order, r \in Receipt, e \in Delivery : Received(o, r, e)' <=> Received(o, r, e)
    BY <1>2 DEF Received
  <1>9. OneDialog'
    <2>1. \A u \in User : receipt'[u] # NoReceipt => receipt[u] # NoReceipt
      BY <1>1, <1>3, Waiter
    <2>2. QED
      BY <1>6, <2>1 DEF IInv, Deliveries, OneDialog
  <1>10. NewsHolds'
    BY <1>1, <1>8 DEF IInv, Deliveries, NewsHolds
  <1>11. ASSUME NEW e \in Delivery \ strayed' PROVE Repeated(e)'
    <2>1. e \in Delivery \ strayed /\ \A u \in User : waiting[u] = t => req[t].delivery # e
      BY <1>1 DEF Awaited, Waits
    <2>2. Repeated(e)
      BY <2>1 DEF IInv, Deliveries
    <2>3. \A u \in User : DialogOf(u, e) => receipt'[u] = receipt[u]
      BY <1>1, <1>3, <2>1, Waiter DEF DialogOf
    <2>4. Unedited(e)'
      BY <1>7, <2>2, <2>3 DEF Repeated, Unedited
    <2>5. LiveHasDialog(e)'
      BY <1>5, <1>7, <2>2, <2>3 DEF Repeated, LiveHasDialog
    <2>6. RecordedIsSettled(e)'
      <3> SUFFICES ASSUME NEW o \in Order, NEW r \in Receipt, Received(o, r, e)'
                   PROVE  /\ \A x \in Txn : ~LiveFor(x, e)'
                          /\ \A v \in User : DialogOf(v, e)' => receipt'[v].key = r.key
                          /\ told'[e] = "recorded" \/ \E v \in User : DialogOf(v, e)'
        BY DEF RecordedIsSettled
      <3>1. Received(o, r, e)
        BY <1>8
      <3>2. /\ \A x \in Txn : ~LiveFor(x, e)
            /\ \A v \in User : DialogOf(v, e) => receipt[v].key = r.key
            /\ told[e] = "recorded" \/ \E v \in User : DialogOf(v, e)
        BY <2>2, <3>1 DEF Repeated, RecordedIsSettled
      <3>3. told'[e] = told[e]
        BY <1>1
      <3>4. \A x \in Txn : ~LiveFor(x, e)'
        BY <1>5, <3>2
      <3>5. \A v \in User : DialogOf(v, e)' => receipt'[v].key = r.key
        BY <1>7, <2>3, <3>2
      <3>6. told'[e] = "recorded" \/ \E v \in User : DialogOf(v, e)'
        BY <1>7, <3>2, <3>3
      <3>7. QED
        BY <3>4, <3>5, <3>6
    <2>7. ReceivedAtMostOnce(e)'
      BY <1>8, <2>2 DEF Repeated, ReceivedAtMostOnce
    <2>8. Denied(e)' <=> Denied(e)
      BY <1>1, Zenon DEF Denied
    <2>9. DenialHolds(e)'
      BY <1>7, <1>8, <2>2, <2>8 DEF Repeated, DenialHolds
    <2>10. QED
      BY <2>4, <2>5, <2>6, <2>7, <2>9 DEF Repeated
  <1>12. Deliveries'
    BY <1>9, <1>10, <1>11 DEF Deliveries
  <1>13. QED
    BY <1>2, <1>5, <1>12 DEF IInv

\* A refusal tells the truth: the order was written since, and no attempt with
\* this key is recorded.
LEMMA RefusedIsDead ==
    ASSUME IInv, NEW t \in Txn, RefuseReceive(t)
    PROVE  /\ req[t].op = "receive" /\ order[req[t].order].version > req[t].version
           /\ \A o \in Order : \A p \in order[o].receipts : p.key # req[t].key
  <1> DEFINE r == req[t]
             o == r.order
             doc == snap[t].order[o]
  <1>1. r.op = "receive" /\ ~Replayed(doc, r) /\ ~(Receivable(doc, r) /\ AtVersion(doc, r.version))
    BY Zenon DEF RefuseReceive
  <1>2. r \in ReceiveRequest /\ Running(t) /\ o \in Order /\ r.version \in Int
    BY <1>1, RequestTypes DEF ReceiveRequest, IInv
  <1>3. Sound(doc) /\ doc \in OrderDoc /\ Past(doc, order[o])
    BY <1>2 DEF IInv, Base, Reads, ReadsOrder, Sound
  <1>4. order[o] \in OrderDoc /\ \A p \in order[o].receipts : p \in Receipt
    BY <1>2, OrderTypes DEF IInv
  <1>5. PICK c \in OrderDoc : SentFrom(t, c)
    BY <1>1, <1>2 DEF IInv, Sendings, SentWell
  <1>6. c.version = r.version /\ Fits(r.quantity, c) /\ Past(c, doc) /\ c.status # "NONE"
    BY <1>5 DEF SentFrom, Fits, Open
  <1>7. \A p \in order[o].receipts : p.key = r.key =>
           p.version = r.version /\ p.quantity = r.quantity
    BY <1>1, <1>2, KeyReceiptRequest DEF ReceiptOf
  <1> HIDE DEF doc, r, o
  <1>8. doc.version > r.version
    <2> SUFFICES ASSUME doc.version = r.version PROVE FALSE
      BY <1>2, <1>3, <1>6 DEF Past, OrderDoc
    <2>1. c = doc
      BY <1>6 DEF Past
    <2>2. \A p \in doc.receipts : p.key # r.key
      <3>1. \A p \in doc.receipts : p \in order[o].receipts /\ p.version < doc.version
        BY <1>3 DEF Past, Sound
      <3>2. QED
        BY <1>2, <1>7, <3>1
    <2>3. Receivable(doc, r)
      BY <1>6, <2>1, <2>2 DEF Receivable, ReceiptsOf, Fits
    <2>4. QED
      BY <1>1, <2>3 DEF AtVersion
  <1>9. order[o].version > r.version
    BY <1>2, <1>3, <1>4, <1>8 DEF Past, OrderDoc
  <1>10. \A p \in order[o].receipts : p.key # r.key
    <2> SUFFICES ASSUME NEW p \in order[o].receipts, p.key = r.key PROVE FALSE
      OBVIOUS
    <2>1. p.version = r.version /\ p.quantity = r.quantity
      BY <1>7
    <2>2. p \in doc.receipts
      BY <1>3, <1>8, <2>1 DEF Past
    <2>3. QED
      BY <1>1, <2>1, <2>2 DEF Replayed, ReceiptsOf
  <1>11. \A q \in Order : \A p \in order[q].receipts : p.key = r.key => q = o
    BY <1>1, <1>2, KeyReceiptRequest DEF r, o
  <1>12. QED
    BY <1>1, <1>9, <1>10, <1>11 DEF r, o

LEMMA RefuseKeeps == ASSUME IInv, NEW t \in Txn, RefuseReceive(t) PROVE IInv'
  <1> DEFINE d == req[t].delivery
             o0 == req[t].order
  <1>1. Abort(t) /\ UNCHANGED documents /\ strayed' = strayed
    BY Zenon DEF RefuseReceive
  <1>2. PICK reload \in BOOLEAN :
          /\ StopWaiting(t)
          /\ view' = [u \in User |-> IF Waits(u, t) /\ reload THEN [id |-> o0, doc |-> order[o0]]
                                     ELSE view[u]]
          /\ told' = [told EXCEPT ![d] = IF Awaited(t) /\ reload THEN "not recorded" ELSE @]
          /\ receipt' = [u \in User |-> IF ~Waits(u, t) THEN receipt[u]
                                        ELSE IF reload THEN NoReceipt
                                        ELSE [receipt[u] EXCEPT !.key = Null]]
    BY Zenon DEF RefuseReceive, AnswerNotRecorded
  <1>3. PICK n : /\ n = (IF Awaited(t) /\ reload THEN "not recorded" ELSE told[d])
                 /\ told' = [told EXCEPT ![d] = n]
    BY <1>2, Zenon
  <1>4. (~(Awaited(t) /\ reload) => n = told[d]) /\ (n = "recorded" => n = told[d])
    BY <1>3, Zenon
  <1>5. StopWaiting(t) /\ DOMAIN view' = User /\ DOMAIN receipt' = User
    BY <1>2, Zenon
  <1>6. \A u \in User :
          /\ view'[u] = IF Waits(u, t) /\ reload THEN [id |-> o0, doc |-> order[o0]] ELSE view[u]
          /\ receipt'[u] = IF ~Waits(u, t) THEN receipt[u]
                           ELSE IF reload THEN NoReceipt ELSE [receipt[u] EXCEPT !.key = Null]
    BY <1>2, Zenon
  <1>7. told' = [told EXCEPT ![d] = n]
    BY <1>3, Zenon
  <1>8. Base' /\ Ended(t) /\ order' = order
    BY <1>1, AbortBase, AbortEnds DEF IInv, documents
  <1>9. /\ req[t].op = "receive" /\ order[o0].version > req[t].version
        /\ \A o \in Order : \A p \in order[o].receipts : p.key # req[t].key
    BY RefusedIsDead
  <1>10. req[t] \in ReceiveRequest /\ o0 \in Order /\ d \in Delivery /\ req[t].version \in Int
    BY <1>9, RequestTypes DEF ReceiveRequest, IInv
  <1>11. /\ DOMAIN told' = Delivery /\ told'[d] = n
         /\ \A e \in Delivery : e # d => told'[e] = told[e]
    BY <1>7, <1>10, PageShapes
  <1> HIDE DEF d, o0
  <1>12. \A u \in User : waiting[u] # t => view'[u] = view[u] /\ receipt'[u] = receipt[u]
    BY <1>6 DEF Waits
  <1>13. ASSUME NEW u \in User, waiting[u] = t
         PROVE  /\ Copy(view[u])' /\ (receipt'[u] = NoReceipt \/ Filled(u)') /\ receipt'[u].key = Null
                /\ IF reload THEN receipt'[u] = NoReceipt ELSE receipt'[u].delivery = receipt[u].delivery
    <2>1. receipt[u] # NoReceipt /\ receipt[u] \in Dialog
      BY <1>9, <1>13, Waiter
    <2>2. Filled(u)
      BY <2>1, DialogTypes
    <2>3. CASE reload
      <3>1. receipt'[u] = NoReceipt /\ view'[u] = [id |-> o0, doc |-> order[o0]]
        BY <1>6, <1>13, <2>3 DEF Waits
      <3>2. order[o0] \in OrderDoc /\ Sound(order[o0]) /\ order[o0].status # "NONE"
        <4>1. order[o0] \in OrderDoc /\ Sound(order[o0])
          BY <1>10, OrderTypes DEF IInv
        <4>2. PICK c \in OrderDoc : Fits(req[t].quantity, c) /\ Past(c, order[o0])
          BY <1>9, <1>10, RequestTypes DEF IInv, Sendings, SentWell, SentFrom, o0
        <4>3. QED
          BY <4>1, <4>2 DEF Fits, Past, Open
      <3>3. Copy(view[u])'
        BY <1>8, <1>10, <3>1, <3>2, PastSelf DEF Copy
      <3>4. QED
        BY <2>3, <3>1, <3>3 DEF NoReceipt
    <2>4. CASE ~reload
      <3>1. receipt'[u] = [receipt[u] EXCEPT !.key = Null] /\ view'[u] = view[u]
        BY <1>6, <1>13, <2>4 DEF Waits
      <3>2. receipt'[u] \in Dialog /\ receipt'[u].key = Null /\ receipt'[u].quantity = receipt[u].quantity
            /\ receipt'[u].delivery = receipt[u].delivery
        BY <2>1, <3>1 DEF Dialog
      <3>3. Copy(view[u])' /\ Filled(u)'
        BY <1>8, <2>2, <3>1, <3>2 DEF Filled, Copy
      <3>4. QED
        BY <2>4, <3>2, <3>3
    <2>5. QED
      BY <2>3, <2>4
  <1>14. /\ Pages' /\ Sendings' /\ Waitings' /\ Keyed'
         /\ \A x \in Txn, e \in Delivery : LiveFor(x, e)' => x # t /\ LiveFor(x, e) /\ req'[x] = req[x]
    <2>1. OrdersAdvance
      BY <1>8, SameOrders
    <2>2. \A a \in AttemptSet : InReceipt(a)' => InReceipt(a)
      BY <1>8 DEF InReceipt
    <2>3. QED
      BY <1>5, <1>8, <1>9, <1>11, <1>12, <1>13, <2>1, <2>2, Answered
  <1>15. \A o \in Order, r \in Receipt, e \in Delivery : Received(o, r, e)' <=> Received(o, r, e)
    BY <1>8 DEF Received
  <1>16. \A u \in User, e \in Delivery :
           DialogOf(u, e)' => DialogOf(u, e) /\ (waiting[u] = t => ~reload)
    <2> TAKE u \in User, e \in Delivery
    <2>1. CASE waiting[u] = t
      BY <1>13, <2>1, NotADialog DEF DialogOf, NoReceipt
    <2>2. CASE waiting[u] # t
      BY <1>12, <2>2 DEF DialogOf
    <2>3. QED
      BY <2>1, <2>2
  <1>17. OneDialog'
    <2> SUFFICES ASSUME NEW u \in User, NEW v \in User,
                        receipt'[u].delivery = receipt'[v].delivery, receipt'[u] # NoReceipt
                 PROVE  u = v
      BY DEF OneDialog
    <2>1. Filled(u)'
      BY <1>14 DEF Pages
    <2>2. receipt'[u].delivery \in Delivery
      BY <2>1 DEF Filled, Dialog
    <2>3. DialogOf(u, receipt'[u].delivery) /\ DialogOf(v, receipt'[u].delivery)
      BY <1>16, <2>2 DEF DialogOf
    <2>4. QED
      BY <2>2, <2>3, NotADialog DEF IInv, Deliveries, OneDialog, DialogOf
  <1>18. NewsHolds'
    BY <1>4, <1>11, <1>15 DEF IInv, Deliveries, NewsHolds
  <1>19. ASSUME NEW e \in Delivery \ strayed PROVE Repeated(e)'
    <2>1. Repeated(e)
      BY <1>19 DEF IInv, Deliveries
    <2>2. Unedited(e)'
      <3> SUFFICES ASSUME NEW v \in User, DialogOf(v, e)', receipt'[v].key # Null
                   PROVE receipt'[v].sent = receipt'[v].quantity
        BY DEF Unedited
      <3>1. receipt'[v] = receipt[v]
        BY <1>12, <1>13
      <3>2. QED
        BY <1>16, <2>1, <3>1 DEF Repeated, Unedited
    <2>3. LiveHasDialog(e)'
      <3> SUFFICES ASSUME NEW x \in Txn, LiveFor(x, e)'
                   PROVE  \E v \in User : DialogOf(v, e)' /\ receipt'[v].key = req'[x].key
        BY DEF LiveHasDialog
      <3>1. LiveFor(x, e) /\ req'[x] = req[x]
        BY <1>14
      <3>2. PICK v \in User : DialogOf(v, e) /\ receipt[v].key = req[x].key
        BY <2>1, <3>1 DEF Repeated, LiveHasDialog
      <3>3. waiting[v] # t
        <4> SUFFICES ASSUME waiting[v] = t PROVE FALSE
          OBVIOUS
        <4>1. req[x].key = req[t].key
          BY <1>9, <3>2, Waiter
        <4>2. req[x] = req[t]
          BY <1>9, <3>1, <4>1, KeyRequests DEF LiveFor, Live
        <4>3. QED
          BY <1>9, <1>10, <3>1, <4>2 DEF LiveFor, Live, o0
      <3>4. QED
        BY <1>12, <3>1, <3>2, <3>3 DEF DialogOf
    <2>4. \A o \in Order, r \in Receipt : Received(o, r, e) =>
             \A v \in User : DialogOf(v, e) => waiting[v] # t
      BY <1>9, <2>1, Waiter DEF Repeated, RecordedIsSettled, Received
    <2>5. \A v \in User : waiting[v] = t => DialogOf(v, d)
      BY <1>9, Waiter DEF DialogOf, d
    <2>6. RecordedIsSettled(e)'
      <3> SUFFICES ASSUME NEW o \in Order, NEW r \in Receipt, Received(o, r, e)'
                   PROVE  /\ \A x \in Txn : ~LiveFor(x, e)'
                          /\ \A v \in User : DialogOf(v, e)' => receipt'[v].key = r.key
                          /\ told'[e] = "recorded" \/ \E v \in User : DialogOf(v, e)'
        BY DEF RecordedIsSettled
      <3>1. Received(o, r, e)
        BY <1>15
      <3>2. /\ \A x \in Txn : ~LiveFor(x, e)
            /\ \A v \in User : DialogOf(v, e) => receipt[v].key = r.key
            /\ told[e] = "recorded" \/ \E v \in User : DialogOf(v, e)
        BY <2>1, <3>1 DEF Repeated, RecordedIsSettled
      <3>3. \A v \in User : DialogOf(v, e) => waiting[v] # t /\ receipt'[v] = receipt[v]
        BY <1>12, <2>4, <3>1
      <3>4. \A x \in Txn : ~LiveFor(x, e)'
        BY <1>14, <3>2
      <3>5. \A v \in User : DialogOf(v, e)' => receipt'[v].key = r.key
        BY <1>16, <3>2, <3>3
      <3>6. told'[e] = told[e]
        <4>1. e = d => ~Awaited(t)
          BY <2>5, <3>3 DEF Awaited, Waits
        <4>2. QED
          BY <1>4, <1>11, <4>1
      <3>7. told'[e] = "recorded" \/ \E v \in User : DialogOf(v, e)'
        BY <3>2, <3>3, <3>6 DEF DialogOf
      <3>8. QED
        BY <3>4, <3>5, <3>7
    <2>7. ReceivedAtMostOnce(e)'
      BY <1>15, <2>1 DEF Repeated, ReceivedAtMostOnce
    <2>8. DenialHolds(e)'
      <3>1. CASE e = d /\ Awaited(t) /\ reload
        <4>1. PICK w \in User : waiting[w] = t
          BY <3>1 DEF Awaited, Waits
        <4>2. \A v \in User : DialogOf(v, e) => v = w
          BY <2>5, <3>1, <4>1, NotADialog DEF IInv, Deliveries, OneDialog, DialogOf
        <4>3. \A v \in User : ~DialogOf(v, e)'
          BY <1>16, <3>1, <4>1, <4>2
        <4>4. \A o \in Order, r \in Receipt : ~Received(o, r, e)'
          BY <1>15, <2>4, <2>5, <3>1, <4>1
        <4>5. QED
          BY <4>3, <4>4 DEF DenialHolds
      <3>2. CASE ~(e = d /\ Awaited(t) /\ reload)
        <4>1. told'[e] = told[e]
          BY <1>4, <1>11, <3>2
        <4>2. Denied(e)' <=> Denied(e)
          BY <4>1, Zenon DEF Denied
        <4>3. QED
          BY <1>15, <1>16, <2>1, <4>2 DEF Repeated, DenialHolds
      <3>3. QED
        BY <3>1, <3>2
    <2>9. QED
      BY <2>2, <2>3, <2>6, <2>7, <2>8 DEF Repeated
  <1>20. Deliveries'
    BY <1>1, <1>17, <1>18, <1>19 DEF Deliveries
  <1>21. QED
    BY <1>8, <1>14, <1>20 DEF IInv

\* A receipt that is recorded: the page of its user shows the order and says so.
LEMMA RecordedAnswer ==
    ASSUME IInv, Base', OrdersAdvance, NEW t \in Txn, req[t].op = "receive", Ended(t), req[t].order \in Order,
           NEW doc, doc = order'[req[t].order], doc.status # "NONE",
           AnswerRecorded(t, req[t].order, doc), strayed' = strayed,
           \A a \in AttemptSet : InReceipt(a)' => InReceipt(a) \/ a = req[t]
    PROVE  /\ Pages' /\ Sendings' /\ Waitings' /\ Keyed' /\ OneDialog'
           /\ \A x \in Txn, e \in Delivery : LiveFor(x, e)' => x # t /\ LiveFor(x, e) /\ req'[x] = req[x]
           /\ \A u \in User : receipt'[u] = IF waiting[u] = t THEN NoReceipt ELSE receipt[u]
           /\ \A u \in User, e \in Delivery : DialogOf(u, e)' <=> DialogOf(u, e) /\ waiting[u] # t
           /\ \A u \in User : waiting[u] = t => DialogOf(u, req[t].delivery)
           /\ \A e \in Delivery : e # req[t].delivery => told'[e] = told[e]
           /\ told'[req[t].delivery] = IF Awaited(t) THEN "recorded" ELSE told[req[t].delivery]
  <1> DEFINE d == req[t].delivery
  <1>1. /\ StopWaiting(t)
        /\ view' = [u \in User |-> IF Waits(u, t) THEN [id |-> req[t].order, doc |-> doc] ELSE view[u]]
        /\ receipt' = [u \in User |-> IF Waits(u, t) THEN NoReceipt ELSE receipt[u]]
        /\ told' = [told EXCEPT ![d] = IF Awaited(t) THEN "recorded" ELSE @]
    BY Zenon DEF AnswerRecorded, AnswerWith
  <1>2. d \in Delivery
    BY RequestTypes DEF ReceiveRequest, IInv
  <1>3. /\ DOMAIN told' = Delivery
        /\ \A e \in Delivery : e # d => told'[e] = told[e]
        /\ told'[d] = IF Awaited(t) THEN "recorded" ELSE told[d]
    BY <1>1, <1>2, PageShapes
  <1>4. /\ DOMAIN view' = User /\ DOMAIN receipt' = User
        /\ \A u \in User : waiting[u] # t => view'[u] = view[u] /\ receipt'[u] = receipt[u]
        /\ \A u \in User : waiting[u] = t =>
              view'[u] = [id |-> req[t].order, doc |-> doc] /\ receipt'[u] = NoReceipt
    BY <1>1 DEF Waits
  <1>5. order'[req[t].order] \in OrderDoc /\ Sound(order'[req[t].order])
    BY DEF Base, Documents
  <1>6. \A u \in User : waiting[u] = t =>
          Copy(view[u])' /\ receipt'[u] = NoReceipt /\ receipt'[u].key = Null
    BY <1>4, <1>5, PastSelf DEF Copy, NoReceipt
  <1>7. /\ Pages' /\ Sendings' /\ Waitings' /\ Keyed'
        /\ \A x \in Txn, e \in Delivery : LiveFor(x, e)' => x # t /\ LiveFor(x, e) /\ req'[x] = req[x]
    BY <1>1, <1>3, <1>4, <1>6, Answered
  <1>8. \A u \in User, e \in Delivery : DialogOf(u, e)' <=> DialogOf(u, e) /\ waiting[u] # t
    BY <1>4 DEF DialogOf, NoReceipt
  <1>9. OneDialog'
    <2>1. \A u \in User : receipt[u] # NoReceipt => receipt[u].delivery \in Delivery
      BY DialogTypes
    <2>2. \A u \in User : receipt'[u] # NoReceipt => receipt'[u] = receipt[u]
      BY <1>4
    <2>3. \A u \in User : receipt'[u] = receipt[u] \/ receipt'[u].delivery = Null
      BY <1>4 DEF NoReceipt
    <2>4. QED
      BY <2>1, <2>2, <2>3 DEF IInv, Deliveries, OneDialog
  <1>10. \A u \in User : waiting[u] = t => DialogOf(u, d)
    BY Waiter DEF DialogOf
  <1>11. \A u \in User : receipt'[u] = IF waiting[u] = t THEN NoReceipt ELSE receipt[u]
    BY <1>4
  <1>12. QED
    BY <1>3, <1>7, <1>8, <1>9, <1>10, <1>11

LEMMA ReplayKeeps == ASSUME IInv, NEW t \in Txn, ReplayReceive(t) PROVE IInv'
  <1> DEFINE d == req[t].delivery
             o0 == req[t].order
  <1>1. /\ req[t].op = "receive" /\ Replayed(snap[t].order[o0], req[t]) /\ Commit(t, {})
        /\ AnswerRecorded(t, o0, order[o0]) /\ UNCHANGED documents /\ strayed' = strayed
    BY Zenon DEF ReplayReceive
  <1>2. Base' /\ Ended(t) /\ order' = order
    BY <1>1, ReplayBase, CommitEnds DEF IInv, documents
  <1>3. Running(t) /\ o0 \in Order /\ d \in Delivery
    BY <1>1, RequestTypes DEF ReceiveRequest, IInv
  <1>4. PICK p \in Receipt : Received(o0, p, d)
    <2>1. PICK p \in snap[t].order[o0].receipts : p.key = req[t].key
      BY <1>1 DEF Replayed, ReceiptsOf
    <2>2. p \in order[o0].receipts
      BY <1>3, <2>1 DEF IInv, Base, Reads, ReadsOrder, Past
    <2>3. p \in Receipt
      BY <1>3, <2>2, OrderTypes DEF IInv
    <2>4. p = ReceiptOf(req[t])
      BY <1>1, <1>3, <2>1, <2>2, KeyReceiptRequest
    <2>5. QED
      BY <2>2, <2>3, <2>4 DEF Received, ReceiptOf
  <1>5. order[o0].status # "NONE"
    <2>1. PICK c \in OrderDoc : Fits(req[t].quantity, c) /\ Past(c, order[o0])
      BY <1>1, <1>3 DEF IInv, Sendings, SentWell, SentFrom
    <2>2. QED
      BY <2>1 DEF Fits, Past, Open
  <1>6. OrdersAdvance /\ \A a \in AttemptSet : InReceipt(a)' => InReceipt(a)
    BY <1>2, SameOrders DEF InReceipt
  <1>7. order[o0] = order'[o0]
    BY <1>2
  <1>8. Pages' /\ Sendings' /\ Waitings' /\ Keyed' /\ OneDialog'
    BY <1>1, <1>2, <1>3, <1>5, <1>6, <1>7, RecordedAnswer
  <1>9. /\ \A x \in Txn, e \in Delivery : LiveFor(x, e)' => x # t /\ LiveFor(x, e) /\ req'[x] = req[x]
        /\ \A u \in User : receipt'[u] = IF waiting[u] = t THEN NoReceipt ELSE receipt[u]
        /\ \A u \in User, e \in Delivery : DialogOf(u, e)' <=> DialogOf(u, e) /\ waiting[u] # t
        /\ \A u \in User : waiting[u] = t => DialogOf(u, d)
        /\ \A e \in Delivery : e # d => told'[e] = told[e]
        /\ told'[d] = IF Awaited(t) THEN "recorded" ELSE told[d]
    BY <1>1, <1>2, <1>3, <1>5, <1>6, <1>7, RecordedAnswer
  <1> HIDE DEF d, o0
  <1>10. \A o \in Order, r \in Receipt, e \in Delivery : Received(o, r, e)' <=> Received(o, r, e)
    BY <1>2 DEF Received
  <1>11. NewsHolds'
    BY <1>3, <1>4, <1>9, <1>10 DEF IInv, Deliveries, NewsHolds
  <1>12. ASSUME NEW e \in Delivery \ strayed PROVE Repeated(e)'
    <2>1. Repeated(e)
      BY <1>12 DEF IInv, Deliveries
    <2>2. Unedited(e)'
      BY <1>9, <2>1 DEF Repeated, Unedited
    <2>3. ReceivedAtMostOnce(e)'
      BY <1>10, <2>1 DEF Repeated, ReceivedAtMostOnce
    <2>4. CASE e = d
      <3>1. \A x \in Txn : ~LiveFor(x, e)
        BY <1>3, <1>4, <2>1, <2>4 DEF Repeated, RecordedIsSettled
      <3>2. \A x \in Txn : ~LiveFor(x, e)'
        BY <1>9, <3>1
      <3>3. RecordedIsSettled(e)'
        <4> SUFFICES ASSUME NEW o \in Order, NEW r \in Receipt, Received(o, r, e)'
                     PROVE  /\ \A v \in User : DialogOf(v, e)' => receipt'[v].key = r.key
                            /\ told'[e] = "recorded" \/ \E v \in User : DialogOf(v, e)'
          BY <3>2 DEF RecordedIsSettled
        <4>1. /\ \A v \in User : DialogOf(v, e) => receipt[v].key = r.key
              /\ told[e] = "recorded" \/ \E v \in User : DialogOf(v, e)
          BY <1>10, <2>1 DEF Repeated, RecordedIsSettled
        <4>2. \A v \in User : DialogOf(v, e)' => receipt'[v].key = r.key
          BY <1>9, <4>1
        <4>3. told'[e] = "recorded" \/ \E v \in User : DialogOf(v, e)'
          BY <1>9, <2>4, <4>1 DEF Awaited, Waits
        <4>4. QED
          BY <4>2, <4>3
      <3>4. LiveHasDialog(e)'
        BY <3>2 DEF LiveHasDialog
      <3>5. ~Denied(e)
        BY <1>3, <1>4, <2>1, <2>4 DEF Repeated, DenialHolds
      <3>6. told'[e] = "recorded" \/ told'[e] = told[e]
        BY <1>9, <2>4
      <3>7. ~Denied(e)'
        BY <3>5, <3>6, Zenon DEF Denied
      <3>8. DenialHolds(e)'
        BY <3>7 DEF DenialHolds
      <3>9. QED
        BY <2>2, <2>3, <3>3, <3>4, <3>8 DEF Repeated
    <2>5. CASE e # d
      <3>1. \A v \in User : DialogOf(v, e) => waiting[v] # t /\ receipt'[v] = receipt[v]
        BY <1>9, <2>5 DEF DialogOf
      <3>2. \A v \in User : DialogOf(v, e)' <=> DialogOf(v, e)
        BY <1>9, <3>1
      <3>3. told'[e] = told[e]
        BY <1>9, <2>5
      <3>4. LiveHasDialog(e)'
        BY <1>9, <2>1, <3>1, <3>2 DEF Repeated, LiveHasDialog
      <3>5. RecordedIsSettled(e)'
        <4> SUFFICES ASSUME NEW o \in Order, NEW r \in Receipt, Received(o, r, e)'
                     PROVE  /\ \A x \in Txn : ~LiveFor(x, e)'
                            /\ \A v \in User : DialogOf(v, e)' => receipt'[v].key = r.key
                            /\ told'[e] = "recorded" \/ \E v \in User : DialogOf(v, e)'
          BY DEF RecordedIsSettled
        <4>1. /\ \A x \in Txn : ~LiveFor(x, e)
              /\ \A v \in User : DialogOf(v, e) => receipt[v].key = r.key
              /\ told[e] = "recorded" \/ \E v \in User : DialogOf(v, e)
          BY <1>10, <2>1 DEF Repeated, RecordedIsSettled
        <4>2. \A x \in Txn : ~LiveFor(x, e)'
          BY <1>9, <4>1
        <4>3. \A v \in User : DialogOf(v, e)' => receipt'[v].key = r.key
          BY <3>1, <3>2, <4>1
        <4>4. told'[e] = "recorded" \/ \E v \in User : DialogOf(v, e)'
          BY <3>2, <3>3, <4>1
        <4>5. QED
          BY <4>2, <4>3, <4>4
      <3>6. Denied(e)' <=> Denied(e)
        BY <3>3, Zenon DEF Denied
      <3>7. DenialHolds(e)'
        BY <1>10, <2>1, <3>2, <3>6 DEF Repeated, DenialHolds
      <3>8. QED
        BY <2>2, <2>3, <3>4, <3>5, <3>7 DEF Repeated
    <2>6. QED
      BY <2>4, <2>5
  <1>13. Deliveries'
    BY <1>1, <1>8, <1>11, <1>12 DEF Deliveries
  <1>14. QED
    BY <1>2, <1>8, <1>13 DEF IInv

\* The first attempt to commit records the delivery, and leaves no live one.
LEMMA ReceiveKeeps == ASSUME IInv, NEW t \in Txn, CommitReceive(t) PROVE IInv'
  <1> DEFINE d == req[t].delivery
             o0 == req[t].order
             p == ReceiptOf(req[t])
  <1>1. /\ req[t].op = "receive" /\ AnswerRecorded(t, o0, order'[o0]) /\ strayed' = strayed
    BY Zenon DEF CommitReceive
  <1>2. Wrote(t)
    BY ReceiveWrites DEF IInv
  <1>3. /\ order[o0].version = req[t].version
        /\ order'[o0].version = order[o0].version + 1
        /\ order'[o0].receipts = order[o0].receipts \cup {p}
    BY ReceiveWrites DEF IInv
  <1>4. /\ Base' /\ OrdersAdvance /\ Ended(t) /\ o0 \in Order /\ order'[o0].status # "NONE"
        /\ \A o \in Order : o # o0 => order'[o] = order[o]
    BY <1>2, WroteAdvances, CommitEnds DEF Wrote, IInv
  <1>5. req[t] \in ReceiveRequest /\ d \in Delivery /\ req[t].version \in Int
    BY <1>1, RequestTypes DEF ReceiveRequest, IInv
  <1>6. p \in Receipt /\ p.delivery = d /\ p.key = req[t].key
    BY <1>5 DEF ReceiptOf, Receipt, ReceiveRequest
  <1>7. ASSUME NEW a \in AttemptSet, InReceipt(a)' PROVE InReceipt(a) \/ a = req[t]
    <2>1. CASE a.order = o0 /\ ReceiptOf(a) = p
      BY <1>5, <2>1 DEF AttemptSet, ReceiveRequest, ReceiptOf
    <2>2. CASE ~(a.order = o0 /\ ReceiptOf(a) = p)
      BY <1>3, <1>4, <1>7, <2>2 DEF InReceipt, AttemptSet
    <2>3. QED
      BY <2>1, <2>2
  <1>8. Pages' /\ Sendings' /\ Waitings' /\ Keyed' /\ OneDialog'
    BY <1>1, <1>4, <1>7, RecordedAnswer
  <1>9. /\ \A x \in Txn, e \in Delivery : LiveFor(x, e)' => x # t /\ LiveFor(x, e) /\ req'[x] = req[x]
        /\ \A u \in User : receipt'[u] = IF waiting[u] = t THEN NoReceipt ELSE receipt[u]
        /\ \A u \in User, e \in Delivery : DialogOf(u, e)' <=> DialogOf(u, e) /\ waiting[u] # t
        /\ \A u \in User : waiting[u] = t => DialogOf(u, d)
        /\ \A e \in Delivery : e # d => told'[e] = told[e]
        /\ told'[d] = IF Awaited(t) THEN "recorded" ELSE told[d]
    BY <1>1, <1>4, <1>7, RecordedAnswer
  <1>10. LiveFor(t, d)
    BY <1>1, <1>3 DEF LiveFor, Live
  <1>11. ASSUME NEW x \in Txn, NEW e \in Delivery, LiveFor(x, e)' PROVE req[x] # req[t]
    <2>1. req'[x] = req[x]
      BY <1>9, <1>11
    <2>2. order'[req[x].order].version = req[x].version
      BY <1>11, <2>1 DEF LiveFor, Live
    <2>3. QED
      BY <1>3, <1>5, <2>2
  <1> HIDE DEF d, o0, p
  <1>12. \A o \in Order, r \in Receipt, e \in Delivery :
            Received(o, r, e)' <=> Received(o, r, e) \/ (o = o0 /\ r = p /\ e = d)
    BY <1>3, <1>4, <1>6 DEF Received
  <1>13. NewsHolds'
    BY <1>4, <1>6, <1>9, <1>12 DEF IInv, Deliveries, NewsHolds
  <1>14. ASSUME NEW e \in Delivery \ strayed PROVE Repeated(e)'
    <2>1. Repeated(e) /\ OneDialog
      BY <1>14 DEF IInv, Deliveries
    <2>2. Unedited(e)'
      BY <1>9, <2>1 DEF Repeated, Unedited
    <2>3. LiveHasDialog(e)'
      <3> SUFFICES ASSUME NEW x \in Txn, LiveFor(x, e)'
                   PROVE  \E v \in User : DialogOf(v, e)' /\ receipt'[v].key = req'[x].key
        BY DEF LiveHasDialog
      <3>1. LiveFor(x, e) /\ req'[x] = req[x] /\ req[x] # req[t]
        BY <1>9, <1>11
      <3>2. PICK v \in User : DialogOf(v, e) /\ receipt[v].key = req[x].key
        BY <2>1, <3>1 DEF Repeated, LiveHasDialog
      <3>3. waiting[v] # t
        <4> SUFFICES ASSUME waiting[v] = t PROVE FALSE
          OBVIOUS
        <4>1. req[x].key = req[t].key
          BY <1>1, <3>2, Waiter
        <4>2. QED
          BY <1>1, <3>1, <4>1, KeyRequests DEF LiveFor, Live
      <3>4. QED
        BY <1>9, <3>1, <3>2, <3>3
    <2>4. CASE e = d
      <3>1. \A o \in Order, r \in Receipt : ~Received(o, r, e)
        BY <1>10, <2>1, <2>4 DEF Repeated, RecordedIsSettled
      <3>2. \A o \in Order, r \in Receipt : Received(o, r, e)' => o = o0 /\ r = p
        BY <1>12, <3>1
      <3>3. PICK w \in User : DialogOf(w, e) /\ receipt[w].key = req[t].key
        BY <1>10, <2>1, <2>4 DEF Repeated, LiveHasDialog
      <3>4. \A v \in User : DialogOf(v, e) => v = w
        BY <2>1, <3>3, NotADialog DEF OneDialog, DialogOf
      <3>5. \A x \in Txn : ~LiveFor(x, e)'
        BY <1>5, <1>9, <1>10, <1>11, <1>14, <2>4, LiveAlone
      <3>6. RecordedIsSettled(e)'
        <4> SUFFICES ASSUME NEW o \in Order, NEW r \in Receipt, Received(o, r, e)'
                     PROVE  /\ \A v \in User : DialogOf(v, e)' => receipt'[v].key = r.key
                            /\ told'[e] = "recorded" \/ \E v \in User : DialogOf(v, e)'
          BY <3>5 DEF RecordedIsSettled
        <4>1. r = p
          BY <3>2
        <4>2. \A v \in User : DialogOf(v, e)' => receipt'[v].key = r.key
          BY <1>6, <1>9, <3>3, <3>4, <4>1
        <4>3. told'[e] = "recorded" \/ \E v \in User : DialogOf(v, e)'
          BY <1>9, <2>4, <3>3 DEF Awaited, Waits
        <4>4. QED
          BY <4>2, <4>3
      <3>7. ReceivedAtMostOnce(e)'
        BY <3>2 DEF ReceivedAtMostOnce
      <3>8. ~Denied(e)
        BY <2>1, <3>3 DEF Repeated, DenialHolds
      <3>9. told'[e] = "recorded" \/ told'[e] = told[e]
        BY <1>9, <2>4
      <3>10. ~Denied(e)'
        BY <3>8, <3>9, Zenon DEF Denied
      <3>11. DenialHolds(e)'
        BY <3>10 DEF DenialHolds
      <3>12. QED
        BY <2>2, <2>3, <3>6, <3>7, <3>11 DEF Repeated
    <2>5. CASE e # d
      <3>1. \A v \in User : DialogOf(v, e) => waiting[v] # t /\ receipt'[v] = receipt[v]
        BY <1>9, <2>5 DEF DialogOf
      <3>2. \A v \in User : DialogOf(v, e)' <=> DialogOf(v, e)
        BY <1>9, <3>1
      <3>3. told'[e] = told[e]
        BY <1>9, <2>5
      <3>4. \A o \in Order, r \in Receipt : Received(o, r, e)' <=> Received(o, r, e)
        BY <1>12, <2>5
      <3>5. RecordedIsSettled(e)'
        <4> SUFFICES ASSUME NEW o \in Order, NEW r \in Receipt, Received(o, r, e)'
                     PROVE  /\ \A x \in Txn : ~LiveFor(x, e)'
                            /\ \A v \in User : DialogOf(v, e)' => receipt'[v].key = r.key
                            /\ told'[e] = "recorded" \/ \E v \in User : DialogOf(v, e)'
          BY DEF RecordedIsSettled
        <4>1. /\ \A x \in Txn : ~LiveFor(x, e)
              /\ \A v \in User : DialogOf(v, e) => receipt[v].key = r.key
              /\ told[e] = "recorded" \/ \E v \in User : DialogOf(v, e)
          BY <2>1, <3>4 DEF Repeated, RecordedIsSettled
        <4>2. \A x \in Txn : ~LiveFor(x, e)'
          BY <1>9, <4>1
        <4>3. \A v \in User : DialogOf(v, e)' => receipt'[v].key = r.key
          BY <3>1, <3>2, <4>1
        <4>4. told'[e] = "recorded" \/ \E v \in User : DialogOf(v, e)'
          BY <3>2, <3>3, <4>1
        <4>5. QED
          BY <4>2, <4>3, <4>4
      <3>6. Denied(e)' <=> Denied(e)
        BY <3>3, Zenon DEF Denied
      <3>7. DenialHolds(e)'
        BY <2>1, <3>2, <3>4, <3>6 DEF Repeated, DenialHolds
      <3>8. ReceivedAtMostOnce(e)'
        BY <2>1, <3>4 DEF Repeated, ReceivedAtMostOnce
      <3>9. QED
        BY <2>2, <2>3, <3>5, <3>7, <3>8 DEF Repeated
    <2>6. QED
      BY <2>4, <2>5
  <1>15. Deliveries'
    BY <1>1, <1>8, <1>13, <1>14 DEF Deliveries
  <1>16. QED
    BY <1>4, <1>8, <1>15 DEF IInv

-----------------------------------------------------------------------------
\* The theorems.

LEMMA IInvInit == Init => IInv
  <1> SUFFICES ASSUME Init PROVE IInv
    OBVIOUS
  <1>1. Base
    BY BaseInit
  <1>2. /\ \A u \in User : receipt[u] = NoReceipt /\ view[u] = Null /\ waiting[u] = Null
        /\ DOMAIN view = User /\ DOMAIN receipt = User /\ DOMAIN waiting = User
        /\ DOMAIN told = Delivery /\ \A d \in Delivery : told[d] = "nothing"
        /\ \A t \in Txn : req[t] = Idle
        /\ \A o \in Order : order[o] = NoOrder
    BY DEF Init, TxnInit
  <1>3. Pages /\ Sendings /\ Waitings
    BY <1>2 DEF Pages, Sendings, Waitings, Running
  <1>4. \A u \in User : receipt[u].key = Null /\ receipt[u].delivery = Null
    BY <1>2, NotADialog
  <1>5. \A t \in Txn : req[t].op # "receive"
    BY <1>2 DEF Idle
  <1>6. \A o \in Order : order[o].receipts = {}
    <2> TAKE o \in Order
    <2>1. order[o] = NoOrder
      BY <1>2
    <2>2. QED
      BY <2>1 DEF NoOrder
  <1>7. Keyed
    BY <1>4, <1>5, <1>6 DEF Keyed, Attempted, InDialog, InReceipt, AttemptSet
  <1>8. \A d \in Delivery : ~Denied(d)
    <2> TAKE d \in Delivery
    <2>1. told[d] = "nothing"
      BY <1>2
    <2>2. QED
      BY <2>1, Zenon DEF Denied
  <1>9. OneDialog /\ NewsHolds
    BY <1>2 DEF OneDialog, NewsHolds
  <1>10. \A d \in Delivery : Repeated(d)
    BY <1>4, <1>5, <1>6, <1>8 DEF Repeated, Unedited, LiveHasDialog, RecordedIsSettled,
         ReceivedAtMostOnce, DenialHolds, DialogOf, LiveFor, Live, Received
  <1>11. QED
    BY <1>1, <1>3, <1>7, <1>9, <1>10 DEF IInv, Deliveries

\* A write comes from a page that showed the order as it was.
Seen == \A o \in Order, t \in Txn :
          (order'[o] # order[o] /\ req[t] # Idle /\ req'[t] = Idle /\ req[t].op # "create") =>
             req[t].version = order[o].version

LEMMA WroteSeen ==
    ASSUME IInv, NEW x \in Txn, Wrote(x),
           req[x].op = "create" \/ order[req[x].order].version = req[x].version
    PROVE  Seen
  <1>1. Ended(x)
    BY CommitEnds DEF Wrote, IInv
  <1>2. QED
    BY <1>1 DEF Wrote, Seen, Ended

LEMMA SameSeen == ASSUME order' = order PROVE Seen
  BY DEF Seen

\* One step, action by action.
LEMMA QuietStep ==
    ASSUME IInv, Quiet
    PROVE  IInv' /\ OrdersAdvance
  BY QuietKeeps DEF Quiet

LEMMA UserKeeps == ASSUME IInv, NEW u \in User, UserStep(u) PROVE IInv' /\ OrdersAdvance /\ Seen
  <1>1. order' = order
    BY DEF UserStep, OpenOrder, CloseEditor, OpenReceive, EditReceipt, CloseReceive, GiveUp,
           SaveDraft, Transition, SubmitReceive, documents
  <1>2. OrdersAdvance /\ Seen
    BY <1>1, SameOrders, SameSeen
  <1>3. CASE OpenOrder(u)
    BY <1>2, <1>3, OpenQuiet, QuietStep
  <1>4. CASE CloseEditor(u)
    BY <1>2, <1>4, CloseEditorQuiet, QuietStep
  <1>5. CASE OpenReceive(u)
    BY <1>2, <1>5, OpenReceiveKeeps
  <1>6. CASE EditReceipt(u)
    BY <1>2, <1>6, EditKeeps
  <1>7. CASE CloseReceive(u)
    BY <1>2, <1>7, CloseKeeps
  <1>8. CASE GiveUp(u)
    BY <1>2, <1>8, GiveUpQuiet, QuietStep
  <1>9. ASSUME NEW t \in Txn, SaveDraft(u, t) PROVE IInv'
    BY <1>9, SaveQuiet, QuietStep
  <1>10. ASSUME NEW t \in Txn, Transition(u, t) PROVE IInv'
    BY <1>10, TransitionQuiet, QuietStep
  <1>11. ASSUME NEW t \in Txn, SubmitReceive(u, t) PROVE IInv'
    BY <1>11, SubmitKeeps
  <1>12. QED
    BY <1>2, <1>3, <1>4, <1>5, <1>6, <1>7, <1>8, <1>9, <1>10, <1>11 DEF UserStep

LEMMA ServeKeeps == ASSUME IInv, NEW t \in Txn, Serve(t) PROVE IInv' /\ OrdersAdvance /\ Seen
  <1>1. CASE CommitCreate(t)
    <2>1. IInv' /\ OrdersAdvance
      BY <1>1, CreateQuiet, QuietStep
    <2>2. req[t].op = "create"
      BY <1>1, Zenon DEF CommitCreate
    <2>3. Wrote(t)
      BY <1>1, CreateWrites DEF IInv
    <2>4. QED
      BY <2>1, <2>2, <2>3, WroteSeen
  <1>2. CASE CommitUpdate(t)
    <2>1. IInv' /\ OrdersAdvance
      BY <1>2, UpdateQuiet, QuietStep
    <2>2. Wrote(t) /\ order[req[t].order].version = req[t].version
      BY <1>2, UpdateWrites DEF IInv
    <2>3. QED
      BY <2>1, <2>2, WroteSeen
  <1>3. CASE CommitSend(t)
    <2>1. IInv' /\ OrdersAdvance
      BY <1>3, SendQuiet, QuietStep
    <2>2. Wrote(t) /\ order[req[t].order].version = req[t].version
      BY <1>3, SendWrites DEF IInv
    <2>3. QED
      BY <2>1, <2>2, WroteSeen
  <1>4. CASE CommitCancel(t)
    <2>1. IInv' /\ OrdersAdvance
      BY <1>4, CancelQuiet, QuietStep
    <2>2. Wrote(t) /\ order[req[t].order].version = req[t].version
      BY <1>4, CancelWrites DEF IInv
    <2>3. QED
      BY <2>1, <2>2, WroteSeen
  <1>5. CASE CommitReceive(t)
    <2>1. Wrote(t) /\ order[req[t].order].version = req[t].version
      BY <1>5, ReceiveWrites DEF IInv
    <2>2. OrdersAdvance
      BY <2>1, WroteAdvances
    <2>3. IInv'
      BY <1>5, ReceiveKeeps
    <2>4. QED
      BY <2>1, <2>2, <2>3, WroteSeen
  <1>6. CASE ReplayReceive(t) \/ RefuseReceive(t) \/ RefusedBefore(t)
    <2>1. order' = order
      BY <1>6, Zenon DEF ReplayReceive, RefuseReceive, RefusedBefore, documents
    <2>2. IInv'
      BY <1>6, ReplayKeeps, RefuseKeeps, RefusedBeforeKeeps
    <2>3. QED
      BY <2>1, <2>2, SameOrders, SameSeen
  <1>7. CASE RefuseOther(t) \/ Lose(t) \/ Rerun(t)
    <2>1. order' = order
      BY <1>7, Zenon DEF RefuseOther, Lose, Rerun, documents
    <2>2. Quiet
      BY <1>7, RefuseOtherQuiet, LoseQuiet, RerunQuiet
    <2>3. QED
      BY <2>1, <2>2, QuietStep, SameSeen
  <1>8. CASE ArchiveSupplier(t) \/ AskRemove(t) \/ CommitRemove(t)
    <2>1. order' = order
      BY <1>8, Zenon DEF ArchiveSupplier, AskRemove, CommitRemove, documents
    <2>2. Quiet
      BY <1>8, ArchiveQuiet, AskRemoveQuiet, RemoveQuiet
    <2>3. QED
      BY <2>1, <2>2, QuietStep, SameSeen
  <1>9. QED
    BY <1>1, <1>2, <1>3, <1>4, <1>5, <1>6, <1>7, <1>8 DEF Serve

LEMMA StutterKeeps == ASSUME IInv, UNCHANGED vars PROVE IInv' /\ OrdersAdvance /\ Seen
  <1>1. /\ UNCHANGED << documents, req, snap, missed >> /\ order' = order /\ view' = view
        /\ receipt' = receipt /\ waiting' = waiting /\ told' = told /\ strayed' = strayed
        /\ req' = req /\ snap' = snap
    BY DEF vars, documents, page, txnVars
  <1>2. Base' /\ OrdersAdvance /\ Seen
    BY <1>1, IdleBase, SameOrders, SameSeen DEF IInv
  <1>3. \A u \in User : KeepsView(u) /\ KeepsWaiting(u)
    BY <1>1 DEF KeepsView, KeepsWaiting, IInv, Waitings, AwaitsIt, Running
  <1>4. \A t \in Txn : KeepsRequest(t)
    BY <1>1 DEF KeepsRequest, Running
  <1>5. Domains'
    BY <1>1, PageShapes DEF Domains
  <1>6. Quiet
    BY <1>1, <1>2, <1>3, <1>4, <1>5 DEF Quiet
  <1>7. QED
    BY <1>2, <1>6, QuietStep

LEMMA Inductive == IInv /\ [Next]_vars => IInv' /\ OrdersAdvance /\ Seen
  BY UserKeeps, ServeKeeps, StutterKeeps DEF Next

\* The documents, the pages and the requests always agree as IInv says.
THEOREM Invariance == Spec => []IInv
  <1>1. Init => IInv
    BY IInvInit
  <1>2. IInv /\ [Next]_vars => IInv'
    BY Inductive
  <1>3. QED
    BY <1>1, <1>2, PTL DEF Spec

\* Once sent, an order's lines and supplier are locked, and once closed nothing
\* of it changes (the status filters of purchase-order.service.ts).
THEOREM OrdersLocked == Spec => SentIsLocked
  <1> DEFINE Step == \A o \in Order :
               /\ order[o].status \notin {"NONE", "DRAFT"} =>
                    << order'[o].ordered, order'[o].supplier >> = << order[o].ordered, order[o].supplier >>
               /\ order[o].status \in {"RECEIVED", "CANCELLED"} => order'[o] = order[o]
  <1>1. IInv /\ [Next]_vars => Step
    <2> SUFFICES ASSUME IInv, [Next]_vars PROVE Step
      OBVIOUS
    <2>1. OrdersAdvance
      BY Inductive
    <2>2. QED
      BY <2>1 DEF OrdersAdvance, Advances, Created, Written, NoOrder
  <1>2. QED
    BY <1>1, Invariance, PTL DEF Spec, SentIsLocked

\* No write to an order is lost: whoever changes it saw it as it was (the
\* version in the filter of every write).
THEOREM WritesKnow == Spec => WritesSeeTheOrder
  <1>1. IInv /\ [Next]_vars => Seen
    BY Inductive
  <1>2. QED
    BY <1>1, Invariance, PTL DEF Spec, WritesSeeTheOrder, Seen

LEMMA NoTwice ==
    ASSUME IInv, NEW d \in Delivery \ strayed
    PROVE  Cardinality(Recorded(d)) <= 1
  <1>1. \A x \in Recorded(d) : \E o \in Order : \E r \in Receipt : x = << o, r >> /\ Received(o, r, d)
    BY OrderTypes DEF Recorded, Receipts, Received, IInv
  <1>2. ReceivedAtMostOnce(d)
    BY DEF IInv, Deliveries, Repeated
  <1>3. \A x, y \in Recorded(d) : x = y
    BY <1>1, <1>2 DEF ReceivedAtMostOnce
  <1>4. CASE Recorded(d) = {}
    BY <1>4, FS_EmptySet
  <1>5. CASE Recorded(d) # {}
    <2>1. PICK x \in Recorded(d) : TRUE
      BY <1>5
    <2>2. Recorded(d) = {x}
      BY <1>3, <2>1
    <2>3. Cardinality({x}) = 1
      BY FS_Singleton, Zenon
    <2>4. QED
      BY <2>2, <2>3
  <1>6. QED
    BY <1>4, <1>5

\* A delivery is received at most once as long as its user repeats an attempt
\* unchanged: the idempotency key and the version let only one attempt through.
THEOREM DeliveredOnce == Spec => []ReceivedOnce
  <1>1. IInv => ReceivedOnce
    BY NoTwice DEF ReceivedOnce
  <1>2. QED
    BY <1>1, Invariance, PTL

LEMMA RecordedIf ==
    ASSUME NEW d \in Delivery, NEW o \in Order, NEW r \in Receipt, Received(o, r, d)
    PROVE  Recorded(d) # {}
  <1>1. << o, r >> \in {o} \X Receipts(o, d)
    BY DEF Receipts, Received
  <1>2. << o, r >> \in Recorded(d)
    BY <1>1, Zenon DEF Recorded
  <1>3. QED
    BY <1>2

LEMMA RecordedOnlyIf ==
    ASSUME Base, NEW d \in Delivery, Recorded(d) # {}
    PROVE  \E o \in Order, r \in Receipt : Received(o, r, d)
  BY OrderTypes DEF Recorded, Receipts, Received

\* What the page says of a receipt is true, "not recorded" as long as its user
\* repeats an attempt unchanged (the receive dialog of PurchaseOrders/Index.vue).
THEOREM PagesTellTheTruth == Spec => []ToldTheTruth
  <1>1. IInv => ToldTheTruth
    <2> SUFFICES ASSUME IInv, NEW d \in Delivery
                 PROVE  /\ told[d] = "recorded" => Recorded(d) # {}
                        /\ told[d] = "not recorded" /\ d \notin strayed => Recorded(d) = {}
      BY Zenon DEF ToldTheTruth
    <2>1. told[d] = "recorded" => Recorded(d) # {}
      BY RecordedIf DEF IInv, Deliveries, NewsHolds
    <2>2. Denied(d) /\ d \notin strayed => Recorded(d) = {}
      BY RecordedOnlyIf DEF IInv, Deliveries, Repeated, DenialHolds
    <2>3. QED
      BY <2>1, <2>2, Zenon DEF Denied
  <1>2. QED
    BY <1>1, Invariance, PTL

-----------------------------------------------------------------------------
\* The shapes of the pages: a dialog is open only on a page that shows an order.

PageTypes ==
    /\ waiting \in [User -> Txn \cup {Null}]
    /\ view \in [User -> Shown \cup {Null}]
    /\ \A u \in User : receipt[u] # NoReceipt => view[u] # Null

LEMMA AskTypes ==
    ASSUME PageTypes, NEW u \in User, NEW t \in Txn, NEW r, Ask(u, t, r)
    PROVE  waiting' \in [User -> Txn \cup {Null}]
  <1>1. waiting' = [waiting EXCEPT ![u] = t]
    BY Zenon DEF Ask
  <1>2. QED
    BY <1>1 DEF PageTypes

LEMMA StopTypes ==
    ASSUME PageTypes, NEW t, StopWaiting(t)
    PROVE  waiting' \in [User -> Txn \cup {Null}]
  BY DEF PageTypes, StopWaiting

LEMMA AnswerTypes ==
    ASSUME PageTypes, NEW t, NEW o \in Order, NEW doc \in OrderDoc, AnswerWith(t, o, doc),
           \A u \in User : receipt'[u] = receipt[u] \/ receipt'[u] = NoReceipt
    PROVE  PageTypes'
  <1> DEFINE v == [id |-> o, doc |-> doc]
  <1>1. v \in Shown /\ v # Null
    BY PageAssumption DEF Shown
  <1>2. view' = [u \in User |-> IF Waits(u, t) THEN v ELSE view[u]]
    BY Zenon DEF AnswerWith
  <1>3. waiting' \in [User -> Txn \cup {Null}]
    BY StopTypes DEF AnswerWith
  <1> HIDE DEF v
  <1>4. QED
    BY <1>1, <1>2, <1>3 DEF PageTypes

LEMMA IdlePages ==
    ASSUME PageTypes, view' = view, receipt' = receipt, waiting' \in [User -> Txn \cup {Null}]
    PROVE  PageTypes'
  BY DEF PageTypes

LEMMA UserTypes ==
    ASSUME IInv, PageTypes, NEW u \in User, UserStep(u)
    PROVE  PageTypes'
  <1> USE DEF PageTypes
  <1>1. CASE OpenOrder(u)
    <2>1. PICK o \in Order : view' = [view EXCEPT ![u] = [id |-> o, doc |-> order[o]]]
      BY <1>1, Zenon DEF OpenOrder
    <2>2. receipt' = receipt /\ waiting' = waiting
      BY <1>1, Zenon DEF OpenOrder
    <2>3. [id |-> o, doc |-> order[o]] \in Shown /\ [id |-> o, doc |-> order[o]] # Null
      BY PageAssumption DEF Shown, IInv, Base, Documents
    <2>4. QED
      BY <2>1, <2>2, <2>3
  <1>2. CASE CloseEditor(u)
    <2>1. /\ view' = [view EXCEPT ![u] = Null] /\ receipt[u] = NoReceipt
          /\ receipt' = receipt /\ waiting' = waiting
      BY <1>2, Zenon DEF CloseEditor
    <2>2. QED
      BY <2>1
  <1>3. CASE OpenReceive(u)
    <2>1. PICK f : receipt' = [receipt EXCEPT ![u] = f]
      BY <1>3, Zenon DEF OpenReceive
    <2>2. view[u] # Null /\ view' = view /\ waiting' = waiting
      BY <1>3, Zenon DEF OpenReceive
    <2>3. QED
      BY <2>1, <2>2
  <1>4. CASE EditReceipt(u)
    <2>1. PICK q : receipt' = [receipt EXCEPT ![u].quantity = q]
      BY <1>4, Zenon DEF EditReceipt
    <2>2. \A v \in User : v # u => receipt'[v] = receipt[v]
      BY <2>1
    <2>3. receipt[u] # NoReceipt /\ view' = view /\ waiting' = waiting
      BY <1>4, Zenon DEF EditReceipt
    <2>4. QED
      BY <2>2, <2>3
  <1>5. CASE CloseReceive(u)
    <2>1. /\ receipt' = [receipt EXCEPT ![u] = NoReceipt] /\ receipt[u] # NoReceipt
          /\ view' = view /\ waiting' = waiting
      BY <1>5, Zenon DEF CloseReceive
    <2>2. QED
      BY <2>1
  <1>6. CASE GiveUp(u)
    <2>1. waiting' = [waiting EXCEPT ![u] = Null] /\ view' = view /\ receipt' = receipt
      BY <1>6, Zenon DEF GiveUp
    <2>2. QED
      BY <2>1
  <1>7. ASSUME NEW t \in Txn, SaveDraft(u, t) PROVE PageTypes'
    <2>1. PICK r : Ask(u, t, r)
      BY <1>7, Zenon DEF SaveDraft
    <2>2. view' = view /\ receipt' = receipt
      BY <1>7, Zenon DEF SaveDraft
    <2>3. QED
      BY <2>1, <2>2, AskTypes, IdlePages
  <1>8. ASSUME NEW t \in Txn, Transition(u, t) PROVE PageTypes'
    <2>1. PICK r : Ask(u, t, r)
      BY <1>8, Zenon DEF Transition
    <2>2. view' = view /\ receipt' = receipt
      BY <1>8, Zenon DEF Transition
    <2>3. QED
      BY <2>1, <2>2, AskTypes, IdlePages
  <1>9. ASSUME NEW t \in Txn, SubmitReceive(u, t) PROVE PageTypes'
    <2>1. PICK k : /\ receipt' = [receipt EXCEPT ![u].key = k, ![u].sent = receipt[u].quantity]
                   /\ Ask(u, t, ReceiveBody(u, k))
      BY <1>9, Zenon DEF SubmitReceive
    <2>2. \A v \in User : v # u => receipt'[v] = receipt[v]
      BY <2>1, PageShapes
    <2>3. receipt[u] # NoReceipt /\ view' = view
      BY <1>9, Zenon DEF SubmitReceive
    <2>4. waiting' \in [User -> Txn \cup {Null}]
      BY <2>1, AskTypes
    <2>5. QED
      BY <2>2, <2>3, <2>4
  <1>10. QED
    BY <1>1, <1>2, <1>3, <1>4, <1>5, <1>6, <1>7, <1>8, <1>9, Zenon DEF UserStep

LEMMA RequestOrder ==
    ASSUME IInv, NEW t \in Txn, req[t].op \in {"create", "update", "send", "cancel", "receive"}
    PROVE  req[t].order \in Order
  <1>1. req[t] \in Requests
    BY RunningRequest DEF IInv
  <1>2. QED
    BY <1>1 DEF Requests, CreateRequest, UpdateRequest, MoveRequest, ReceiveRequest, RemoveRequest

LEMMA ServeTypes ==
    ASSUME IInv, IInv', PageTypes, NEW t \in Txn, Serve(t)
    PROVE  PageTypes'
  <1> DEFINE o == req[t].order
  <1>1. \A p \in Order : order[p] \in OrderDoc /\ order'[p] \in OrderDoc
    BY DEF IInv, Base, Documents
  <1>2. CASE CommitCreate(t) \/ CommitUpdate(t) \/ CommitSend(t) \/ CommitCancel(t)
    <2>1. AnswerWith(t, o, order'[o]) /\ receipt' = receipt
      BY <1>2, Zenon DEF CommitCreate, CommitUpdate, CommitSend, CommitCancel
    <2>2. o \in Order
      <3>1. req[t].op \in {"create", "update", "send", "cancel", "receive"}
        BY <1>2, Zenon DEF CommitCreate, CommitUpdate, CommitSend, CommitCancel
      <3>2. QED
        BY <3>1, RequestOrder
    <2>3. PICK doc \in OrderDoc : doc = order'[o]
      BY <1>1, <2>2
    <2>4. AnswerWith(t, o, doc)
      BY <2>1, <2>3, Zenon
    <2>5. QED
      BY <2>1, <2>2, <2>4, AnswerTypes
  <1>3. CASE CommitReceive(t) \/ ReplayReceive(t)
    <2>1. PICK doc \in OrderDoc : AnswerRecorded(t, o, doc) /\ o \in Order
      <3>1. req[t].op = "receive"
        BY <1>3, Zenon DEF CommitReceive, ReplayReceive
      <3>2. o \in Order
        BY <3>1, RequestOrder
      <3>3. AnswerRecorded(t, o, order'[o]) \/ AnswerRecorded(t, o, order[o])
        BY <1>3, Zenon DEF CommitReceive, ReplayReceive
      <3>4. QED
        BY <1>1, <3>2, <3>3, Zenon
    <2>2. \A u \in User : receipt'[u] = receipt[u] \/ receipt'[u] = NoReceipt
      <3>1. receipt' = [u \in User |-> IF Waits(u, t) THEN NoReceipt ELSE receipt[u]]
        BY <2>1, Zenon DEF AnswerRecorded
      <3>2. QED
        BY <3>1
    <2>3. AnswerWith(t, o, doc)
      BY <2>1, Zenon DEF AnswerRecorded
    <2>4. QED
      BY <2>1, <2>2, <2>3, AnswerTypes
  <1>4. CASE RefuseReceive(t)
    <2>1. o \in Order /\ req[t].op = "receive"
      BY <1>4, RequestOrder, Zenon DEF RefuseReceive
    <2> DEFINE v == [id |-> o, doc |-> order[o]]
    <2>2. v \in Shown /\ v # Null
      BY <1>1, <2>1, PageAssumption DEF Shown
    <2>3. PICK reload \in BOOLEAN :
            /\ StopWaiting(t)
            /\ view' = [u \in User |-> IF Waits(u, t) /\ reload THEN v ELSE view[u]]
            /\ receipt' = [u \in User |-> IF ~Waits(u, t) THEN receipt[u]
                                          ELSE IF reload THEN NoReceipt
                                          ELSE [receipt[u] EXCEPT !.key = Null]]
      BY <1>4, Zenon DEF RefuseReceive, AnswerNotRecorded
    <2> HIDE DEF v, o
    <2>4. waiting' \in [User -> Txn \cup {Null}]
      BY <2>3, StopTypes
    <2>5. view' \in [User -> Shown \cup {Null}]
      BY <2>2, <2>3 DEF PageTypes
    <2>6. ASSUME NEW u \in User, receipt'[u] # NoReceipt PROVE view'[u] # Null
      <3>1. receipt[u] # NoReceipt
        BY <2>1, <2>3, <2>6, Waiter DEF Waits
      <3>2. view'[u] = v \/ view'[u] = view[u]
        BY <2>3
      <3>3. QED
        BY <2>2, <3>1, <3>2 DEF PageTypes
    <2>7. QED
      BY <2>4, <2>5, <2>6, Zenon DEF PageTypes
  <1>5. CASE RefuseOther(t)
    <2>1. /\ receipt' = receipt
          /\ \/ AnswerWith(t, o, order[o]) /\ req[t].op \in {"send", "cancel"}
             \/ StopWaiting(t) /\ view' = view
      BY <1>5, Zenon DEF RefuseOther
    <2>2. CASE AnswerWith(t, o, order[o]) /\ req[t].op \in {"send", "cancel"}
      <3>1. o \in Order
        BY <2>2, RequestOrder
      <3>2. QED
        BY <1>1, <2>1, <2>2, <3>1, AnswerTypes
    <2>3. QED
      BY <2>1, <2>2, StopTypes, IdlePages
  <1>6. CASE RefusedBefore(t)
    <2>1. /\ StopWaiting(t) /\ view' = view /\ req[t].op = "receive"
          /\ receipt' = [u \in User |-> IF Waits(u, t) THEN [receipt[u] EXCEPT !.key = Null]
                                        ELSE receipt[u]]
      BY <1>6, Zenon DEF RefusedBefore
    <2>2. waiting' \in [User -> Txn \cup {Null}]
      BY <2>1, StopTypes
    <2>3. ASSUME NEW u \in User, receipt'[u] # NoReceipt PROVE view'[u] # Null
      <3>1. receipt[u] # NoReceipt
        BY <2>1, <2>3, Waiter DEF Waits
      <3>2. QED
        BY <2>1, <3>1 DEF PageTypes
    <2>4. QED
      BY <2>1, <2>2, <2>3 DEF PageTypes
  <1>7. CASE Lose(t)
    <2>1. StopWaiting(t) /\ view' = view /\ receipt' = receipt
      BY <1>7, Zenon DEF Lose
    <2>2. QED
      BY <2>1, StopTypes, IdlePages
  <1>8. CASE Rerun(t) \/ ArchiveSupplier(t) \/ AskRemove(t) \/ CommitRemove(t)
    <2>1. waiting' = waiting /\ view' = view /\ receipt' = receipt
      BY <1>8, Zenon DEF Rerun, ArchiveSupplier, AskRemove, CommitRemove, page
    <2>2. QED
      BY <2>1 DEF PageTypes
  <1>9. QED
    BY <1>2, <1>3, <1>4, <1>5, <1>6, <1>7, <1>8, Zenon DEF Serve

LEMMA PageTypesHold == Spec => []PageTypes
  <1>1. Init => PageTypes
    BY DEF Init, PageTypes
  <1>2. IInv /\ IInv' /\ PageTypes /\ [Next]_vars => PageTypes'
    <2> SUFFICES ASSUME IInv, IInv', PageTypes, [Next]_vars PROVE PageTypes'
      OBVIOUS
    <2>1. CASE UNCHANGED vars
      BY <2>1 DEF vars, page, PageTypes
    <2>2. QED
      BY <2>1, UserTypes, ServeTypes DEF Next
  <1>3. QED
    BY <1>1, <1>2, Invariance, PTL DEF Spec

\* Orders, receipts and pages keep their shapes (the schemas of
\* purchase-order.schema.ts and the state of PurchaseOrders/Index.vue).
THEOREM TypeCorrect == Spec => []TypeOK
  <1>1. IInv /\ PageTypes => TypeOK
    <2> SUFFICES ASSUME IInv, PageTypes PROVE TypeOK
      OBVIOUS
    <2>1. order \in [Order -> OrderDoc] /\ supplier \in [Supplier -> {"ACTIVE", "ARCHIVED", "GONE"}]
      BY DEF IInv, Base, Documents
    <2>2. \A u \in User : waiting[u] # Null => req[waiting[u]] # Idle
      BY DEF IInv, Waitings, AwaitsIt, Running
    <2>3. \A u \in User : receipt[u] = NoReceipt \/ receipt[u].delivery \in Delivery
      BY DEF IInv, Pages, Filled, Dialog
    <2>4. QED
      BY <2>1, <2>2, <2>3 DEF TypeOK, PageTypes
  <1>2. QED
    BY <1>1, Invariance, PageTypesHold, PTL

\* The documents add up: an order's receipts, the stock that came in and its
\* status tell the same story, never of more than was ordered, and its supplier
\* was not deleted (purchase-order.service.ts).
THEOREM OrdersHold == Spec => []OrdersAddUp
  <1>1. IInv => SuppliersStay /\ ReceiptsAddUp /\ StatusTellsReceipts
    <2> SUFFICES ASSUME Documents PROVE SuppliersStay /\ ReceiptsAddUp /\ StatusTellsReceipts
      BY DEF IInv, Base
    <2>1. StatusTellsReceipts
      BY DEF Documents, Sound, StatusTells, StatusTellsReceipts
    <2>2. ReceiptsAddUp
      <3>1. ASSUME NEW o \in Order, NEW l \in Line
            PROVE  /\ order[o].received[l] = ReceiptTotal(order[o].receipts, l)
                   /\ order[o].received[l] = restocked[o][l]
                   /\ order[o].received[l] <= order[o].ordered[l]
        BY DEF Documents, Sound, AddUp
      <3>2. QED
        BY <3>1, Zenon DEF ReceiptsAddUp
    <2>3. QED
      BY <2>1, <2>2 DEF Documents
  <1>2. QED
    BY <1>1, Invariance, TypeCorrect, PTL DEF OrdersAddUp
=============================================================================
