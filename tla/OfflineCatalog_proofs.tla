----------------------- MODULE OfflineCatalog_proofs -----------------------
(***************************************************************************)
(* A refresh of the price list misses nothing, for any number of products, *)
(* pages of any size and refreshes broken off anywhere.                    *)
(*                                                                         *)
(* What the cursor has passed is stored as it is on the server (Passed).   *)
(* A page takes the products after the cursor from the front, so that the  *)
(* cursor never jumps over one; a row that is committed beyond the cursor  *)
(* is read again.  One committed behind it is overtaken: the later of two  *)
(* writes was committed first, and the cursor passed the other one before  *)
(* it was there.                                                           *)
(***************************************************************************)
EXTENDS OfflineCatalog, SetSums

-----------------------------------------------------------------------------
\* Pages of products in the order of their keys.

Stamps == \A p \in Product : product[p].stamp \in Nat

\* p comes before q.
Earlier(p, q) ==
    \/ product[p].stamp < product[q].stamp
    \/ product[p].stamp = product[q].stamp /\ p < q

Predecessors(later, p) == {q \in later : Earlier(q, p)}

LEMMA KeysOrder ==
  ASSUME NEW p \in Product, NEW q \in Product
  PROVE  /\ Before(SortKey(p), SortKey(q)) <=> Earlier(p, q)
         /\ SortKey(p)[1] = product[p].stamp /\ SortKey(p)[2] = p
  BY DEF Before, SortKey, Earlier

LEMMA EarlierOrders ==
  ASSUME OfflineCatalogAssumption, Stamps,
         NEW p \in Product, NEW q \in Product, NEW r \in Product
  PROVE  /\ ~Earlier(p, p)
         /\ Earlier(p, q) /\ Earlier(q, r) => Earlier(p, r)
         /\ p = q \/ Earlier(p, q) \/ Earlier(q, p)
<1>1. p \in Nat /\ q \in Nat /\ r \in Nat
  BY DEF OfflineCatalogAssumption
<1>2. product[p].stamp \in Nat /\ product[q].stamp \in Nat /\ product[r].stamp \in Nat
  BY DEF Stamps
<1> QED
  BY <1>1, <1>2 DEF Earlier

\* A set of products has a first and a last one.
IsFirst(S, r) == r \in S /\ \A p \in S : p = r \/ Earlier(r, p)
IsLast(S, r) == r \in S /\ \A p \in S : p = r \/ Earlier(p, r)

LEMMA FirstAndLast ==
  ASSUME OfflineCatalogAssumption, Stamps, NEW S \in SUBSET Product, S # {}
  PROVE  (\E r \in S : IsFirst(S, r)) /\ (\E r \in S : IsLast(S, r))
<1> DEFINE Q == {T \in SUBSET S : T # {} => /\ \E r \in T : IsFirst(T, r)
                                            /\ \E r \in T : IsLast(T, r)}
<1>1. ASSUME NEW T \in SUBSET S, \A x \in T : T \ {x} \in Q PROVE T \in Q
  <2> SUFFICES ASSUME NEW x \in T
               PROVE  (\E r \in T : IsFirst(T, r)) /\ (\E r \in T : IsLast(T, r))
    OBVIOUS
  <2>1. CASE T \ {x} = {}
    BY <2>1 DEF IsFirst, IsLast
  <2>2. CASE T \ {x} # {}
    <3>1. PICK f \in T \ {x}, l \in T \ {x} : IsFirst(T \ {x}, f) /\ IsLast(T \ {x}, l)
      BY <1>1, <2>2
    <3>2. x \in Product /\ f \in Product /\ l \in Product /\ T \subseteq Product
      OBVIOUS
    <3>3. \E r \in T : IsFirst(T, r)
      <4>1. CASE Earlier(x, f)
        <5>1. \A p \in T : p = x \/ Earlier(x, p)
          BY <3>1, <3>2, <4>1, EarlierOrders DEF IsFirst
        <5> QED
          BY <5>1 DEF IsFirst
      <4>2. CASE Earlier(f, x)
        BY <3>1, <4>2 DEF IsFirst
      <4> QED
        BY <3>1, <3>2, <4>1, <4>2, EarlierOrders
    <3>4. \E r \in T : IsLast(T, r)
      <4>1. CASE Earlier(l, x)
        <5>1. \A p \in T : p = x \/ Earlier(p, x)
          BY <3>1, <3>2, <4>1, EarlierOrders DEF IsLast
        <5> QED
          BY <5>1 DEF IsLast
      <4>2. CASE Earlier(x, l)
        BY <3>1, <4>2 DEF IsLast
      <4> QED
        BY <3>1, <3>2, <4>1, <4>2, EarlierOrders
    <3> QED
      BY <3>3, <3>4
  <2> QED
    BY <2>1, <2>2
<1>2. IsFiniteSet(S)
  BY FS_Subset DEF OfflineCatalogAssumption
<1>3. SUBSET S \subseteq Q
  <2> HIDE DEF Q
  <2> QED
    BY <1>1, <1>2, SetInduction
<1> QED
  BY <1>3

\* Where the next page starts is the key of the page's last product.
LEMMA LastKey ==
  ASSUME OfflineCatalogAssumption, Stamps, NEW S \in SUBSET Product, S # {}
  PROVE  \E r \in S : Last(S) = SortKey(r) /\ IsLast(S, r)
<1> DEFINE K == {SortKey(p) : p \in S}
           Top(k) == \A p \in S : SortKey(p) = k \/ Before(SortKey(p), k)
<1>1. PICK l \in S : IsLast(S, l)
  BY FirstAndLast
<1>2. SortKey(l) \in K /\ Top(SortKey(l))
  BY <1>1, KeysOrder DEF IsLast
<1>3. Last(S) = CHOOSE k \in K : Top(k)
  BY DEF Last
<1>4. Last(S) \in K /\ Top(Last(S))
  <2> HIDE DEF K, Top
  <2> QED
    BY <1>2, <1>3
<1>5. PICK r \in S : Last(S) = SortKey(r)
  BY <1>4
<1>6. IsLast(S, r)
  BY <1>4, <1>5, KeysOrder DEF IsLast
<1> QED
  BY <1>5, <1>6

LEMMA PageOf ==
  ASSUME NEW after
  PROVE  PageAfter(after) =
           {p \in {q \in Product : Before(after, SortKey(q))} :
              Cardinality(Predecessors({q \in Product : Before(after, SortKey(q))}, p)) < Limit}
  BY KeysOrder DEF PageAfter, Predecessors

LEMMA FewBefore ==
  ASSUME OfflineCatalogAssumption, NEW S \in SUBSET Product
  PROVE  /\ IsFiniteSet(S) /\ Cardinality(S) \in Nat
         /\ \A T \in SUBSET S : Cardinality(T) \in Nat /\ Cardinality(T) <= Cardinality(S)
  BY FS_Subset, FS_CardinalityType DEF OfflineCatalogAssumption

\* A page takes the products after the cursor from the front.
LEMMA PageIsFront ==
  ASSUME OfflineCatalogAssumption, Stamps, NEW after,
         NEW p \in Product, Before(after, SortKey(p)), NEW r \in PageAfter(after), ~Earlier(r, p)
  PROVE  p \in PageAfter(after)
<1> DEFINE later == {q \in Product : Before(after, SortKey(q))}
<1>1. r \in later /\ Cardinality(Predecessors(later, r)) < Limit
  BY PageOf
<1>2. p \in later
  OBVIOUS
<1> HIDE DEF later
<1>3. later \subseteq Product
  BY DEF later
<1>4. /\ Predecessors(later, p) \subseteq Predecessors(later, r)
      /\ Predecessors(later, r) \subseteq Product
  BY <1>1, <1>3, EarlierOrders DEF Predecessors
<1>5. /\ Cardinality(Predecessors(later, p)) <= Cardinality(Predecessors(later, r))
      /\ Cardinality(Predecessors(later, p)) \in Nat /\ Cardinality(Predecessors(later, r)) \in Nat
  BY <1>4, FewBefore
<1>6. Cardinality(Predecessors(later, p)) < Limit
  BY <1>1, <1>5 DEF OfflineCatalogAssumption
<1> QED
  BY <1>2, <1>6, PageOf DEF later

\* A page that is not full has every product after the cursor.
LEMMA ShortPageIsLast ==
  ASSUME OfflineCatalogAssumption, Stamps, NEW after, Cardinality(PageAfter(after)) # Limit,
         NEW p \in Product, Before(after, SortKey(p))
  PROVE  p \in PageAfter(after)
<1> DEFINE later == {q \in Product : Before(after, SortKey(q))}
           page == PageAfter(after)
           missing == later \ page
           Pred(q) == Predecessors(later, q)
<1>1. page = {q \in later : Cardinality(Pred(q)) < Limit}
  BY PageOf
<1>2. p \in later /\ later \subseteq Product
  OBVIOUS
<1> HIDE DEF later, page
<1>3. page \in SUBSET Product /\ missing \in SUBSET Product
  BY <1>1, <1>2
<1>4. Limit \in Nat /\ Limit > 0 /\ Cardinality(page) \in Nat
  BY <1>3, FewBefore DEF OfflineCatalogAssumption
<1>5. Cardinality(page) <= Limit
  <2>1. CASE page = {}
    BY <1>4, <2>1, FS_EmptySet
  <2>2. CASE page # {}
    <3>1. PICK l \in page : IsLast(page, l)
      BY <1>3, <2>2, FirstAndLast
    <3>2. page \ {l} \subseteq Pred(l) /\ Pred(l) \in SUBSET Product
      BY <1>1, <1>2, <3>1 DEF IsLast, Predecessors
    <3>3. /\ Cardinality(page \ {l}) <= Cardinality(Pred(l))
          /\ Cardinality(page \ {l}) \in Nat /\ Cardinality(Pred(l)) \in Nat
      <4> HIDE DEF Pred
      <4> QED
        BY <3>2, FewBefore
    <3>4. Cardinality(page \ {l}) = Cardinality(page) - 1
      BY <1>3, FewBefore, FS_RemoveElement
    <3>5. Cardinality(Pred(l)) < Limit
      BY <1>1
    <3> QED
      BY <1>4, <3>3, <3>4, <3>5
  <2> QED
    BY <2>1, <2>2
<1>6. ASSUME p \notin page PROVE FALSE
  <2>1. PICK f \in missing : IsFirst(missing, f)
    BY <1>2, <1>3, <1>6, FirstAndLast
  <2>2. f \in later /\ ~(Cardinality(Pred(f)) < Limit)
    BY <1>1, <2>1
  <2>3. Pred(f) \subseteq page
    <3> SUFFICES ASSUME NEW q \in later, Earlier(q, f), q \notin page PROVE FALSE
      BY DEF Predecessors
    <3>1. q = f \/ Earlier(f, q)
      BY <2>1 DEF IsFirst
    <3> QED
      BY <1>2, <2>2, <3>1, EarlierOrders
  <2>4. Cardinality(Pred(f)) <= Cardinality(page) /\ Cardinality(Pred(f)) \in Nat
    <3> HIDE DEF Pred
    <3> QED
      BY <1>3, <2>3, FewBefore
  <2>5. Cardinality(page) # Limit
    BY DEF page
  <2> QED
    BY <1>4, <1>5, <2>2, <2>4, <2>5
<1> QED
  BY <1>6 DEF page

-----------------------------------------------------------------------------
\* Shapes, and what is charged.

Row == [price : Price, active : BOOLEAN, stamp : 1..MaxClock]
Types ==
    /\ product \in [Product -> Row]
    /\ writing \in [Product -> Row \cup {NoRow}]
    /\ clock \in 1..MaxClock /\ leases \in 1..MaxLeases
    /\ cache \in [Product -> Price \cup {0}] /\ shown \in [Product -> Price \cup {0}]
    /\ cursor \in Nat \X Nat
    /\ walk \in [at : {"idle", "page", "done"}, after : Nat \X Nat, still : SUBSET Product]
    /\ item = NoItem \/ item \in [product : Product, price : Price]
    /\ queued \subseteq [shown : Price, charged : Price] /\ ChargedAsShown
    /\ overtaken \subseteq Product

LEMMA TypesStamps == ASSUME Types PROVE Stamps
  BY DEF Types, Stamps, Row

LEMMA TypesInit == ASSUME OfflineCatalogAssumption, Init PROVE Types
<1>1. PICK pr \in Price :
        product = [p \in Product |-> [price |-> pr, active |-> TRUE, stamp |-> 1]]
  BY Zenon DEF Init
<1>2. 1 \in 1..MaxClock /\ 2 \in 1..MaxClock /\ 1 \in 1..MaxLeases
  BY DEF OfflineCatalogAssumption
<1>3. product \in [Product -> Row]
  BY <1>1, <1>2 DEF Row
<1> QED
  BY <1>2, <1>3 DEF Init, Types, Empty, Start, ChargedAsShown

\* What a page changes.
PageMoves(page) ==
    /\ walk.at = "page" /\ page = PageAfter(walk.after)
    /\ cache' \in [Product -> Price \cup {0}]
    /\ \A p \in Product : cache'[p] = IF p \in page THEN Merged(p) ELSE cache[p]
    /\ shown' = shown \/ shown' = cache'
    /\ walk'.at = (IF Cardinality(page) = Limit THEN "page" ELSE "done")
    /\ walk'.still = walk.still
    /\ IF page = {} THEN cursor' = cursor /\ walk'.after = walk.after
       ELSE \E r \in page : cursor' = SortKey(r) /\ walk'.after = SortKey(r) /\ IsLast(page, r)
    /\ walk' \in [at : {"page", "done"}, after : Nat \X Nat, still : SUBSET Product]
    /\ cursor' \in Nat \X Nat
    /\ UNCHANGED << product, writing, clock, item, queued, leases, overtaken >>

LEMMA PageStep ==
  ASSUME OfflineCatalogAssumption, Types, Page
  PROVE  \E page \in SUBSET Product : PageMoves(page)
<1>1. PICK page \in SUBSET Product : page = PageAfter(walk.after)
  BY DEF PageAfter
<1> DEFINE copy == [p \in Product |-> IF p \in page THEN Merged(p) ELSE cache[p]]
           more == Cardinality(page) = Limit
           goesOn == IF page = {} THEN walk.after ELSE Last(page)
<1>2. /\ walk.at = "page" /\ cache' = copy
      /\ cursor' = (IF page = {} THEN cursor ELSE Last(page))
      /\ walk' = [walk EXCEPT !.at = IF more THEN "page" ELSE "done", !.after = goesOn]
      /\ shown' = (IF more THEN shown ELSE copy)
  BY <1>1, Zenon DEF Page, NextAfter
<1>3. UNCHANGED << product, writing, clock, item, queued, leases, overtaken >>
  BY DEF Page, rows, sales
<1>4. \A p \in Product : Merged(p) \in Price \cup {0} /\ cache[p] \in Price \cup {0}
  BY DEF Types, Row, Merged
<1>5. copy \in [Product -> Price \cup {0}]
      /\ \A p \in Product : copy[p] = IF p \in page THEN Merged(p) ELSE cache[p]
  <2> HIDE DEF Merged
  <2> QED
    BY <1>4
<1>6. page # {} => \E r \in page : Last(page) = SortKey(r) /\ IsLast(page, r)
  BY TypesStamps, LastKey
<1>7. \A r \in Product : SortKey(r) \in Nat \X Nat
  BY TypesStamps DEF SortKey, Stamps, OfflineCatalogAssumption
<1>8. goesOn \in Nat \X Nat /\ cursor' \in Nat \X Nat
  <2>1. CASE page = {}
    BY <1>2, <2>1 DEF Types
  <2>2. CASE page # {}
    <3>1. Last(page) \in Nat \X Nat
      BY <1>6, <1>7, <2>2
    <3> QED
      BY <1>2, <2>2, <3>1
  <2> QED
    BY <2>1, <2>2
<1> HIDE DEF copy, goesOn
<1>9. /\ walk'.at = (IF Cardinality(page) = Limit THEN "page" ELSE "done")
      /\ walk'.after = goesOn /\ walk'.still = walk.still
      /\ walk' \in [at : {"page", "done"}, after : Nat \X Nat, still : SUBSET Product]
  BY <1>2, <1>8 DEF Types
<1>10. shown' = shown \/ shown' = cache'
  BY <1>2
<1>11. IF page = {} THEN cursor' = cursor /\ walk'.after = walk.after
       ELSE \E r \in page : cursor' = SortKey(r) /\ walk'.after = SortKey(r) /\ IsLast(page, r)
  <2>1. CASE page = {}
    BY <1>2, <1>9, <2>1 DEF goesOn
  <2>2. CASE page # {}
    <3>1. cursor' = Last(page) /\ walk'.after = Last(page)
      BY <1>2, <1>9, <2>2 DEF goesOn
    <3> QED
      BY <1>6, <2>2, <3>1
  <2> QED
    BY <2>1, <2>2
<1>12. /\ cache' \in [Product -> Price \cup {0}]
       /\ \A p \in Product : cache'[p] = IF p \in page THEN Merged(p) ELSE cache[p]
  <2>1. cache' = copy
    BY <1>2
  <2> HIDE DEF Merged
  <2> QED
    BY <1>5, <2>1
<1>13. PageMoves(page)
  BY <1>1, <1>2, <1>3, <1>8, <1>9, <1>10, <1>11, <1>12, Zenon DEF PageMoves
<1> QED
  BY <1>13

LEMMA TypesStep ==
  ASSUME OfflineCatalogAssumption, Types, [Next]_vars
  PROVE  Types'
<1>1. CASE Tick
  BY <1>1 DEF Tick, Types, sales, ChargedAsShown, OfflineCatalogAssumption
<1>2. CASE Refresh
  BY <1>2 DEF Refresh, Types, rows, sales, ChargedAsShown, Writing
<1>3. CASE Page
  <2>1. PICK page \in SUBSET Product : PageMoves(page)
    BY <1>3, PageStep
  <2>2. /\ cache' \in [Product -> Price \cup {0}] /\ (shown' = shown \/ shown' = cache')
        /\ walk' \in [at : {"page", "done"}, after : Nat \X Nat, still : SUBSET Product]
        /\ cursor' \in Nat \X Nat
        /\ UNCHANGED << product, writing, clock, item, queued, leases, overtaken >>
    BY <2>1, Zenon DEF PageMoves
  <2> QED
    BY <2>2 DEF Types, ChargedAsShown
<1>4. CASE Break
  BY <1>4 DEF Break, Types, rows, sales, ChargedAsShown
<1>5. CASE NewLease
  BY <1>5 DEF NewLease, Types, rows, sales, ChargedAsShown, Writing, Empty, Start,
              OfflineCatalogAssumption
<1>6. CASE Queue
  <2>1. /\ item # NoItem /\ cache[item.product] = item.price /\ item' = NoItem
        /\ queued' = queued \cup {[shown |-> item.price, charged |-> cache[item.product]]}
        /\ UNCHANGED << product, writing, clock, cache, cursor, walk, shown, leases, overtaken >>
    BY <1>6 DEF Queue, SamePrice, rows
  <2>2. item.price \in Price
    BY <2>1 DEF Types
  <2> QED
    BY <2>1, <2>2 DEF Types, ChargedAsShown
<1>7. CASE RefreshTicket
  BY <1>7 DEF RefreshTicket, Types, rows, ChargedAsShown
<1>8. ASSUME NEW p \in Product, Write(p) PROVE Types'
  <2>1. PICK pr \in Price, on \in BOOLEAN :
          writing' = [writing EXCEPT ![p] = [price |-> pr, active |-> on, stamp |-> clock]]
    BY <1>8, Zenon DEF Write
  <2>2. [price |-> pr, active |-> on, stamp |-> clock] \in Row
    BY DEF Row, Types
  <2>3. writing' \in [Product -> Row \cup {NoRow}]
    BY <2>1, <2>2 DEF Types
  <2>4. /\ walk' = [walk EXCEPT !.still = @ \ {p}]
        /\ UNCHANGED << product, clock, cache, cursor, shown, item, queued, leases,
                        overtaken >>
    BY <1>8 DEF Write, sales
  <2> QED
    BY <2>3, <2>4 DEF Types, ChargedAsShown
<1>9. ASSUME NEW p \in Product, Commit(p) PROVE Types'
  <2>1. /\ writing[p] # NoRow /\ product' = [product EXCEPT ![p] = writing[p]]
        /\ writing' = [writing EXCEPT ![p] = NoRow]
        /\ overtaken' \subseteq overtaken \cup {p}
        /\ UNCHANGED << clock, cache, cursor, walk, shown, item, queued, leases >>
    BY <1>9 DEF Commit, sales
  <2>2. writing[p] \in Row
    BY <2>1 DEF Types
  <2> QED
    BY <2>1, <2>2 DEF Types, ChargedAsShown
<1>10. ASSUME NEW p \in Product, Scan(p) PROVE Types'
  <2>1. /\ shown[p] # 0 /\ item' = [product |-> p, price |-> shown[p]]
        /\ UNCHANGED << product, writing, clock, cache, cursor, walk, shown, queued, leases,
                        overtaken >>
    BY <1>10 DEF Scan, rows
  <2>2. shown[p] \in Price
    BY <2>1 DEF Types
  <2> QED
    BY <2>1, <2>2 DEF Types, ChargedAsShown
<1>11. CASE UNCHANGED vars
  BY <1>11 DEF vars, rows, sales, Types, ChargedAsShown
<1> QED
  BY <1>1, <1>2, <1>3, <1>4, <1>5, <1>6, <1>7, <1>8, <1>9, <1>10, <1>11, Zenon DEF Next

\* Rows, copies and queued sales keep their shapes.
THEOREM TypeCorrect == OfflineCatalogAssumption => (Spec => [](Types /\ TypeOK))
<1> SUFFICES ASSUME OfflineCatalogAssumption PROVE Spec => [](Types /\ TypeOK)
  OBVIOUS
<1>1. Types => TypeOK
  BY DEF Types, TypeOK, Row
<1> QED
  BY <1>1, TypesInit, TypesStep, PTL DEF Spec

\* A sale queued offline charges the price its ticket showed, although the
\* stored prices change under it (database.ts queueOffline).
THEOREM ChargesAsShown == OfflineCatalogAssumption => (Spec => []ChargedAsShown)
<1> SUFFICES ASSUME OfflineCatalogAssumption PROVE Spec => []ChargedAsShown
  OBVIOUS
<1>1. Types => ChargedAsShown
  BY DEF Types
<1> QED
  BY <1>1, TypeCorrect, PTL

-----------------------------------------------------------------------------
\* What the cursor has passed

\* Stamps are of the past, and a row's next one is no earlier than its last.
Stamped ==
    \A p \in Product :
        /\ product[p].stamp <= clock
        /\ writing[p] # NoRow =>
             product[p].stamp <= writing[p].stamp /\ writing[p].stamp <= clock

\* The cursor is not beyond the committed rows.
Behind == cursor[1] = 0 \/ \E q \in Product : cursor[1] <= product[q].stamp

\* What the cursor has passed is stored as it is on the server.
Passed ==
    \A p \in Product \ overtaken : ~Before(cursor, SortKey(p)) => cache[p] = Merged(p)

Walking == walk.at = "page" => walk.after = cursor
Unwritten == \A p \in walk.still : writing[p] = NoRow

IInv == Stamped /\ Behind /\ Passed /\ Walking /\ Unwritten /\ CaughtUp

LEMMA StartIsFirst == ASSUME Types, NEW p \in Product PROVE Before(Start, SortKey(p))
  BY DEF Types, Row, Before, Start, SortKey

LEMMA IInvInit == ASSUME OfflineCatalogAssumption, Init PROVE IInv
<1>1. Types
  BY TypesInit
<1>2. Passed
  BY <1>1, StartIsFirst DEF Passed, Init
<1>3. Stamped
  BY DEF Init, Stamped
<1>4. Behind /\ Walking /\ Unwritten /\ CaughtUp
  BY DEF Init, Behind, Walking, Unwritten, CaughtUp, Start
<1> QED
  BY <1>2, <1>3, <1>4 DEF IInv

\* Steps that leave the rows and the stored copy alone.
LEMMA Idles ==
  ASSUME Types, IInv, UNCHANGED << product, writing, cache, cursor, overtaken >>,
         clock' \in Nat, clock <= clock',
         walk' = walk \/ (walk'.at = "idle" /\ walk'.still = walk.still)
           \/ (walk'.at = "page" /\ walk'.after = cursor /\ walk'.still = Product \ Writing)
  PROVE  IInv'
<1>1. Stamped'
  <2>1. \A p \in Product : /\ product[p].stamp \in Nat
                           /\ writing[p] # NoRow => writing[p].stamp \in Nat
    BY DEF Types, Row
  <2>2. clock \in Nat
    BY DEF Types
  <2> QED
    BY <2>1, <2>2 DEF IInv, Stamped
<1>2. Behind'
  BY DEF IInv, Behind
<1>3. Passed'
  BY DEF IInv, Passed, SortKey, Merged
<1>4. Walking' /\ Unwritten'
  BY DEF IInv, Walking, Unwritten, Writing
<1>5. CaughtUp'
  BY DEF IInv, CaughtUp
<1> QED
  BY <1>1, <1>2, <1>3, <1>4, <1>5 DEF IInv

LEMMA PageKeeps == ASSUME OfflineCatalogAssumption, Types, IInv, Page PROVE IInv'
<1>1. PICK page \in SUBSET Product : PageMoves(page)
  BY PageStep
<1>2. /\ walk.at = "page" /\ page = PageAfter(cursor)
      /\ \A p \in Product : cache'[p] = IF p \in page THEN Merged(p) ELSE cache[p]
      /\ walk'.at = (IF Cardinality(page) = Limit THEN "page" ELSE "done")
      /\ walk'.still = walk.still
      /\ IF page = {} THEN cursor' = cursor /\ walk'.after = walk.after
         ELSE \E r \in page : cursor' = SortKey(r) /\ walk'.after = SortKey(r) /\ IsLast(page, r)
      /\ product' = product /\ writing' = writing /\ clock' = clock /\ overtaken' = overtaken
  BY <1>1, Zenon DEF PageMoves, IInv, Walking
<1>3. Stamps
  BY TypesStamps
<1>4. \A p \in Product : Merged(p)' = Merged(p) /\ SortKey(p)' = SortKey(p)
  BY <1>2 DEF Merged, SortKey
<1>5. \A p \in Product \ page : p \notin overtaken /\ ~Before(cursor, SortKey(p))
                                  => cache'[p] = Merged(p)
  BY <1>2 DEF IInv, Passed
<1>6. \A p \in page : cache'[p] = Merged(p)
  BY <1>2
<1>7. Stamped'
  BY <1>2 DEF IInv, Stamped
<1>8. Unwritten'
  BY <1>2 DEF IInv, Unwritten
<1>9. Walking'
  BY <1>2 DEF IInv, Walking
<1>10. Behind'
  <2>1. CASE page = {}
    BY <1>2, <2>1 DEF IInv, Behind
  <2>2. CASE page # {}
    <3>1. PICK r \in page : cursor' = SortKey(r)
      BY <1>2, <2>2
    <3>2. r \in Product /\ cursor'[1] = product[r].stamp /\ product[r].stamp \in Nat
      BY <1>3, <3>1, KeysOrder DEF Stamps
    <3> QED
      BY <1>2, <3>2 DEF Behind
  <2> QED
    BY <2>1, <2>2
<1>11. Passed'
  <2> SUFFICES ASSUME NEW p \in Product, p \notin page, p \notin overtaken,
                      ~Before(cursor', SortKey(p))
               PROVE  cache'[p] = Merged(p)
    BY <1>2, <1>4, <1>6 DEF Passed
  <2>1. CASE page = {}
    BY <1>2, <1>5, <2>1
  <2>2. CASE page # {}
    <3>1. PICK r \in page : cursor' = SortKey(r)
      BY <1>2, <2>2
    <3>2. r \in Product /\ ~Earlier(r, p)
      BY <3>1, KeysOrder
    <3>3. ~Before(cursor, SortKey(p))
      BY <1>2, <1>3, <3>2, PageIsFront
    <3> QED
      BY <1>5, <3>3
  <2> QED
    BY <2>1, <2>2
<1>12. CaughtUp'
  <2>1. walk'.at = "done" => \A p \in Product \ overtaken : cache'[p] = Merged(p)
    <3> SUFFICES ASSUME walk'.at = "done", NEW p \in Product, p \notin page, p \notin overtaken
                 PROVE  cache'[p] = Merged(p)
      BY <1>6
    <3>1. Cardinality(page) # Limit
      BY <1>2
    <3>2. ~Before(cursor, SortKey(p))
      BY <1>2, <1>3, <3>1, ShortPageIsLast
    <3> QED
      BY <1>5, <3>2
  <2>2. walk'.still \subseteq Product
    BY <1>2 DEF Types
  <2> QED
    BY <1>2, <1>4, <2>1, <2>2 DEF CaughtUp, Merged
<1> QED
  BY <1>7, <1>8, <1>9, <1>10, <1>11, <1>12 DEF IInv

LEMMA WriteKeeps ==
  ASSUME OfflineCatalogAssumption, Types, IInv, NEW p \in Product, Write(p)
  PROVE  IInv'
<1>1. PICK pr \in Price, on \in BOOLEAN :
        writing' = [writing EXCEPT ![p] = [price |-> pr, active |-> on, stamp |-> clock]]
  BY Zenon DEF Write
<1>2. /\ walk' = [walk EXCEPT !.still = @ \ {p}]
      /\ UNCHANGED << product, clock, cache, cursor, overtaken >>
  BY DEF Write
<1>3. writing'[p].stamp = clock /\ \A q \in Product : q # p => writing'[q] = writing[q]
  BY <1>1 DEF Types
<1>4. walk'.at = walk.at /\ walk'.after = walk.after /\ walk'.still = walk.still \ {p}
  BY <1>2 DEF Types
<1>5. Stamped'
  <2>1. clock \in Nat
    BY DEF Types
  <2> QED
    BY <1>2, <1>3, <2>1 DEF IInv, Stamped
<1>6. Unwritten'
  BY <1>3, <1>4 DEF IInv, Unwritten, Types
<1>7. Behind' /\ Walking'
  BY <1>2, <1>4 DEF IInv, Behind, Walking
<1>8. Passed'
  BY <1>2 DEF IInv, Passed, SortKey, Merged
<1>9. CaughtUp'
  BY <1>2, <1>4 DEF IInv, CaughtUp
<1> QED
  BY <1>5, <1>6, <1>7, <1>8, <1>9 DEF IInv

\* A row that is committed lies beyond the cursor, or is overtaken.
LEMMA CommitKeeps ==
  ASSUME OfflineCatalogAssumption, Types, IInv, NEW p \in Product, Commit(p)
  PROVE  IInv'
<1>1. /\ writing[p] # NoRow /\ product' = [product EXCEPT ![p] = writing[p]]
      /\ writing' = [writing EXCEPT ![p] = NoRow]
      /\ UNCHANGED << clock, cache, cursor, walk >>
  BY DEF Commit
<1>2. /\ product'[p] = writing[p] /\ writing[p].stamp \in Nat \ {0}
      /\ \A q \in Product : q # p => product'[q] = product[q]
  BY <1>1 DEF Types, Row
<1>3. /\ writing'[p] = NoRow /\ \A q \in Product : q # p => writing'[q] = writing[q]
      /\ \A q \in Product : product[q].stamp \in Nat
  BY <1>1, TypesStamps DEF Types, Stamps
<1>4. product[p].stamp <= writing[p].stamp /\ writing[p].stamp <= clock
  BY <1>1 DEF IInv, Stamped
<1>5. \/ Before(cursor, << writing[p].stamp, p >>) /\ overtaken' = overtaken \ {p}
      \/ ~Before(cursor, << writing[p].stamp, p >>) /\ overtaken' = overtaken \cup {p}
  BY DEF Commit
<1>6. SortKey(p)' = << writing[p].stamp, p >>
      /\ \A q \in Product : q # p => SortKey(q)' = SortKey(q) /\ Merged(q)' = Merged(q)
  BY <1>2 DEF SortKey, Merged
<1>7. Stamped' /\ Unwritten'
  BY <1>1, <1>2, <1>3, <1>4 DEF IInv, Stamped, Unwritten
<1>8. Behind'
  <2>1. cursor[1] \in Nat
    BY DEF Types
  <2> QED
    BY <1>1, <1>2, <1>3, <1>4, <2>1 DEF IInv, Behind
<1>9. Passed'
  BY <1>1, <1>5, <1>6 DEF IInv, Passed
<1>10. Walking'
  BY <1>1 DEF IInv, Walking
<1>11. CaughtUp'
  <2>1. p \notin walk.still
    BY <1>1 DEF IInv, Unwritten
  <2>2. \A q \in walk.still : /\ product'[q] = product[q]
                              /\ q \in overtaken' <=> q \in overtaken
    BY <1>2, <1>5, <2>1 DEF Types
  <2> QED
    BY <1>1, <2>2 DEF IInv, CaughtUp
<1> QED
  BY <1>7, <1>8, <1>9, <1>10, <1>11 DEF IInv

LEMMA LeaseKeeps == ASSUME Types, Types', IInv, NewLease PROVE IInv'
<1>1. /\ cursor' = Start /\ walk' = [at |-> "page", after |-> Start, still |-> Product \ Writing]
      /\ product' = product /\ writing' = writing /\ clock' = clock
  BY DEF NewLease, rows
<1>2. Passed'
  <2>1. \A p \in Product : Before(Start, SortKey(p))'
    BY <1>1, StartIsFirst DEF SortKey, Start, Before
  <2> QED
    BY <1>1, <2>1 DEF Passed
<1>3. Stamped' /\ Behind' /\ Walking' /\ Unwritten' /\ CaughtUp'
  BY <1>1 DEF IInv, Stamped, Behind, Walking, Unwritten, CaughtUp, Start, Writing
<1> QED
  BY <1>2, <1>3 DEF IInv

LEMMA IInvStep ==
  ASSUME OfflineCatalogAssumption, Types, Types', IInv, [Next]_vars
  PROVE  IInv'
<1>1. clock \in Nat /\ clock' \in Nat
  BY DEF Types
<1>2. CASE Tick
  BY <1>1, <1>2, Idles DEF Tick
<1>3. CASE Queue \/ RefreshTicket \/ UNCHANGED vars
  BY <1>1, <1>3, Idles DEF Queue, RefreshTicket, vars, rows
<1>4. CASE Refresh
  BY <1>1, <1>4, Idles DEF Refresh, rows
<1>5. CASE Break
  BY <1>1, <1>5, Idles DEF Break, rows, Types
<1>6. ASSUME NEW p \in Product, Scan(p) PROVE IInv'
  BY <1>1, <1>6, Idles DEF Scan, rows
<1> QED
  BY <1>2, <1>3, <1>4, <1>5, <1>6, PageKeeps, LeaseKeeps, WriteKeeps, CommitKeeps, Zenon
     DEF Next

\* A row is overtaken only when it is committed behind the cursor, and the
\* cursor never is beyond the committed rows.
LEMMA OvertakenStep ==
  ASSUME OfflineCatalogAssumption, Types, IInv, [Next]_vars, NEW p \in overtaken' \ overtaken
  PROVE  \E q \in Product : product[q].stamp >= writing[p].stamp
<1>1. p \in Product /\ Commit(p)
  <2>1. p \in overtaken' /\ p \notin overtaken
    OBVIOUS
  <2>2. ~(Tick \/ Refresh \/ Page \/ Break \/ NewLease \/ Queue \/ RefreshTicket \/ UNCHANGED vars)
    BY <2>1 DEF Tick, Refresh, Page, Break, NewLease, Queue, RefreshTicket, vars
  <2>3. \A q \in Product : ~Write(q) /\ ~Scan(q)
    BY <2>1 DEF Write, Scan
  <2>4. PICK q \in Product : Commit(q)
    BY <2>2, <2>3, Zenon DEF Next
  <2>5. p = q
    BY <2>1, <2>4 DEF Commit
  <2> QED
    BY <2>4, <2>5
<1>2. ~Before(cursor, << writing[p].stamp, p >>) /\ writing[p] # NoRow
  BY <1>1 DEF Commit
<1>3. writing[p].stamp \in Nat \ {0} /\ cursor[1] \in Nat /\ cursor[2] \in Nat
  BY <1>1, <1>2 DEF Types, Row
<1>4. ~(cursor[1] < writing[p].stamp)
  BY <1>2 DEF Before
<1>5. PICK q \in Product : cursor[1] <= product[q].stamp
  BY <1>3, <1>4 DEF IInv, Behind
<1>6. product[q].stamp \in Nat
  BY TypesStamps DEF Stamps
<1> QED
  BY <1>3, <1>4, <1>5, <1>6

THEOREM Invariance == OfflineCatalogAssumption => (Spec => []IInv)
<1> SUFFICES ASSUME OfflineCatalogAssumption PROVE Spec => []IInv
  OBVIOUS
<1>1. Types /\ Types' /\ IInv /\ [Next]_vars => IInv'
  BY IInvStep
<1> QED
  BY <1>1, IInvInit, TypeCorrect, PTL DEF Spec

\* A complete refresh leaves every product that was not rewritten since it
\* began as it is on the server, unless another write overtook the product's,
\* for any number of products, pages of any size, writes that overlap in any
\* way and refreshes broken off anywhere (offline.service.ts catalog and
\* stores/offline.ts prepareOnce).
THEOREM RefreshMissesNothing == OfflineCatalogAssumption => (Spec => []CaughtUp)
<1> SUFFICES ASSUME OfflineCatalogAssumption PROVE Spec => []CaughtUp
  OBVIOUS
<1>1. IInv => CaughtUp
  BY DEF IInv
<1> QED
  BY <1>1, Invariance, PTL

\* A row can be overtaken only by a write that was stamped no earlier and
\* committed first: rows written one after the other, at different times, never
\* are.
THEOREM OvertakenByAnother == OfflineCatalogAssumption => (Spec => OvertakenByLater)
<1> SUFFICES ASSUME OfflineCatalogAssumption PROVE Spec => OvertakenByLater
  OBVIOUS
<1>1. Types /\ IInv /\ [Next]_vars =>
        [\A p \in overtaken' \ overtaken :
           \E q \in Product : product[q].stamp >= writing[p].stamp]_vars
  BY OvertakenStep
<1> QED
  BY <1>1, Invariance, TypeCorrect, PTL DEF Spec, OvertakenByLater
=============================================================================
