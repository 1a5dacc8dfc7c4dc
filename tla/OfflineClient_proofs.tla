------------------------ MODULE OfflineClient_proofs ------------------------
(***************************************************************************)
(* Cash taken offline is never lost, for any number of tabs, tickets,      *)
(* shifts and leases, however the network drops and tabs reload; and what  *)
(* a cashier's own close may leave of it behind, and how.                  *)
(*                                                                         *)
(* A sale that was queued is kept: it is in the outbox, or the server has  *)
(* recorded it (Kept).  What is on its way to the server is kept, so that  *)
(* a sale still being queued is not among it; and an answer that removes a *)
(* sale from the outbox tells of a recorded one.                           *)
(***************************************************************************)
EXTENDS OfflineClient, TLAPS

NoLease == 0..MaxLeases
NoShift == 0..MaxShifts
State_ == [lease : NoLease, suspended : BOOLEAN, cached : BOOLEAN]
Entry == [lease : NoLease, blocked : BOOLEAN]
Tab_ == [shift : NoShift, lease : NoLease, connected : BOOLEAN]
Prep_ == [at : {"idle", "asked", "granted", "saved"},
          shift : NoShift, lease : NoLease, warm : NoLease]
Upload_ == [at : {"idle", "next", "sent", "answered"}, rows : SUBSET Key,
            key : Key \cup {NoKey}, lease : NoLease, ok : BOOLEAN]
Closing_ == [at : {"idle", "syncing", "releasing", "closing"}, lease : NoLease]
Sale_ == [at : {"idle", "queueing", "queued", "online", "answered"},
          key : Key \cup {NoKey}, lease : NoLease]

TabShapes ==
    /\ state \in State_
    /\ tab \in [Tab -> Tab_] /\ prep \in [Tab -> Prep_] /\ closing \in [Tab -> Closing_]
    /\ lease \in [Leases -> [shift : NoShift, active : BOOLEAN]]
    /\ shift \in [Shifts -> {"NONE", "OPEN", "OWN", "FORCED"}]
    /\ net \in BOOLEAN /\ drops \in 0..MaxDrops /\ reloads \in 0..MaxReloads

CashShapes ==
    /\ outbox \in [Key -> Entry]
    /\ sync \in [Tab -> Upload_]
    /\ sell \in Sale_
    /\ attempt \in Key \cup {NoKey} /\ taken \subseteq Key
    /\ recorded \in [Key -> {"no", "online", "offline"}]

Kept(k) == outbox[k] # NoEntry \/ recorded[k] = "offline"

\* What an upload carries, and what its answer tells.
UploadHolds(t) ==
    /\ sync[t].at = "next" => sync[t].rows # {}
    /\ \A k \in sync[t].rows : Kept(k)
    /\ sync[t].at \in {"sent", "answered"} => sync[t].key \in Key /\ Kept(sync[t].key)
    /\ sync[t].at = "answered" /\ sync[t].ok => recorded[sync[t].key] = "offline"

\* The sale being submitted is the attempt's; one being queued is new, a queued
\* one is kept.
SaleHolds ==
    /\ sell.at # "idle" => sell.key \in Key /\ sell.key = attempt
    /\ sell.at = "queueing" =>
         ~Kept(sell.key) /\ recorded[sell.key] = "no" /\ sell.lease # 0
    /\ sell.at = "queued" => Kept(sell.key)

CashHolds == \A k \in taken : Kept(k)

CashIInv == (\A t \in Tab : UploadHolds(t)) /\ SaleHolds /\ CashHolds

IInv == TabShapes /\ CashShapes /\ CashIInv

-----------------------------------------------------------------------------
\* The close of a shift

LockShape == lockout \in [Shifts -> {"none", "locked", "lifted"}]

IsGranted(l) == l \in Leases /\ lease[l].shift # 0

\* A lease a tab or a sale knows of was granted; a tab prepares for a shift.
KnownGranted ==
    /\ state.lease # 0 => IsGranted(state.lease)
    /\ \A t \in Tab : /\ prep[t].lease # 0 => IsGranted(prep[t].lease)
                      /\ prep[t].at # "idle" => prep[t].shift # 0
    /\ \A k \in Key : outbox[k] # NoEntry => IsGranted(outbox[k].lease)
    /\ sell.at = "queueing" => IsGranted(sell.lease)

\* While the tabs are locked out of a shift's leases, the stored one is not used
\* if it is such a lease, and no sale of that shift waits.
LockHolds(s) ==
    lockout[s] = "locked" =>
      /\ ShiftOf(state.lease) = s => state.suspended
      /\ \A k \in Key : outbox[k] # NoEntry => lease[outbox[k].lease].shift # s

\* A lease is released, and the shift closed by its cashier, after the tabs were
\* locked out of the shift's leases.
LockedFirst ==
    /\ \A t \in Tab : closing[t].at = "releasing" =>
         /\ IsGranted(closing[t].lease)
         /\ lockout[lease[closing[t].lease].shift] # "none"
    /\ \A l \in Leases :
         IsGranted(l) /\ (~lease[l].active \/ shift[lease[l].shift] = "OWN")
           => lockout[lease[l].shift] # "none"

CloseHolds == (\A s \in Shifts : LockHolds(s)) /\ LockedFirst

CloseIInv == IInv /\ LockShape /\ KnownGranted /\ CloseHolds

-----------------------------------------------------------------------------

\* Where counting starts, and what a lease or a shift may be.
LEMMA Zero == OfflineClientAssumption => /\ 0 \in NoLease /\ 0 \in NoShift
                                         /\ Leases \subseteq NoLease /\ Shifts \subseteq NoShift
                                         /\ \A l \in NoLease : l = 0 \/ l \in Leases
                                         /\ \A s \in NoShift : s = 0 \/ s \in Shifts
                                         /\ 0 \notin Leases /\ 0 \notin Shifts
  BY DEF OfflineClientAssumption, NoLease, NoShift, Leases, Shifts

LEMMA NoEntryShape == OfflineClientAssumption => NoEntry \in Entry
  BY Zero DEF NoEntry, Entry

LEMMA ShiftOfShape ==
  ASSUME OfflineClientAssumption, TabShapes, NEW l \in NoLease
  PROVE  ShiftOf(l) \in NoShift
  BY Zero DEF ShiftOf, TabShapes

LEMMA OpenShiftShape == OpenShift \subseteq Shifts
  BY DEF OpenShift

-----------------------------------------------------------------------------
\* The shapes of the tabs and of the server's leases and shifts

LEMMA InitTabShapes == OfflineClientAssumption /\ Init => TabShapes
<1> SUFFICES ASSUME OfflineClientAssumption, Init PROVE TabShapes
  OBVIOUS
<1> USE Zero
<1>1. state \in State_
  BY DEF Init, State_
<1>2. tab \in [Tab -> Tab_] /\ closing \in [Tab -> Closing_]
  BY DEF Init, Tab_, Closing_, NotClosing
<1>3. prep \in [Tab -> Prep_]
  BY DEF Init, Prep_, NotPreparing
<1>4. lease \in [Leases -> [shift : NoShift, active : BOOLEAN]]
  BY DEF Init
<1>5. shift \in [Shifts -> {"NONE", "OPEN", "OWN", "FORCED"}] /\ net \in BOOLEAN
  BY DEF Init
<1>6. drops \in 0..MaxDrops /\ reloads \in 0..MaxReloads
  BY DEF Init, OfflineClientAssumption
<1> QED
  BY <1>1, <1>2, <1>3, <1>4, <1>5, <1>6 DEF TabShapes

LEMMA NetDownShapes == OfflineClientAssumption /\ TabShapes /\ NetDown => TabShapes'
<1> SUFFICES ASSUME OfflineClientAssumption, TabShapes, NetDown PROVE TabShapes'
  OBVIOUS
<1>1. tab' \in [Tab -> Tab_]
  BY DEF NetDown, TabShapes, Tab_
<1>2. drops < MaxDrops /\ drops' = drops + 1 /\ net' = FALSE
  BY Zenon DEF NetDown
<1>3. drops' \in 0..MaxDrops
  BY <1>2 DEF TabShapes, OfflineClientAssumption
<1>4. net' \in BOOLEAN
  BY Zenon, <1>2
<1> QED
  BY <1>1, <1>3, <1>4 DEF NetDown, TabShapes, db, flows, till, server

LEMMA ReloadShapes ==
  ASSUME OfflineClientAssumption, TabShapes, NEW t \in Tab, Reload(t) PROVE TabShapes'
<1> USE Zero
<1>1. state.lease \in NoLease
  BY DEF TabShapes, State_
<1>2. PICK s \in IF net THEN IF OpenShift = {} THEN {0} ELSE OpenShift
                 ELSE {IF state.cached /\ ~state.suspended THEN ShiftOf(state.lease) ELSE 0} :
        tab' = [tab EXCEPT ![t] = [shift |-> s, lease |-> state.lease, connected |-> net]]
  BY Zenon DEF Reload
<1>3. s \in NoShift
  BY <1>1, <1>2, ShiftOfShape, OpenShiftShape
<1>4. tab' \in [Tab -> Tab_]
  BY <1>1, <1>2, <1>3 DEF TabShapes, Tab_
<1>5. prep' \in [Tab -> Prep_] /\ closing' \in [Tab -> Closing_]
  BY DEF Reload, TabShapes, Prep_, Closing_, NotPreparing, NotClosing
<1>6. reloads' \in 0..MaxReloads
  BY DEF Reload, TabShapes, OfflineClientAssumption
<1>7. UNCHANGED << state, server, net, drops >>
  BY Zenon DEF Reload, db
<1> QED
  BY <1>4, <1>5, <1>6, <1>7 DEF TabShapes, server

LEMMA OpenShapes ==
  ASSUME OfflineClientAssumption, TabShapes, NEW t \in Tab, Open(t) PROVE TabShapes'
<1> USE Zero
<1>1. PICK s \in Shifts : shift' = [shift EXCEPT ![s] = "OPEN"]
                          /\ tab' = [tab EXCEPT ![t].shift = s]
  BY Zenon DEF Open
<1>2. tab' \in [Tab -> Tab_] /\ shift' \in [Shifts -> {"NONE", "OPEN", "OWN", "FORCED"}]
  BY <1>1 DEF TabShapes, Tab_
<1>3. UNCHANGED << db, flows, lease, world >>
  BY Zenon DEF Open
<1> QED
  BY <1>2, <1>3 DEF TabShapes, db, flows, world

LEMMA ForceCloseShapes == TabShapes /\ ForceClose => TabShapes'
  BY DEF ForceClose, TabShapes, db, flows, world

LEMMA AskLeaseShapes ==
  ASSUME OfflineClientAssumption, TabShapes, NEW t \in Tab, AskLease(t) PROVE TabShapes'
<1> USE Zero
<1>1. PICK w \in NoLease :
        prep' = [prep EXCEPT ![t] = [at |-> "asked", shift |-> tab[t].shift, lease |-> 0, warm |-> w]]
  BY DEF AskLease, TabShapes, State_
<1>2. prep' \in [Tab -> Prep_]
  BY <1>1 DEF TabShapes, Prep_, Tab_
<1>3. UNCHANGED << db, tab, closing, server, world >>
  BY Zenon DEF AskLease
<1> QED
  BY <1>2, <1>3 DEF TabShapes, db, server, world

LEMMA GrantLeaseShapes ==
  ASSUME OfflineClientAssumption, TabShapes, NEW t \in Tab, GrantLease(t) PROVE TabShapes'
<1> USE Zero
<1>1. PICK s \in OpenShift, l \in Leases :
        /\ lease' = [lease EXCEPT ![l] = [shift |-> s, active |-> TRUE]]
        /\ prep' = [prep EXCEPT ![t].at = "granted", ![t].lease = l]
  BY Zenon DEF GrantLease
<1>2. s \in NoShift
  BY OpenShiftShape
<1>3. lease' \in [Leases -> [shift : NoShift, active : BOOLEAN]]
  BY <1>1, <1>2 DEF TabShapes
<1>4. prep' \in [Tab -> Prep_]
  <2>1. prep \in [Tab -> Prep_] /\ l \in NoLease
    BY DEF TabShapes
  <2>2. [prep[t] EXCEPT !.at = "granted", !.lease = l] \in Prep_
    BY <2>1 DEF Prep_
  <2>3. prep' = [prep EXCEPT ![t] = [prep[t] EXCEPT !.at = "granted", !.lease = l]]
    BY <1>1, <2>1
  <2> QED
    BY <2>1, <2>2, <2>3
<1>5. UNCHANGED << db, tab, closing, shift, world >>
  BY Zenon DEF GrantLease
<1> QED
  BY <1>3, <1>4, <1>5 DEF TabShapes, db, world

LEMMA SaveLeaseShapes ==
  ASSUME OfflineClientAssumption, TabShapes, NEW t \in Tab, SaveLease(t) PROVE TabShapes'
<1> USE Zero
<1>1. prep[t].lease \in NoLease
  BY DEF TabShapes, Prep_
<1> DEFINE warm == prep[t].warm = prep[t].lease
<1>2. \/ /\ state' = [lease |-> prep[t].lease, suspended |-> FALSE, cached |-> warm]
         /\ prep' = [prep EXCEPT ![t].at = "saved"]
      \/ prep' = [prep EXCEPT ![t] = NotPreparing] /\ UNCHANGED state
  BY Zenon DEF SaveLease
<1>6. warm \in BOOLEAN
  BY Zenon
<1> HIDE DEF warm
<1>7. [lease |-> prep[t].lease, suspended |-> FALSE, cached |-> warm] \in State_
  BY Zenon, <1>1, <1>6 DEF State_
<1>8. state \in State_
  BY Zenon DEF TabShapes
<1>3. state' \in State_
  BY Zenon, <1>2, <1>7, <1>8
<1>5. prep' \in [Tab -> Prep_]
  BY <1>2 DEF TabShapes, Prep_, NotPreparing
<1>4. UNCHANGED << tab, closing, server, world >>
  BY Zenon DEF SaveLease
<1> QED
  BY <1>3, <1>4, <1>5 DEF TabShapes, server, world

LEMMA LoadCatalogShapes ==
  ASSUME OfflineClientAssumption, TabShapes, NEW t \in Tab, LoadCatalog(t) PROVE TabShapes'
<1> USE Zero
<1>1. prep[t].lease \in NoLease
  BY DEF TabShapes, Prep_
<1>2. \/ /\ state' = [state EXCEPT !.cached = TRUE]
         /\ tab' = [tab EXCEPT ![t].lease = prep[t].lease, ![t].connected = TRUE]
      \/ UNCHANGED << state, tab >>
  BY Zenon DEF LoadCatalog
<1>5. state' \in State_
  BY <1>2 DEF TabShapes, State_
<1>6. tab' \in [Tab -> Tab_]
  <2>1. tab \in [Tab -> Tab_]
    BY DEF TabShapes
  <2>2. [tab[t] EXCEPT !.lease = prep[t].lease, !.connected = TRUE] \in Tab_
    BY <1>1, <2>1 DEF Tab_
  <2> QED
    BY <1>2, <2>1, <2>2
<1>3. prep' \in [Tab -> Prep_]
  BY DEF LoadCatalog, TabShapes, Prep_, NotPreparing
<1>4. UNCHANGED << closing, server, world >>
  BY Zenon DEF LoadCatalog
<1> QED
  BY <1>3, <1>4, <1>5, <1>6 DEF TabShapes, server, world

LEMMA PrepareFailsShapes ==
  ASSUME OfflineClientAssumption, TabShapes, NEW t \in Tab, PrepareFails(t) PROVE TabShapes'
<1> USE Zero
<1>1. prep' \in [Tab -> Prep_]
  BY DEF PrepareFails, TabShapes, Prep_, NotPreparing
<1>2. UNCHANGED << db, tab, closing, server, world >>
  BY Zenon DEF PrepareFails
<1> QED
  BY <1>1, <1>2 DEF TabShapes, db, server, world

LEMMA SuspendShapes ==
  ASSUME OfflineClientAssumption, TabShapes, NEW t \in Tab, Suspend(t) PROVE TabShapes'
<1> USE Zero
<1>1. state' \in State_
  BY DEF Suspend, TabShapes, State_
<1>2. PICK c \in Closing_ : closing' = [closing EXCEPT ![t] = c]
  <2>1. CASE Pending # {}
    BY <2>1 DEF Suspend, Closing_, NotClosing
  <2>2. CASE Pending = {} /\ state.lease = 0
    BY <2>2 DEF Suspend, Closing_
  <2>3. CASE Pending = {} /\ state.lease # 0
    BY <2>3 DEF Suspend, Closing_, TabShapes, State_
  <2> QED
    BY <2>1, <2>2, <2>3
<1>3. closing' \in [Tab -> Closing_]
  BY <1>2 DEF TabShapes
<1>4. UNCHANGED << tab, prep, server, world >>
  BY Zenon DEF Suspend
<1> QED
  BY <1>1, <1>3, <1>4 DEF TabShapes, server, world

LEMMA StartCloseShapes ==
  ASSUME OfflineClientAssumption, TabShapes, NEW t \in Tab, StartClose(t) PROVE TabShapes'
<1>1. \/ closing' = [closing EXCEPT ![t].at = "syncing"]
      \/ closing' = [closing EXCEPT ![t].at = "closing"]
  BY Zenon DEF StartClose
<1>3. closing' \in [Tab -> Closing_]
  BY <1>1 DEF TabShapes, Closing_
<1>2. UNCHANGED << db, tab, prep, server, world >>
  BY Zenon DEF StartClose
<1> QED
  BY <1>2, <1>3 DEF TabShapes, db, server, world

LEMMA ReleaseShapes ==
  ASSUME OfflineClientAssumption, TabShapes, NEW t \in Tab, Release(t) PROVE TabShapes'
<1>1. closing[t].lease \in NoLease
  BY DEF TabShapes, Closing_
<1>2. /\ closing' = [closing EXCEPT ![t].at = "closing"]
      /\ tab' = [tab EXCEPT ![t].lease = closing[t].lease]
  BY Zenon DEF Release
<1>5. closing' \in [Tab -> Closing_]
  BY <1>2 DEF TabShapes, Closing_
<1>6. tab' \in [Tab -> Tab_]
  BY <1>1, <1>2 DEF TabShapes, Tab_
<1>3. lease' \in [Leases -> [shift : NoShift, active : BOOLEAN]]
  BY DEF Release, TabShapes
<1>4. UNCHANGED << db, prep, shift, world >>
  BY Zenon DEF Release
<1> QED
  BY <1>3, <1>4, <1>5, <1>6 DEF TabShapes, db, world

LEMMA CloseShapes ==
  ASSUME OfflineClientAssumption, TabShapes, NEW t \in Tab, Close(t) PROVE TabShapes'
<1> USE Zero
<1>1. shift' \in [Shifts -> {"NONE", "OPEN", "OWN", "FORCED"}]
  BY DEF Close, TabShapes
<1>2. tab' = tab \/ tab' = [tab EXCEPT ![t].shift = 0]
  BY Zenon DEF Close
<1>3. tab' \in [Tab -> Tab_]
  BY <1>2 DEF TabShapes, Tab_
<1>4. closing' \in [Tab -> Closing_]
  BY DEF Close, TabShapes, Closing_, NotClosing
<1>5. UNCHANGED << db, prep, lease, world >>
  BY Zenon DEF Close
<1> QED
  BY <1>1, <1>3, <1>4, <1>5 DEF TabShapes, db, world

LEMMA CloseFailsShapes ==
  ASSUME OfflineClientAssumption, TabShapes, NEW t \in Tab, CloseFails(t) PROVE TabShapes'
<1>1. closing' \in [Tab -> Closing_]
  BY Zero DEF CloseFails, TabShapes, Closing_, NotClosing
<1>2. UNCHANGED << db, tab, prep, server, world >>
  BY Zenon DEF CloseFails
<1> QED
  BY <1>1, <1>2 DEF TabShapes, db, server, world

LEMMA SaleFailsShapes ==
  ASSUME OfflineClientAssumption, TabShapes, SaleFails PROVE TabShapes'
<1>1. tab' = tab \/ tab' = [tab EXCEPT ![Register].shift = 0]
  BY Zenon DEF SaleFails
<1>2. tab' \in [Tab -> Tab_]
  BY <1>1, Zero DEF TabShapes, Tab_
<1>3. UNCHANGED << db, flows, server, world >>
  BY Zenon DEF SaleFails
<1> QED
  BY <1>2, <1>3 DEF TabShapes, db, flows, server, world

\* A step that touches none of the tabs' flows but sales and uploads.
LEMMA TabsQuiet ==
  TabShapes /\ UNCHANGED << state, tab, prep, closing, lease, shift, net, drops, reloads >>
    => TabShapes'
  BY DEF TabShapes

-----------------------------------------------------------------------------
\* Cash: the outbox, the uploads and the sale being submitted

CashVars == << outbox, sync, sell, attempt, taken, recorded >>

LEMMA InitCash == OfflineClientAssumption /\ Init => CashShapes /\ CashIInv
<1> SUFFICES ASSUME OfflineClientAssumption, Init PROVE CashShapes /\ CashIInv
  OBVIOUS
<1> USE Zero, NoEntryShape
<1>1. outbox \in [Key -> Entry] /\ recorded \in [Key -> {"no", "online", "offline"}]
  BY DEF Init
<1>2. sync \in [Tab -> Upload_] /\ sell \in Sale_
  BY DEF Init, Upload_, Sale_, NotSyncing, NotSelling
<1>3. attempt \in Key \cup {NoKey} /\ taken \subseteq Key /\ taken = {}
  BY DEF Init
<1>4. \A t \in Tab : sync[t].rows = {} /\ sync[t].at = "idle"
  BY DEF Init, NotSyncing
<1>5. sell.at = "idle"
  BY DEF Init, NotSelling
<1>6. (\A t \in Tab : UploadHolds(t)) /\ SaleHolds /\ CashHolds
  BY <1>3, <1>4, <1>5 DEF UploadHolds, SaleHolds, CashHolds
<1> QED
  BY <1>1, <1>2, <1>3, <1>6 DEF CashShapes, CashIInv

LEMMA CashQuiet == CashShapes /\ CashIInv /\ UNCHANGED CashVars => CashShapes' /\ CashIInv'
  BY DEF CashVars, CashShapes, CashIInv, UploadHolds, SaleHolds, CashHolds, Kept

\* What was kept, or recorded, stays so.
Keeps == \A k \in Key : /\ Kept(k) => Kept(k)'
                        /\ recorded[k] = "offline" => recorded'[k] = "offline"

LEMMA UnchangedKeeps == UNCHANGED << outbox, recorded >> => Keeps
  BY DEF Keeps, Kept

LEMMA UploadStands ==
  ASSUME CashShapes, CashIInv, Keeps, NEW t \in Tab, sync'[t] = sync[t]
  PROVE  UploadHolds(t)'
<1>1. UploadHolds(t)
  BY DEF CashIInv
<1>2. sync[t].rows \subseteq Key
  BY DEF CashShapes, Upload_
<1> QED
  BY <1>1, <1>2 DEF Keeps, UploadHolds

LEMMA CashStands ==
  ASSUME CashShapes, CashIInv, Keeps, taken' = taken
  PROVE  CashHolds'
  BY DEF CashShapes, CashIInv, Keeps, CashHolds

\* A step of the register: uploads and records stand.
LEMMA SaleStep ==
  ASSUME OfflineClientAssumption, CashShapes, CashIInv,
         UNCHANGED << outbox, sync, recorded, taken >>,
         sell' \in Sale_, attempt' \in Key \cup {NoKey}, SaleHolds'
  PROVE  CashShapes' /\ CashIInv'
<1>1. Keeps
  BY UnchangedKeeps
<1>2. \A t \in Tab : UploadHolds(t)'
  BY <1>1, UploadStands
<1>3. CashHolds'
  BY <1>1, CashStands
<1> QED
  BY <1>2, <1>3 DEF CashShapes, CashIInv

\* A step of an upload: sales stand.
LEMMA UploadStep ==
  ASSUME OfflineClientAssumption, CashShapes, CashIInv,
         UNCHANGED << outbox, sell, attempt, recorded, taken >>,
         NEW t \in Tab, NEW u \in Upload_, sync' = [sync EXCEPT ![t] = u], UploadHolds(t)'
  PROVE  CashShapes' /\ CashIInv'
<1>1. Keeps
  BY UnchangedKeeps
<1>2. sync' \in [Tab -> Upload_] /\ \A r \in Tab \ {t} : sync'[r] = sync[r]
  BY DEF CashShapes
<1>3. \A r \in Tab : UploadHolds(r)'
  <2> SUFFICES ASSUME NEW r \in Tab PROVE UploadHolds(r)'
    OBVIOUS
  <2>1. CASE r = t
    BY <2>1
  <2>2. CASE r # t
    BY <2>2, <1>1, <1>2, UploadStands
  <2> QED
    BY <2>1, <2>2
<1>4. CashHolds'
  BY <1>1, CashStands
<1>5. SaleHolds'
  BY DEF CashIInv, SaleHolds, Kept
<1> QED
  BY <1>2, <1>3, <1>4, <1>5 DEF CashShapes, CashIInv

LEMMA NotSellingHolds ==
  ASSUME OfflineClientAssumption, sell' = NotSelling
  PROVE  sell' \in Sale_ /\ SaleHolds'
  BY Zero DEF NotSelling, Sale_, SaleHolds

LEMMA NotSyncingHolds ==
  ASSUME OfflineClientAssumption, CashShapes, NEW t \in Tab, sync' = [sync EXCEPT ![t] = NotSyncing]
  PROVE  NotSyncing \in Upload_ /\ UploadHolds(t)'
<1>1. NotSyncing \in Upload_
  BY Zero DEF NotSyncing, Upload_
<1>2. sync'[t] = NotSyncing
  BY DEF CashShapes
<1>3. NotSyncing.at = "idle" /\ NotSyncing.rows = {}
  BY DEF NotSyncing
<1> QED
  BY <1>1, <1>2, <1>3 DEF UploadHolds

-----------------------------------------------------------------------------
\* The actions that sell, upload and reload

LEMMA ReloadCash ==
  ASSUME OfflineClientAssumption, CashShapes, CashIInv, NEW t \in Tab, Reload(t)
  PROVE  CashShapes' /\ CashIInv'
<1>1. /\ sync' = [sync EXCEPT ![t] = NotSyncing]
      /\ sell' = NotSelling \/ sell' = sell
      /\ UNCHANGED << outbox, attempt, taken, recorded >>
  BY Zenon DEF Reload, db, server
<1>2. NotSyncing \in Upload_ /\ UploadHolds(t)'
  BY <1>1, NotSyncingHolds
<1>3. Keeps
  BY <1>1, UnchangedKeeps
<1>4. sell' \in Sale_ /\ SaleHolds'
  <2>1. CASE sell' = NotSelling
    BY <2>1, NotSellingHolds
  <2>2. CASE sell' = sell
    BY <2>2, <1>1 DEF CashShapes, CashIInv, SaleHolds, Kept
  <2> QED
    BY <1>1, <2>1, <2>2
<1>5. sync' \in [Tab -> Upload_] /\ \A r \in Tab \ {t} : sync'[r] = sync[r]
  BY <1>1, <1>2 DEF CashShapes
<1>6. \A r \in Tab : UploadHolds(r)'
  <2> SUFFICES ASSUME NEW r \in Tab PROVE UploadHolds(r)'
    OBVIOUS
  <2>1. CASE r # t
    BY <2>1, <1>3, <1>5, UploadStands
  <2> QED
    BY <2>1, <1>2
<1>7. CashHolds'
  BY <1>1, <1>3, CashStands
<1> QED
  BY <1>1, <1>4, <1>5, <1>6, <1>7 DEF CashShapes, CashIInv

LEMMA SubmitOfflineCash ==
  ASSUME OfflineClientAssumption, TabShapes, CashShapes, CashIInv, NEW k \in Key, SubmitOffline(k)
  PROVE  CashShapes' /\ CashIInv'
<1>1. /\ UNCHANGED << outbox, sync, recorded, taken >>
      /\ attempt' = k
      /\ KeyFor(k) /\ (attempt # NoKey => k \in Pending)
      /\ \/ k \in Pending /\ sell' = [at |-> "queued", key |-> k, lease |-> outbox[k].lease]
         \/ /\ k \notin Pending /\ state.lease # 0
            /\ sell' = [at |-> "queueing", key |-> k, lease |-> state.lease]
         \/ sell' = NotSelling
  BY Zenon DEF SubmitOffline, db, flows, server
<1>2. outbox[k].lease \in NoLease /\ state.lease \in NoLease
  BY DEF TabShapes, CashShapes, Entry, State_
<1>3. sell' \in Sale_ /\ SaleHolds'
  <2>1. CASE k \in Pending /\ sell' = [at |-> "queued", key |-> k, lease |-> outbox[k].lease]
    <3>1. Kept(k)'
      BY <1>1, <2>1 DEF Pending, Kept
    <3>2. sell'.at = "queued" /\ sell'.key = k /\ sell' \in Sale_
      BY <1>2, <2>1 DEF Sale_
    <3> QED
      BY <1>1, <3>1, <3>2 DEF SaleHolds
  <2>2. CASE /\ k \notin Pending /\ state.lease # 0
             /\ sell' = [at |-> "queueing", key |-> k, lease |-> state.lease]
    <3>1. outbox[k] = NoEntry /\ recorded[k] = "no"
      BY <1>1, <2>2 DEF KeyFor, Fresh
    <3>2. ~Kept(k)' /\ recorded'[k] = "no"
      BY <1>1, <3>1 DEF Kept
    <3>3. sell'.at = "queueing" /\ sell'.key = k /\ sell'.lease # 0 /\ sell' \in Sale_
      BY <1>2, <2>2 DEF Sale_
    <3> QED
      BY <1>1, <3>2, <3>3 DEF SaleHolds
  <2>3. CASE sell' = NotSelling
    BY <2>3, NotSellingHolds
  <2> QED
    BY <1>1, <2>1, <2>2, <2>3
<1> QED
  BY <1>1, <1>3, SaleStep

LEMMA SubmitOnlineCash ==
  ASSUME OfflineClientAssumption, CashShapes, CashIInv, NEW k \in Key, SubmitOnline(k)
  PROVE  CashShapes' /\ CashIInv'
<1>1. /\ UNCHANGED << outbox, sync, recorded, taken >>
      /\ attempt' = k /\ sell' = [at |-> "online", key |-> k, lease |-> 0]
  BY Zenon DEF SubmitOnline, db, flows, server
<1>2. sell' \in Sale_ /\ SaleHolds'
  BY <1>1, Zero DEF Sale_, SaleHolds
<1> QED
  BY <1>1, <1>2, SaleStep

LEMMA QueueCash ==
  ASSUME OfflineClientAssumption, CashShapes, CashIInv, Queue
  PROVE  CashShapes' /\ CashIInv'
<1>1. /\ sell.at = "queueing"
      /\ UNCHANGED << sync, recorded, taken, attempt >>
      /\ \/ /\ outbox' = [outbox EXCEPT ![sell.key] = [lease |-> sell.lease, blocked |-> FALSE]]
            /\ sell' = [sell EXCEPT !.at = "queued"]
         \/ sell' = NotSelling /\ UNCHANGED outbox
  BY Zenon DEF Queue, flows, server
<1>2. CASE sell' = NotSelling /\ UNCHANGED outbox
  BY <1>1, <1>2, NotSellingHolds, SaleStep DEF CashShapes
<1>3. CASE /\ outbox' = [outbox EXCEPT ![sell.key] = [lease |-> sell.lease, blocked |-> FALSE]]
           /\ sell' = [sell EXCEPT !.at = "queued"]
  <2>1. /\ sell.key \in Key /\ sell.key = attempt /\ sell.lease # 0 /\ sell.lease \in NoLease
    BY <1>1 DEF CashIInv, SaleHolds, CashShapes, Sale_
  <2> DEFINE entry == [lease |-> sell.lease, blocked |-> FALSE]
  <2>2. entry \in Entry /\ entry # NoEntry
    BY <2>1 DEF Entry, NoEntry
  <2> HIDE DEF entry
  <2>3. /\ outbox' \in [Key -> Entry] /\ outbox'[sell.key] = entry
        /\ \A k \in Key \ {sell.key} : outbox'[k] = outbox[k]
    BY <1>3, <2>1, <2>2 DEF CashShapes, entry
  <2>4. Keeps
    BY <1>1, <2>2, <2>3 DEF Keeps, Kept
  <2>5. sell' \in Sale_ /\ sell'.at = "queued" /\ sell'.key = sell.key
    BY <1>3 DEF CashShapes, Sale_
  <2>6. SaleHolds'
    BY <1>1, <2>1, <2>2, <2>3, <2>5 DEF SaleHolds, Kept
  <2>7. (\A t \in Tab : UploadHolds(t)') /\ CashHolds'
    BY <1>1, <2>4, UploadStands, CashStands
  <2> QED
    BY <1>1, <2>3, <2>5, <2>6, <2>7 DEF CashShapes, CashIInv
<1> QED
  BY <1>1, <1>2, <1>3

LEMMA ReceiptCash ==
  ASSUME OfflineClientAssumption, CashShapes, CashIInv, Receipt
  PROVE  CashShapes' /\ CashIInv'
<1>1. /\ taken' = (IF sell.at = "queued" THEN taken \cup {sell.key} ELSE taken)
      /\ sell' = NotSelling /\ attempt' = NoKey
      /\ UNCHANGED << outbox, sync, recorded >>
  BY Zenon DEF Receipt, db, flows, server
<1>2. Keeps
  BY <1>1, UnchangedKeeps
<1>3. \A t \in Tab : UploadHolds(t)'
  BY <1>1, <1>2, UploadStands
<1>4. sell' \in Sale_ /\ SaleHolds'
  BY <1>1, NotSellingHolds
<1>5. taken' \subseteq Key /\ CashHolds'
  BY <1>1, <1>2 DEF CashShapes, CashIInv, CashHolds, SaleHolds, Keeps
<1> QED
  BY <1>1, <1>3, <1>4, <1>5 DEF CashShapes, CashIInv

LEMMA RecordOnlineCash ==
  ASSUME OfflineClientAssumption, CashShapes, CashIInv, RecordOnline
  PROVE  CashShapes' /\ CashIInv'
<1>1. /\ sell.at = "online"
      /\ recorded' = [recorded EXCEPT ![sell.key] = IF @ = "no" THEN "online" ELSE @]
      /\ sell' = [sell EXCEPT !.at = "answered"]
      /\ UNCHANGED << outbox, sync, attempt, taken >>
  BY Zenon DEF RecordOnline, db, flows
<1>2. sell.key \in Key /\ sell.key = attempt
  BY <1>1 DEF CashIInv, SaleHolds
<1>3. /\ recorded' \in [Key -> {"no", "online", "offline"}]
      /\ \A k \in Key : recorded[k] = "offline" => recorded'[k] = "offline"
  BY <1>1, <1>2 DEF CashShapes
<1>4. Keeps
  BY <1>1, <1>3 DEF Keeps, Kept
<1>5. sell' \in Sale_ /\ sell'.at = "answered" /\ sell'.key = sell.key
  BY <1>1 DEF CashShapes, Sale_
<1>6. SaleHolds'
  BY <1>1, <1>2, <1>5 DEF SaleHolds
<1>7. (\A t \in Tab : UploadHolds(t)') /\ CashHolds'
  BY <1>1, <1>4, UploadStands, CashStands
<1> QED
  BY <1>1, <1>3, <1>5, <1>6, <1>7 DEF CashShapes, CashIInv

LEMMA SaleFailsCash ==
  ASSUME OfflineClientAssumption, CashShapes, CashIInv, SaleFails
  PROVE  CashShapes' /\ CashIInv'
<1>1. sell' = NotSelling /\ UNCHANGED << outbox, sync, recorded, taken, attempt >>
  BY Zenon DEF SaleFails, db, flows, server
<1>2. sell' \in Sale_ /\ SaleHolds'
  BY <1>1, NotSellingHolds
<1> QED
  BY <1>1, <1>2, SaleStep DEF CashShapes

LEMMA StartSyncCash ==
  ASSUME OfflineClientAssumption, CashShapes, CashIInv, NEW t \in Tab, StartSync(t)
  PROVE  CashShapes' /\ CashIInv'
<1> DEFINE rows == {k \in Pending : ~outbox[k].blocked}
           u == [NotSyncing EXCEPT !.at = "next", !.rows = rows]
<1>1. rows # {} /\ sync' = [sync EXCEPT ![t] = u]
      /\ UNCHANGED << outbox, sell, attempt, recorded, taken >>
  BY Zenon DEF StartSync, db, till, server
<1>2. rows \subseteq Key /\ \A k \in rows : Kept(k)
  BY DEF Pending, Kept
<1> HIDE DEF rows
<1>3. u \in Upload_ /\ u.at = "next" /\ u.rows = rows
  BY <1>2, Zero DEF NotSyncing, Upload_
<1> HIDE DEF u
<1>4. sync'[t] = u
  BY <1>1 DEF CashShapes
<1>5. UploadHolds(t)'
  BY <1>1, <1>2, <1>3, <1>4 DEF UploadHolds, Kept
<1> QED
  BY <1>1, <1>3, <1>5, UploadStep

LEMMA UploadCash ==
  ASSUME OfflineClientAssumption, CashShapes, CashIInv, NEW t \in Tab, Upload(t)
  PROVE  CashShapes' /\ CashIInv'
<1>1. PICK k \in sync[t].rows :
        sync' = [sync EXCEPT ![t].at = "sent", ![t].key = k, ![t].rows = @ \ {k},
                             ![t].lease = outbox[k].lease]
  BY Zenon DEF Upload
<1>2. UNCHANGED << outbox, sell, attempt, recorded, taken >>
  BY Zenon DEF Upload, db, till, server
<1>3. sync \in [Tab -> Upload_] /\ sync[t] \in Upload_ /\ sync[t].rows \subseteq Key /\ k \in Key
      /\ outbox[k].lease \in NoLease
  BY DEF CashShapes, Upload_, Entry
<1> DEFINE u == [sync[t] EXCEPT !.at = "sent", !.key = k, !.rows = @ \ {k},
                                !.lease = outbox[k].lease]
<1>4. u \in Upload_ /\ u.at = "sent" /\ u.key = k /\ u.rows \subseteq sync[t].rows
  BY <1>3 DEF Upload_
<1>5. sync' = [sync EXCEPT ![t] = u]
  BY <1>1, <1>3
<1> HIDE DEF u
<1>6. sync'[t] = u
  BY <1>3, <1>5
<1>7. \A i \in sync[t].rows : Kept(i)
  BY DEF CashIInv, UploadHolds
<1>8. UploadHolds(t)'
  BY <1>2, <1>3, <1>4, <1>6, <1>7 DEF UploadHolds, Kept
<1> QED
  BY <1>2, <1>4, <1>5, <1>8, UploadStep

LEMMA SyncFailsCash ==
  ASSUME OfflineClientAssumption, CashShapes, CashIInv, NEW t \in Tab, SyncFails(t)
  PROVE  CashShapes' /\ CashIInv'
<1>1. sync' = [sync EXCEPT ![t] = NotSyncing]
      /\ UNCHANGED << outbox, sell, attempt, recorded, taken >>
  BY Zenon DEF SyncFails, db, till, server
<1> QED
  BY <1>1, NotSyncingHolds, UploadStep

\* Recording a kept sale leaves what is being queued new.
LEMMA IngestCash ==
  ASSUME OfflineClientAssumption, CashShapes, CashIInv, NEW t \in Tab, Ingest(t)
  PROVE  CashShapes' /\ CashIInv'
<1>1. sync[t].at = "sent" /\ UNCHANGED << outbox, sell, attempt, taken >>
  BY Zenon DEF Ingest, db, till
<1>2. PICK ok \in BOOLEAN :
        /\ recorded' = IF ok THEN [recorded EXCEPT ![sync[t].key] = "offline"] ELSE recorded
        /\ sync' = [sync EXCEPT ![t].at = "answered", ![t].ok = ok]
  BY Zenon DEF Ingest
<1> DEFINE key == sync[t].key
<1>3. key \in Key /\ Kept(key) /\ \A i \in sync[t].rows : Kept(i)
  BY <1>1 DEF CashIInv, UploadHolds
<1>4. /\ sync \in [Tab -> Upload_] /\ sync[t] \in Upload_ /\ sync[t].rows \subseteq Key
      /\ recorded \in [Key -> {"no", "online", "offline"}]
  BY DEF CashShapes, Upload_
<1> DEFINE u == [sync[t] EXCEPT !.at = "answered", !.ok = ok]
<1>5. u \in Upload_ /\ u.at = "answered" /\ u.key = key /\ u.rows = sync[t].rows /\ u.ok = ok
  BY <1>4 DEF Upload_
<1>6. sync' = [sync EXCEPT ![t] = u]
  BY <1>2, <1>4
<1> HIDE DEF u, key
<1>7. /\ recorded' \in [Key -> {"no", "online", "offline"}]
      /\ \A k \in Key : recorded[k] = "offline" => recorded'[k] = "offline"
      /\ \A k \in Key : k = key \/ recorded'[k] = recorded[k]
      /\ ok => recorded'[key] = "offline"
  <2>1. CASE ok
    <3>1. recorded' = [recorded EXCEPT ![sync[t].key] = "offline"]
      BY Zenon, <1>2, <2>1
    <3>2. /\ recorded' \in [Key -> {"no", "online", "offline"}] /\ recorded'[key] = "offline"
          /\ \A k \in Key : recorded[k] = "offline" => recorded'[k] = "offline"
          /\ \A k \in Key : k # key => recorded'[k] = recorded[k]
      BY <1>3, <1>4, <3>1 DEF key
    <3> QED
      BY Zenon, <3>2
  <2>2. CASE ~ok
    <3>1. recorded' = recorded
      BY Zenon, <1>2, <2>2
    <3> QED
      BY Zenon, <1>4, <2>2, <3>1
  <2> QED
    BY <2>1, <2>2
<1>8. Keeps
  BY <1>1, <1>7 DEF Keeps, Kept
<1>9. sync' \in [Tab -> Upload_] /\ sync'[t] = u /\ \A r \in Tab \ {t} : sync'[r] = sync[r]
  BY <1>4, <1>5, <1>6
<1>10. UploadHolds(t)'
  BY <1>3, <1>4, <1>5, <1>7, <1>8, <1>9 DEF UploadHolds, Keeps
<1>11. \A r \in Tab : UploadHolds(r)'
  <2> SUFFICES ASSUME NEW r \in Tab PROVE UploadHolds(r)'
    OBVIOUS
  <2>1. CASE r # t
    BY <2>1, <1>8, <1>9, UploadStands
  <2> QED
    BY <2>1, <1>10
<1>12. SaleHolds'
  BY <1>1, <1>3, <1>7, <1>8 DEF CashIInv, SaleHolds, Keeps, Kept
<1>13. CashHolds'
  BY <1>1, <1>8, CashStands
<1> QED
  BY <1>1, <1>7, <1>9, <1>11, <1>12, <1>13 DEF CashShapes, CashIInv

\* An answer removes a recorded sale only, and leaves a refused one.
LEMMA AnsweredCash ==
  ASSUME OfflineClientAssumption, CashShapes, CashIInv, NEW t \in Tab, Answered(t)
  PROVE  CashShapes' /\ CashIInv'
<1> DEFINE key == sync[t].key
           entry == Settled(t, key)
           u == Later(t)
<1>1. /\ sync[t].at = "answered" /\ UNCHANGED << sell, attempt, recorded, taken >>
      /\ outbox' = [outbox EXCEPT ![key] = entry] /\ sync' = [sync EXCEPT ![t] = u]
  BY Zenon DEF Answered, till, server
<1>2. /\ key \in Key /\ Kept(key) /\ (sync[t].ok => recorded[key] = "offline")
      /\ \A i \in sync[t].rows : Kept(i)
  BY <1>1 DEF CashIInv, UploadHolds
<1>3. /\ sync \in [Tab -> Upload_] /\ sync[t].rows \subseteq Key
      /\ outbox \in [Key -> Entry] /\ outbox[key] \in Entry
  BY <1>2 DEF CashShapes, Upload_
<1>4. entry \in Entry /\ (outbox[key] = NoEntry => entry = NoEntry)
      /\ (outbox[key] # NoEntry /\ ~sync[t].ok => entry # NoEntry)
  <2>1. CASE sync[t].ok \/ outbox[key] = NoEntry
    BY <2>1, NoEntryShape DEF Settled
  <2>2. CASE ~sync[t].ok /\ outbox[key] # NoEntry
    <3>1. entry = [outbox[key] EXCEPT !.blocked = TRUE]
      BY <2>2 DEF Settled
    <3>2. entry \in Entry /\ entry.blocked = TRUE
      BY <1>3, <3>1 DEF Entry
    <3>3. NoEntry.blocked = FALSE
      BY DEF NoEntry
    <3> QED
      BY <2>2, <3>2, <3>3
  <2> QED
    BY <2>1, <2>2
<1>5. u \in Upload_ /\ u.at = (IF sync[t].rows = {} THEN "idle" ELSE "next")
      /\ u.rows = sync[t].rows
  <2>1. CASE sync[t].rows = {}
    <3>1. u = [NotSyncing EXCEPT !.at = "idle", !.rows = sync[t].rows]
      BY Zenon, <2>1 DEF Later
    <3> QED
      BY <1>3, <2>1, <3>1, Zero DEF NotSyncing, Upload_
  <2>2. CASE sync[t].rows # {}
    <3>1. u = [NotSyncing EXCEPT !.at = "next", !.rows = sync[t].rows]
      BY Zenon, <2>2 DEF Later
    <3> QED
      BY <1>3, <2>2, <3>1, Zero DEF NotSyncing, Upload_
  <2> QED
    BY <2>1, <2>2
<1> HIDE DEF key, entry, u
<1>6. /\ outbox' \in [Key -> Entry] /\ outbox'[key] = entry
      /\ \A k \in Key \ {key} : outbox'[k] = outbox[k]
  BY <1>1, <1>2, <1>3, <1>4
<1>7. Keeps
  <2> SUFFICES ASSUME NEW k \in Key, Kept(k) PROVE Kept(k)'
    BY <1>1 DEF Keeps
  <2>1. CASE k # key
    BY <2>1, <1>1, <1>6 DEF Kept
  <2>2. CASE k = key
    BY <2>2, <1>1, <1>2, <1>4, <1>6 DEF Kept
  <2> QED
    BY <2>1, <2>2
<1>8. sync' \in [Tab -> Upload_] /\ sync'[t] = u /\ \A r \in Tab \ {t} : sync'[r] = sync[r]
  BY <1>1, <1>3, <1>5
<1>9. UploadHolds(t)'
  BY <1>2, <1>3, <1>5, <1>7, <1>8 DEF UploadHolds, Keeps
<1>10. \A r \in Tab : UploadHolds(r)'
  <2> SUFFICES ASSUME NEW r \in Tab PROVE UploadHolds(r)'
    OBVIOUS
  <2>1. CASE r # t
    BY <2>1, <1>7, <1>8, UploadStands
  <2> QED
    BY <2>1, <1>9
<1>11. SaleHolds'
  BY <1>1, <1>2, <1>4, <1>6, <1>7 DEF CashIInv, SaleHolds, Keeps, Kept
<1>12. CashHolds'
  BY <1>1, <1>7, CashStands
<1> QED
  BY <1>1, <1>6, <1>8, <1>10, <1>11, <1>12 DEF CashShapes, CashIInv

\* An ADMIN records a pending sale: it is not one being queued.
LEMMA ReconcileCash ==
  ASSUME OfflineClientAssumption, CashShapes, CashIInv, NEW k \in Key, Reconcile(k)
  PROVE  CashShapes' /\ CashIInv'
<1>1. /\ k \in Pending /\ UNCHANGED << sync, sell, attempt, taken >>
      /\ recorded' = [recorded EXCEPT ![k] = "offline"]
      /\ outbox' \in {outbox, [outbox EXCEPT ![k] = NoEntry]}
  BY Zenon DEF Reconcile, flows, till
<1>2. Kept(k)
  BY <1>1 DEF Pending, Kept
<1>3. /\ recorded' \in [Key -> {"no", "online", "offline"}] /\ recorded'[k] = "offline"
      /\ \A i \in Key \ {k} : recorded'[i] = recorded[i]
  BY <1>1 DEF CashShapes
<1>4. /\ outbox' \in [Key -> Entry]
      /\ \A i \in Key \ {k} : outbox'[i] = outbox[i]
  BY <1>1, NoEntryShape DEF CashShapes
<1>5. Keeps
  BY <1>3, <1>4 DEF Keeps, Kept
<1>6. (\A t \in Tab : UploadHolds(t)') /\ CashHolds'
  BY <1>1, <1>5, UploadStands, CashStands
<1>7. SaleHolds'
  BY <1>1, <1>2, <1>3, <1>4, <1>5 DEF CashIInv, SaleHolds, Keeps, Kept
<1> QED
  BY <1>1, <1>3, <1>4, <1>6, <1>7 DEF CashShapes, CashIInv

-----------------------------------------------------------------------------
\* Every step

\* The steps that touch neither the outbox, the uploads nor the sale.
TabStep(t) ==
    \/ Reconnect(t) \/ Open(t)
    \/ AskLease(t) \/ GrantLease(t) \/ SaveLease(t) \/ LoadCatalog(t) \/ PrepareFails(t)
    \/ StartClose(t) \/ Suspend(t) \/ Release(t) \/ Close(t) \/ CloseFails(t)

LEMMA TabStepQuiet == ASSUME NEW t \in Tab, TabStep(t) PROVE UNCHANGED CashVars
<1>1. CASE Reconnect(t) \/ Open(t)
  BY <1>1 DEF Reconnect, Open, db, flows, till, CashVars, server
<1>2. CASE AskLease(t) \/ GrantLease(t) \/ SaveLease(t) \/ LoadCatalog(t) \/ PrepareFails(t)
  <2>1. CASE AskLease(t)
    BY Zenon, <2>1 DEF AskLease, db, till, server, CashVars
  <2>2. CASE GrantLease(t)
    BY Zenon, <2>2 DEF GrantLease, db, till, CashVars
  <2>3. CASE SaveLease(t)
    BY Zenon, <2>3 DEF SaveLease, till, server, CashVars
  <2>4. CASE LoadCatalog(t)
    BY Zenon, <2>4 DEF LoadCatalog, till, server, CashVars
  <2>5. CASE PrepareFails(t)
    BY Zenon, <2>5 DEF PrepareFails, db, till, server, CashVars
  <2> QED
    BY <1>2, <2>1, <2>2, <2>3, <2>4, <2>5
<1>3. CASE StartClose(t) \/ Suspend(t) \/ Release(t) \/ Close(t) \/ CloseFails(t)
  <2>1. CASE StartClose(t)
    BY Zenon, <2>1 DEF StartClose, db, till, server, CashVars
  <2>2. CASE Suspend(t)
    BY Zenon, <2>2 DEF Suspend, till, server, CashVars
  <2>3. CASE Release(t)
    BY Zenon, <2>3 DEF Release, db, till, CashVars
  <2>4. CASE Close(t)
    BY Zenon, <2>4 DEF Close, db, till, CashVars
  <2>5. CASE CloseFails(t)
    BY Zenon, <2>5 DEF CloseFails, db, till, server, CashVars
  <2> QED
    BY <1>3, <2>1, <2>2, <2>3, <2>4, <2>5
<1> QED
  BY <1>1, <1>2, <1>3 DEF TabStep

LEMMA TabStepShapes ==
  ASSUME OfflineClientAssumption, TabShapes, NEW t \in Tab, TabStep(t) PROVE TabShapes'
<1>1. CASE Reconnect(t)
  BY <1>1 DEF Reconnect, TabShapes, Tab_, db, flows, server, world
<1> QED
  BY <1>1, OpenShapes, AskLeaseShapes, GrantLeaseShapes, SaveLeaseShapes, LoadCatalogShapes,
     PrepareFailsShapes, StartCloseShapes, SuspendShapes, ReleaseShapes, CloseShapes,
     CloseFailsShapes DEF TabStep

\* The steps of an upload, of a sale and of an ADMIN leave the tabs' shapes.
LEMMA UploadShapes ==
  ASSUME TabShapes, NEW t \in Tab,
         StartSync(t) \/ Upload(t) \/ Ingest(t) \/ Answered(t) \/ SyncFails(t)
  PROVE  TabShapes'
<1>1. UNCHANGED << state, tab, prep, closing, lease, shift, net, drops, reloads >>
  <2>1. CASE StartSync(t)
    BY Zenon, <2>1 DEF StartSync, db, server, world
  <2>2. CASE Upload(t)
    BY Zenon, <2>2 DEF Upload, db, server, world
  <2>3. CASE Ingest(t)
    BY Zenon, <2>3 DEF Ingest, db, world
  <2>4. CASE Answered(t)
    BY Zenon, <2>4 DEF Answered, server, world
  <2>5. CASE SyncFails(t)
    BY Zenon, <2>5 DEF SyncFails, db, server, world
  <2> QED
    BY <2>1, <2>2, <2>3, <2>4, <2>5
<1> QED
  BY <1>1, TabsQuiet

LEMMA SaleShapes ==
  ASSUME TabShapes,
         \/ Queue \/ Receipt \/ RecordOnline
         \/ \E k \in Key : SubmitOffline(k) \/ SubmitOnline(k) \/ Reconcile(k)
  PROVE  TabShapes'
<1>1. UNCHANGED << state, tab, prep, closing, lease, shift, net, drops, reloads >>
  <2>1. CASE Queue
    BY Zenon, <2>1 DEF Queue, flows, server, world
  <2>2. CASE Receipt
    BY Zenon, <2>2 DEF Receipt, db, flows, server, world
  <2>3. CASE RecordOnline
    BY Zenon, <2>3 DEF RecordOnline, db, flows, world
  <2>4. ASSUME NEW k \in Key, SubmitOffline(k)
        PROVE  UNCHANGED << state, tab, prep, closing, lease, shift, net, drops, reloads >>
    BY Zenon, <2>4 DEF SubmitOffline, db, flows, server, world
  <2>5. ASSUME NEW k \in Key, SubmitOnline(k)
        PROVE  UNCHANGED << state, tab, prep, closing, lease, shift, net, drops, reloads >>
    BY Zenon, <2>5 DEF SubmitOnline, db, flows, server, world
  <2>6. ASSUME NEW k \in Key, Reconcile(k)
        PROVE  UNCHANGED << state, tab, prep, closing, lease, shift, net, drops, reloads >>
    BY Zenon, <2>6 DEF Reconcile, flows, world
  <2> QED
    BY <2>1, <2>2, <2>3, <2>4, <2>5, <2>6
<1> QED
  BY <1>1, TabsQuiet

LEMMA WorldCash ==
  CashShapes /\ CashIInv /\ (NetDown \/ NetUp \/ ForceClose) => CashShapes' /\ CashIInv'
<1>1. NetDown \/ NetUp \/ ForceClose => UNCHANGED CashVars
  BY Zenon DEF NetDown, NetUp, ForceClose, db, flows, till, server, CashVars
<1> QED
  BY <1>1, CashQuiet

LEMMA NetUpShapes == TabShapes /\ NetUp => TabShapes'
<1> SUFFICES ASSUME TabShapes, NetUp PROVE TabShapes'
  OBVIOUS
<1>1. net' = TRUE
  BY Zenon DEF NetUp
<1>2. UNCHANGED << db, tab, flows, server, drops, reloads >>
  BY Zenon DEF NetUp
<1>3. net' \in BOOLEAN
  BY Zenon, <1>1
<1> QED
  BY <1>2, <1>3 DEF TabShapes, db, flows, server

LEMMA NextInductive == OfflineClientAssumption /\ IInv /\ [Next]_vars => IInv'
<1> SUFFICES ASSUME OfflineClientAssumption, IInv, [Next]_vars PROVE IInv'
  OBVIOUS
<1>0. TabShapes /\ CashShapes /\ CashIInv
  BY DEF IInv
<1>1. CASE NetDown \/ NetUp \/ ForceClose
  BY <1>0, <1>1, WorldCash, NetDownShapes, NetUpShapes, ForceCloseShapes DEF IInv
<1>2. CASE Queue
  BY <1>0, <1>2, QueueCash, SaleShapes DEF IInv
<1>3. CASE Receipt
  BY <1>0, <1>3, ReceiptCash, SaleShapes DEF IInv
<1>4. CASE RecordOnline
  BY <1>0, <1>4, RecordOnlineCash, SaleShapes DEF IInv
<1>5. CASE SaleFails
  BY <1>0, <1>5, SaleFailsCash, SaleFailsShapes DEF IInv
<1>6. ASSUME NEW t \in Tab, TabStep(t) PROVE IInv'
  BY <1>0, <1>6, TabStepQuiet, TabStepShapes, CashQuiet DEF IInv
<1>7. ASSUME NEW t \in Tab, Reload(t) PROVE IInv'
  BY <1>0, <1>7, ReloadShapes, ReloadCash DEF IInv
<1>8. ASSUME NEW t \in Tab,
             StartSync(t) \/ Upload(t) \/ Ingest(t) \/ Answered(t) \/ SyncFails(t)
      PROVE IInv'
  BY <1>0, <1>8, UploadShapes, StartSyncCash, UploadCash, IngestCash, AnsweredCash,
     SyncFailsCash DEF IInv
<1>9. ASSUME NEW k \in Key, SubmitOffline(k) \/ SubmitOnline(k) \/ Reconcile(k) PROVE IInv'
  BY <1>0, <1>9, SaleShapes, SubmitOfflineCash, SubmitOnlineCash, ReconcileCash DEF IInv
<1>10. CASE UNCHANGED vars
  BY <1>0, <1>10, CashQuiet, TabsQuiet
     DEF IInv, vars, db, flows, till, server, world, CashVars
<1> QED
  BY <1>1, <1>2, <1>3, <1>4, <1>5, <1>6, <1>7, <1>8, <1>9, <1>10 DEF Next, TabStep

\* What an upload carries is kept, a sale being queued is new, and so cash is
\* kept, whatever the network, the tabs and an ADMIN do (offline.ts sync,
\* database.ts queueOffline).
THEOREM Invariance == OfflineClientAssumption => (Spec => []IInv)
<1> SUFFICES ASSUME OfflineClientAssumption PROVE Spec => []IInv
  OBVIOUS
<1>1. Init => IInv
  BY InitTabShapes, InitCash DEF IInv
<1>2. IInv /\ [Next]_vars => IInv'
  BY NextInductive
<1> QED
  BY <1>1, <1>2, PTL DEF Spec

-----------------------------------------------------------------------------
\* Locking the tabs out of a shift's leases

TabIdle(t) == Reconnect(t) \/ StartSync(t) \/ Upload(t) \/ Ingest(t) \/ SyncFails(t)
WorldStep == NetDown \/ NetUp \/ Receipt \/ RecordOnline \/ SaleFails

\* Storing a shift's lease lifts the lock of its leases.
Lifts(t) ==
    /\ MaySave(t, prep[t].lease) /\ state'.lease = prep[t].lease /\ UNCHANGED << outbox, lease >>
    /\ lockout' = [lockout EXCEPT ![ShiftOf(prep[t].lease)] = IF @ = "none" THEN @ ELSE "lifted"]

\* Suspending the stored lease locks the tabs out of its shift's.
Locks ==
    /\ Pending = {} /\ state'.suspended /\ state'.lease = state.lease
    /\ UNCHANGED << outbox, lease >>
    /\ lockout' = [s \in Shifts |-> IF s = ShiftOf(state.lease) THEN "locked" ELSE lockout[s]]

LEMMA LockoutStep ==
  ASSUME TabShapes, Next
  PROVE  \/ UNCHANGED lockout /\ (UNCHANGED state \/ \A t \in Tab : ~SaveLease(t))
         \/ \E t \in Tab : SaveLease(t) /\ Lifts(t)
         \/ Locks
<1>1. CASE WorldStep \/ ForceClose \/ Queue
  <2>1. UNCHANGED lockout /\ UNCHANGED state
    BY Zenon, <1>1 DEF WorldStep, NetDown, NetUp, Receipt, RecordOnline, SaleFails, ForceClose,
                       Queue, db
  <2> QED
    BY <2>1
<1>2. ASSUME NEW t \in Tab, TabIdle(t) \/ Reload(t) \/ Open(t) PROVE UNCHANGED << lockout, state >>
  BY Zenon, <1>2 DEF TabIdle, Reconnect, StartSync, Upload, Ingest, SyncFails, Reload, Open, db
<1>3. ASSUME NEW t \in Tab, AskLease(t) \/ GrantLease(t) \/ PrepareFails(t) \/ Answered(t)
      PROVE UNCHANGED << lockout, state >>
  BY Zenon, <1>3 DEF AskLease, GrantLease, PrepareFails, Answered, db
<1>4. ASSUME NEW t \in Tab, StartClose(t) \/ Release(t) \/ Close(t) \/ CloseFails(t)
      PROVE UNCHANGED << lockout, state >>
  BY Zenon, <1>4 DEF StartClose, Release, Close, CloseFails, db
<1>5. ASSUME NEW k \in Key, SubmitOffline(k) \/ SubmitOnline(k) \/ Reconcile(k)
      PROVE UNCHANGED << lockout, state >>
  BY Zenon, <1>5 DEF SubmitOffline, SubmitOnline, Reconcile, db
<1>6. ASSUME NEW t \in Tab, LoadCatalog(t)
      PROVE  UNCHANGED lockout /\ \A r \in Tab : ~SaveLease(r) \/ UNCHANGED state
  <2>1. UNCHANGED lockout
    BY Zenon, <1>6 DEF LoadCatalog
  <2>2. prep[t].at = "saved" /\ prep' = [prep EXCEPT ![t] = NotPreparing]
    BY Zenon, <1>6 DEF LoadCatalog
  <2>3. ASSUME NEW r \in Tab, SaveLease(r) PROVE FALSE
    <3>1. prep[r].at = "granted"
      BY Zenon, <2>3 DEF SaveLease
    <3>2. prep' = [prep EXCEPT ![r].at = "saved"] \/ prep' = [prep EXCEPT ![r] = NotPreparing]
      BY Zenon, <2>3 DEF SaveLease
    <3>3. r # t /\ prep'[r] = prep[r]
      BY <2>2, <3>1 DEF TabShapes
    <3> QED
      BY <3>1, <3>2, <3>3 DEF TabShapes, Prep_, NotPreparing
  <2> QED
    BY <2>1, <2>3
<1>7. ASSUME NEW t \in Tab, SaveLease(t)
      PROVE  (UNCHANGED << lockout, state >>) \/ Lifts(t)
  <2>1. UNCHANGED << outbox, lease >>
    BY Zenon, <1>7 DEF SaveLease, server
  <2>2. \/ UNCHANGED << state, lockout >>
        \/ /\ MaySave(t, prep[t].lease)
           /\ \E warm : state' = [lease |-> prep[t].lease, suspended |-> FALSE, cached |-> warm]
           /\ lockout' = [lockout EXCEPT ![ShiftOf(prep[t].lease)] =
                             IF @ = "none" THEN @ ELSE "lifted"]
    BY Zenon, <1>7 DEF SaveLease
  <2>3. ASSUME \E warm : state' = [lease |-> prep[t].lease, suspended |-> FALSE, cached |-> warm]
        PROVE  state'.lease = prep[t].lease
    BY <2>3
  <2> QED
    BY Zenon, <2>1, <2>2, <2>3 DEF Lifts
<1>8. ASSUME NEW t \in Tab, Suspend(t)
      PROVE  (UNCHANGED << lockout, state >>) \/ Locks
  <2>1. UNCHANGED << outbox, lease >>
    BY Zenon, <1>8 DEF Suspend, server
  <2>2. \/ UNCHANGED << state, lockout >>
        \/ /\ Pending = {} /\ state' = [state EXCEPT !.suspended = TRUE]
           /\ lockout' = [s \in Shifts |->
                 IF s = ShiftOf(state.lease) THEN "locked" ELSE lockout[s]]
    BY Zenon, <1>8 DEF Suspend
  <2>3. ASSUME state' = [state EXCEPT !.suspended = TRUE]
        PROVE  state'.suspended /\ state'.lease = state.lease
    BY <2>3 DEF TabShapes, State_
  <2> QED
    BY Zenon, <2>1, <2>2, <2>3 DEF Locks
<1>9. ASSUME UNCHANGED << lockout, state >>
      PROVE  UNCHANGED lockout /\ (UNCHANGED state \/ \A t \in Tab : ~SaveLease(t))
  BY <1>9
<1>10. CASE WorldStep \/ ForceClose \/ Queue
            \/ \E k \in Key : SubmitOffline(k) \/ SubmitOnline(k) \/ Reconcile(k)
  BY Zenon, <1>1, <1>5, <1>9, <1>10
<1>11. ASSUME NEW t \in Tab,
              \/ TabIdle(t) \/ Reload(t) \/ Open(t)
              \/ AskLease(t) \/ GrantLease(t) \/ PrepareFails(t) \/ Answered(t)
              \/ StartClose(t) \/ Release(t) \/ Close(t) \/ CloseFails(t)
       PROVE UNCHANGED << lockout, state >>
  BY Zenon, <1>2, <1>3, <1>4, <1>11
<1>12. CASE \E t \in Tab : \/ TabIdle(t) \/ Reload(t) \/ Open(t)
                           \/ AskLease(t) \/ GrantLease(t) \/ PrepareFails(t) \/ Answered(t)
                           \/ StartClose(t) \/ Release(t) \/ Close(t) \/ CloseFails(t)
  BY Zenon, <1>9, <1>11, <1>12
<1>13. CASE \E t \in Tab : SaveLease(t)
  BY Zenon, <1>7, <1>9, <1>13
<1>14. CASE \E t \in Tab : LoadCatalog(t)
  BY Zenon, <1>6, <1>14
<1>15. CASE \E t \in Tab : Suspend(t)
  BY Zenon, <1>8, <1>9, <1>15
<1> QED
  BY <1>10, <1>12, <1>13, <1>14, <1>15 DEF Next, WorldStep, TabIdle

LEMMA LockShapeStep ==
  ASSUME OfflineClientAssumption, TabShapes, LockShape, Next PROVE LockShape'
<1>1. CASE UNCHANGED lockout
  BY <1>1 DEF LockShape
<1>2. ASSUME NEW t \in Tab, Lifts(t) PROVE LockShape'
  BY <1>2 DEF LockShape, Lifts
<1>3. CASE Locks
  BY <1>3 DEF LockShape, Locks
<1> QED
  BY <1>1, <1>2, <1>3, LockoutStep

LEMMA LockShapes == OfflineClientAssumption => (Spec => []LockShape)
<1> SUFFICES ASSUME OfflineClientAssumption PROVE Spec => []LockShape
  OBVIOUS
<1>1. Init => LockShape
  BY DEF Init, LockShape
<1>2. IInv /\ LockShape /\ [Next]_vars => LockShape'
  <2>1. IInv => TabShapes
    BY DEF IInv
  <2>2. LockShape /\ UNCHANGED vars => LockShape'
    BY DEF LockShape, vars
  <2> QED
    BY <2>1, <2>2, LockShapeStep
<1> QED
  BY <1>1, <1>2, Invariance, PTL DEF Spec

\* The state of the tabs, the server and the world has its shape, and a sale
\* being submitted is the saved attempt's.
THEOREM TypeCorrect == OfflineClientAssumption => (Spec => []TypeOK)
<1> SUFFICES ASSUME OfflineClientAssumption PROVE Spec => []TypeOK
  OBVIOUS
<1>1. IInv /\ LockShape => TypeOK
  <2> SUFFICES ASSUME IInv, LockShape PROVE TypeOK
    OBVIOUS
  <2>1. /\ state \in State_ /\ outbox \in [Key -> Entry] /\ tab \in [Tab -> Tab_]
        /\ prep \in [Tab -> Prep_] /\ sync \in [Tab -> Upload_] /\ closing \in [Tab -> Closing_]
        /\ sell \in Sale_
    BY DEF IInv, TabShapes, CashShapes
  <2>2. \A t \in Tab : /\ prep[t].at \in {"idle", "asked", "granted", "saved"}
                       /\ sync[t].at \in {"idle", "next", "sent", "answered"}
                       /\ sync[t].rows \subseteq Key
                       /\ closing[t].at \in {"idle", "syncing", "releasing", "closing"}
    BY <2>1 DEF Prep_, Upload_, Closing_
  <2>3. sell.at \in {"idle", "queueing", "queued", "online", "answered"}
    BY <2>1 DEF Sale_
  <2>4. \A t \in Tab : sync[t].at = "next" => sync[t].rows # {}
    BY DEF IInv, CashIInv, UploadHolds
  <2>5. sell.at # "idle" => sell.key = attempt
    BY DEF IInv, CashIInv, SaleHolds
  <2>6. /\ attempt \in Key \cup {NoKey} /\ taken \subseteq Key
        /\ lease \in [Leases -> [shift : 0..MaxShifts, active : BOOLEAN]]
        /\ shift \in [Shifts -> {"NONE", "OPEN", "OWN", "FORCED"}]
        /\ recorded \in [Key -> {"no", "online", "offline"}]
        /\ net \in BOOLEAN /\ drops \in 0..MaxDrops /\ reloads \in 0..MaxReloads
    BY DEF IInv, TabShapes, CashShapes, NoShift
  <2>7. /\ state \in [lease : 0..MaxLeases, suspended : BOOLEAN, cached : BOOLEAN]
        /\ outbox \in [Key -> [lease : 0..MaxLeases, blocked : BOOLEAN]]
        /\ tab \in [Tab -> [shift : 0..MaxShifts, lease : 0..MaxLeases, connected : BOOLEAN]]
    BY <2>1 DEF State_, Entry, Tab_, NoLease, NoShift
  <2> QED
    BY Zenon, <2>2, <2>3, <2>4, <2>5, <2>6, <2>7 DEF TypeOK, LockShape
<1> QED
  BY Invariance, LockShapes, <1>1, PTL

\* Cash collected offline (its receipt was shown) is in the outbox until the
\* server recorded it.
THEOREM CashIsKept == OfflineClientAssumption => (Spec => []CashKept)
<1> SUFFICES ASSUME OfflineClientAssumption PROVE Spec => []CashKept
  OBVIOUS
<1>1. IInv => CashKept
  BY DEF IInv, CashShapes, CashIInv, CashHolds, Kept, CashKept, Pending
<1> QED
  BY Invariance, <1>1, PTL

\* A sale that was uploaded is not put back by another tab's late failure.
THEOREM UploadedStays == OfflineClientAssumption => (Spec => UploadedStaysGone)
<1> SUFFICES ASSUME OfflineClientAssumption PROVE Spec => UploadedStaysGone
  OBVIOUS
<1> DEFINE Stays == \A k \in Key : recorded[k] = "offline" /\ outbox[k] = NoEntry
                                     => outbox'[k] = NoEntry
<1>1. IInv /\ [Next]_vars => [Stays]_vars
  <2> SUFFICES ASSUME IInv, Next, NEW k \in Key, recorded[k] = "offline", outbox[k] = NoEntry,
                      outbox'[k] # outbox[k]
               PROVE  outbox'[k] = NoEntry
    BY DEF vars, db
  <2>0. CashShapes /\ CashIInv
    BY DEF IInv
  <2>1. CASE Queue
    <3>1. /\ sell.at = "queueing"
          /\ \/ outbox' = [outbox EXCEPT ![sell.key] = [lease |-> sell.lease, blocked |-> FALSE]]
             \/ UNCHANGED outbox
      BY Zenon, <2>1 DEF Queue
    <3>2. k # sell.key
      BY <2>0, <3>1 DEF CashIInv, SaleHolds, Kept
    <3> QED
      BY <2>0, <3>1, <3>2 DEF CashShapes
  <2>2. ASSUME NEW t \in Tab, Answered(t) PROVE outbox'[k] = NoEntry
    <3> DEFINE entry == Settled(t, sync[t].key)
    <3>1. outbox' = [outbox EXCEPT ![sync[t].key] = entry]
      BY Zenon, <2>2 DEF Answered
    <3>2. sync[t].key = k => entry = NoEntry
      BY DEF Settled
    <3> HIDE DEF entry
    <3> QED
      BY <2>0, <3>1, <3>2 DEF CashShapes
  <2>3. ASSUME NEW i \in Key, Reconcile(i) PROVE outbox'[k] = NoEntry
    <3>1. outbox' \in {outbox, [outbox EXCEPT ![i] = NoEntry]}
      BY Zenon, <2>3 DEF Reconcile
    <3> QED
      BY <2>0, <3>1 DEF CashShapes
  <2>4. CASE NetDown \/ NetUp \/ ForceClose \/ Receipt \/ RecordOnline \/ SaleFails
    BY Zenon, <2>4 DEF NetDown, NetUp, ForceClose, Receipt, RecordOnline, SaleFails, db
  <2>5. ASSUME NEW t \in Tab, TabStep(t) PROVE UNCHANGED outbox
    BY <2>5, TabStepQuiet DEF CashVars
  <2>6. ASSUME NEW t \in Tab, Reload(t) \/ StartSync(t) \/ Upload(t) \/ Ingest(t) \/ SyncFails(t)
        PROVE UNCHANGED outbox
    BY Zenon, <2>6 DEF Reload, StartSync, Upload, Ingest, SyncFails, db
  <2>7. ASSUME NEW i \in Key, SubmitOffline(i) \/ SubmitOnline(i) PROVE UNCHANGED outbox
    BY Zenon, <2>7 DEF SubmitOffline, SubmitOnline, db
  <2> QED
    BY <2>1, <2>2, <2>3, <2>4, <2>5, <2>6, <2>7 DEF Next, TabStep
<1> QED
  BY Invariance, <1>1, PTL DEF Spec, UploadedStaysGone

-----------------------------------------------------------------------------
\* What a step may do to the lease of the browser, the server's leases, the
\* outbox and the shift

LEMMA StateStep ==
  ASSUME TabShapes, Next
  PROVE  \/ \E t \in Tab : SaveLease(t)
         \/ state'.lease = state.lease /\ (state.suspended => state'.suspended)
<1>1. CASE WorldStep \/ ForceClose \/ Queue
  BY Zenon, <1>1 DEF WorldStep, NetDown, NetUp, Receipt, RecordOnline, SaleFails, ForceClose,
                     Queue, db
<1>2. ASSUME NEW t \in Tab, TabIdle(t) \/ Reload(t) \/ Open(t) PROVE UNCHANGED state
  BY Zenon, <1>2 DEF TabIdle, Reconnect, StartSync, Upload, Ingest, SyncFails, Reload, Open, db
<1>3. ASSUME NEW t \in Tab, AskLease(t) \/ GrantLease(t) \/ PrepareFails(t) \/ Answered(t)
      PROVE UNCHANGED state
  BY Zenon, <1>3 DEF AskLease, GrantLease, PrepareFails, Answered, db
<1>4. ASSUME NEW t \in Tab, StartClose(t) \/ Release(t) \/ Close(t) \/ CloseFails(t)
      PROVE UNCHANGED state
  BY Zenon, <1>4 DEF StartClose, Release, Close, CloseFails, db
<1>5. ASSUME NEW k \in Key, SubmitOffline(k) \/ SubmitOnline(k) \/ Reconcile(k)
      PROVE UNCHANGED state
  BY Zenon, <1>5 DEF SubmitOffline, SubmitOnline, Reconcile, db
<1>6. ASSUME NEW t \in Tab, LoadCatalog(t) \/ Suspend(t)
      PROVE state'.lease = state.lease /\ (state.suspended => state'.suspended)
  <2>1. \/ state' = [state EXCEPT !.cached = TRUE]
        \/ state' = [state EXCEPT !.suspended = TRUE]
        \/ state' = state
    BY Zenon, <1>6 DEF LoadCatalog, Suspend
  <2>2. state \in State_
    BY DEF TabShapes
  <2> QED
    BY <2>1, <2>2 DEF State_
<1> QED
  BY <1>1, <1>2, <1>3, <1>4, <1>5, <1>6 DEF Next, WorldStep, TabIdle

\* A lease changes when it is given for the open shift, or released; a granted
\* one keeps its shift.
LEMMA LeaseStep ==
  ASSUME OfflineClientAssumption, TabShapes, Next, NEW l \in Leases
  PROVE  \/ lease'[l] = lease[l]
         \/ /\ lease'[l].shift \in OpenShift /\ lease'[l].active
            /\ lease[l].shift = 0 \/ lease'[l].shift = lease[l].shift
         \/ /\ lease'[l].shift = lease[l].shift
            /\ \E t \in Tab : closing[t].at = "releasing" /\ closing[t].lease = l
<1>1. CASE WorldStep \/ ForceClose \/ Queue
  BY Zenon, <1>1 DEF WorldStep, NetDown, NetUp, Receipt, RecordOnline, SaleFails, ForceClose,
                     Queue, server
<1>2. ASSUME NEW t \in Tab, TabIdle(t) \/ Reload(t) \/ Open(t) PROVE UNCHANGED lease
  BY Zenon, <1>2 DEF TabIdle, Reconnect, StartSync, Upload, Ingest, SyncFails, Reload, Open, server
<1>3. ASSUME NEW t \in Tab,
             AskLease(t) \/ SaveLease(t) \/ LoadCatalog(t) \/ PrepareFails(t) \/ Answered(t)
      PROVE UNCHANGED lease
  BY Zenon, <1>3 DEF AskLease, SaveLease, LoadCatalog, PrepareFails, Answered, server
<1>4. ASSUME NEW t \in Tab, StartClose(t) \/ Suspend(t) \/ Close(t) \/ CloseFails(t)
      PROVE UNCHANGED lease
  BY Zenon, <1>4 DEF StartClose, Suspend, Close, CloseFails, server
<1>5. ASSUME NEW k \in Key, SubmitOffline(k) \/ SubmitOnline(k) \/ Reconcile(k)
      PROVE UNCHANGED lease
  BY Zenon, <1>5 DEF SubmitOffline, SubmitOnline, Reconcile, server
<1>6. ASSUME NEW t \in Tab, GrantLease(t)
      PROVE  \/ lease'[l] = lease[l]
             \/ /\ lease'[l].shift \in OpenShift /\ lease'[l].active
                /\ lease[l].shift = 0 \/ lease'[l].shift = lease[l].shift
  <2>1. PICK s \in OpenShift, m \in Leases :
          /\ lease' = [lease EXCEPT ![m] = [shift |-> s, active |-> TRUE]]
          /\ m \in ActiveOf(s) \/ lease[m].shift = 0
    BY Zenon, <1>6 DEF GrantLease
  <2> QED
    BY <2>1 DEF TabShapes, ActiveOf
<1>7. ASSUME NEW t \in Tab, Release(t)
      PROVE  \/ lease'[l] = lease[l]
             \/ /\ lease'[l].shift = lease[l].shift
                /\ closing[t].at = "releasing" /\ closing[t].lease = l
  <2>1. lease' = [lease EXCEPT ![closing[t].lease].active = FALSE] /\ closing[t].at = "releasing"
    BY Zenon, <1>7 DEF Release
  <2> QED
    BY <2>1 DEF TabShapes
<1> QED
  BY <1>1, <1>2, <1>3, <1>4, <1>5, <1>6, <1>7 DEF Next, WorldStep, TabIdle

LEMMA GrantsStay ==
  ASSUME OfflineClientAssumption, TabShapes, Next, NEW l, IsGranted(l)
  PROVE  IsGranted(l)' /\ lease'[l].shift = lease[l].shift
<1>1. l \in Leases /\ lease[l].shift # 0
  BY DEF IsGranted
<1>2. lease'[l].shift = lease[l].shift
  BY <1>1, LeaseStep
<1> QED
  BY <1>1, <1>2 DEF IsGranted

\* A sale appears in the outbox while no tab is locked out, under its lease.
LEMMA OutboxStep ==
  ASSUME OfflineClientAssumption, IInv, Next, NEW k \in Key
  PROVE  \/ outbox'[k] = NoEntry
         \/ outbox[k] # NoEntry /\ outbox'[k].lease = outbox[k].lease
         \/ /\ sell.at = "queueing" /\ outbox'[k].lease = sell.lease
            /\ ~state.suspended /\ sell.lease = state.lease
<1>0. CashShapes /\ CashIInv /\ outbox \in [Key -> Entry]
  BY DEF IInv, CashShapes
<1>1. CASE WorldStep \/ ForceClose
  BY Zenon, <1>1 DEF WorldStep, NetDown, NetUp, Receipt, RecordOnline, SaleFails, ForceClose, db
<1>2. ASSUME NEW t \in Tab, TabIdle(t) \/ Reload(t) PROVE UNCHANGED outbox
  BY Zenon, <1>2 DEF TabIdle, Reconnect, StartSync, Upload, Ingest, SyncFails, Reload, db
<1>3. ASSUME NEW t \in Tab, TabStep(t) PROVE UNCHANGED outbox
  BY <1>3, TabStepQuiet DEF CashVars
<1>4. ASSUME NEW i \in Key, SubmitOffline(i) \/ SubmitOnline(i) PROVE UNCHANGED outbox
  BY Zenon, <1>4 DEF SubmitOffline, SubmitOnline, db
<1>5. CASE Queue
  <2>1. \/ /\ outbox' = [outbox EXCEPT ![sell.key] = [lease |-> sell.lease, blocked |-> FALSE]]
           /\ sell.at = "queueing" /\ ~state.suspended /\ sell.lease = state.lease
        \/ UNCHANGED outbox
    BY Zenon, <1>5 DEF Queue, MayQueue
  <2> QED
    BY <1>0, <2>1
<1>6. ASSUME NEW t \in Tab, Answered(t)
      PROVE  outbox'[k] = NoEntry \/ (outbox[k] # NoEntry /\ outbox'[k].lease = outbox[k].lease)
  <2> DEFINE entry == Settled(t, sync[t].key)
  <2>1. outbox' = [outbox EXCEPT ![sync[t].key] = entry]
    BY Zenon, <1>6 DEF Answered
  <2>2. \/ entry = NoEntry
        \/ outbox[sync[t].key] # NoEntry /\ entry = [outbox[sync[t].key] EXCEPT !.blocked = TRUE]
    BY DEF Settled
  <2> HIDE DEF entry
  <2>3. CASE k # sync[t].key
    BY <1>0, <2>1, <2>3
  <2>4. CASE k = sync[t].key
    <3>1. outbox[k] \in Entry /\ outbox'[k] = entry
      BY <1>0, <2>1, <2>4
    <3> QED
      BY <2>2, <2>4, <3>1 DEF Entry
  <2> QED
    BY <2>3, <2>4
<1>7. ASSUME NEW i \in Key, Reconcile(i) PROVE outbox'[k] = outbox[k] \/ outbox'[k] = NoEntry
  <2>1. outbox' \in {outbox, [outbox EXCEPT ![i] = NoEntry]}
    BY Zenon, <1>7 DEF Reconcile
  <2> QED
    BY <1>0, <2>1
<1> QED
  BY <1>1, <1>2, <1>3, <1>4, <1>5, <1>6, <1>7 DEF Next, WorldStep, TabIdle, TabStep

\* A preparation goes on for its shift, with the lease it was given.
LEMMA PrepStep ==
  ASSUME OfflineClientAssumption, TabShapes, Next, NEW r \in Tab
  PROVE  \/ prep'[r].at = "idle" /\ prep'[r].lease = 0
         \/ prep'[r].shift # 0 /\ prep'[r].lease = 0
         \/ /\ prep'[r].at # "idle" => prep[r].at # "idle"
            /\ prep'[r].shift = prep[r].shift
            /\ prep'[r].lease = prep[r].lease \/ IsGranted(prep[r].lease)'
<1>0. prep \in [Tab -> Prep_]
  BY DEF TabShapes
<1>1. CASE WorldStep \/ ForceClose \/ Queue
  BY Zenon, <1>1 DEF WorldStep, NetDown, NetUp, Receipt, RecordOnline, SaleFails, ForceClose,
                     Queue, flows
<1>2. ASSUME NEW t \in Tab, TabIdle(t) \/ Open(t) \/ Answered(t) PROVE UNCHANGED prep
  BY Zenon, <1>2 DEF TabIdle, Reconnect, StartSync, Upload, Ingest, SyncFails, Open, Answered, flows
<1>3. ASSUME NEW t \in Tab, StartClose(t) \/ Suspend(t) \/ Release(t) \/ Close(t) \/ CloseFails(t)
      PROVE UNCHANGED prep
  BY Zenon, <1>3 DEF StartClose, Suspend, Release, Close, CloseFails
<1>4. ASSUME NEW k \in Key, SubmitOffline(k) \/ SubmitOnline(k) \/ Reconcile(k)
      PROVE UNCHANGED prep
  BY Zenon, <1>4 DEF SubmitOffline, SubmitOnline, Reconcile, flows
<1>5. ASSUME NEW t \in Tab, prep' = [prep EXCEPT ![t] = NotPreparing]
      PROVE  prep'[r] = prep[r] \/ (prep'[r].at = "idle" /\ prep'[r].lease = 0)
  BY <1>0, <1>5 DEF NotPreparing
<1>6. ASSUME NEW t \in Tab, Reload(t) \/ LoadCatalog(t) \/ PrepareFails(t)
      PROVE  prep' = [prep EXCEPT ![t] = NotPreparing]
  BY Zenon, <1>6 DEF Reload, LoadCatalog, PrepareFails
<1>7. ASSUME NEW t \in Tab, SaveLease(t)
      PROVE  \/ prep' = [prep EXCEPT ![t] = NotPreparing]
             \/ /\ prep'[r].at # "idle" => prep[r].at # "idle"
                /\ prep'[r].shift = prep[r].shift /\ prep'[r].lease = prep[r].lease
  <2>1. /\ prep[t].at = "granted"
        /\ \/ prep' = [prep EXCEPT ![t] = NotPreparing]
           \/ prep' = [prep EXCEPT ![t].at = "saved"]
    BY Zenon, <1>7 DEF SaveLease
  <2>2. CASE prep' = [prep EXCEPT ![t].at = "saved"]
    BY <1>0, <2>1, <2>2 DEF Prep_
  <2> QED
    BY <2>1, <2>2
<1>8. ASSUME NEW t \in Tab, AskLease(t)
      PROVE  prep'[r] = prep[r] \/ (prep'[r].shift # 0 /\ prep'[r].lease = 0)
  <2>1. PICK w : prep' = [prep EXCEPT ![t] =
                   [at |-> "asked", shift |-> tab[t].shift, lease |-> 0, warm |-> w]]
    BY Zenon, <1>8 DEF AskLease
  <2>2. tab[t].shift # 0
    BY Zenon, <1>8 DEF AskLease
  <2> QED
    BY <1>0, <2>1, <2>2
<1>9. ASSUME NEW t \in Tab, GrantLease(t)
      PROVE  /\ prep'[r].at # "idle" => prep[r].at # "idle"
             /\ prep'[r].shift = prep[r].shift
             /\ prep'[r].lease = prep[r].lease \/ IsGranted(prep[r].lease)'
  <2>1. PICK s \in OpenShift, l \in Leases :
          /\ lease' = [lease EXCEPT ![l] = [shift |-> s, active |-> TRUE]]
          /\ prep' = [prep EXCEPT ![t].at = "granted", ![t].lease = l]
    BY Zenon, <1>9 DEF GrantLease
  <2>2. prep[t].at = "asked"
    BY Zenon, <1>9 DEF GrantLease
  <2>3. IsGranted(l)'
    BY <2>1, Zero, OpenShiftShape DEF IsGranted, TabShapes
  <2>4. CASE r = t
    <3>1. prep'[r].shift = prep[r].shift /\ prep'[r].lease = l
      BY <1>0, <2>1, <2>4 DEF Prep_
    <3> QED
      BY <2>2, <2>3, <2>4, <3>1 DEF IsGranted
  <2>5. CASE r # t
    <3>1. prep'[r] = prep[r]
      BY <1>0, <2>1, <2>5
    <3> QED
      BY <3>1
  <2> QED
    BY <2>4, <2>5
<1> QED
  BY <1>1, <1>2, <1>3, <1>4, <1>5, <1>6, <1>7, <1>8, <1>9 DEF Next, WorldStep, TabIdle

\* A sale is queued under the browser's lease.
LEMMA SellStep ==
  ASSUME IInv, Next, sell'.at = "queueing"
  PROVE  \/ sell.at = "queueing" /\ sell'.lease = sell.lease
         \/ sell'.lease = state.lease /\ state.lease # 0
<1>0. sell \in Sale_
  BY DEF IInv, CashShapes
<1>1. CASE NetDown \/ NetUp \/ ForceClose
  BY Zenon, <1>1 DEF NetDown, NetUp, ForceClose, till
<1>2. CASE Queue
  <2>1. sell.at = "queueing" /\ (sell' = NotSelling \/ sell' = [sell EXCEPT !.at = "queued"])
    BY Zenon, <1>2 DEF Queue
  <2> QED
    BY <1>0, <2>1 DEF Sale_, NotSelling
<1>3. CASE Receipt \/ SaleFails
  <2>1. sell' = NotSelling
    BY Zenon, <1>3 DEF Receipt, SaleFails
  <2> QED
    BY <2>1 DEF NotSelling
<1>4. CASE RecordOnline
  <2>1. sell' = [sell EXCEPT !.at = "answered"]
    BY Zenon, <1>4 DEF RecordOnline
  <2> QED
    BY <1>0, <2>1 DEF Sale_
<1>5. ASSUME NEW t \in Tab, TabStep(t) PROVE UNCHANGED sell
  BY <1>5, TabStepQuiet DEF CashVars
<1>6. ASSUME NEW t \in Tab, StartSync(t) \/ Upload(t) \/ Ingest(t) \/ Answered(t) \/ SyncFails(t)
      PROVE UNCHANGED sell
  BY Zenon, <1>6 DEF StartSync, Upload, Ingest, Answered, SyncFails, till
<1>7. ASSUME NEW t \in Tab, Reload(t) PROVE UNCHANGED sell
  <2>1. sell' = NotSelling \/ sell' = sell
    BY Zenon, <1>7 DEF Reload
  <2> QED
    BY <2>1 DEF NotSelling
<1>8. ASSUME NEW k \in Key, SubmitOffline(k) PROVE sell'.lease = state.lease /\ state.lease # 0
  <2>1. \/ sell' = [at |-> "queued", key |-> k, lease |-> outbox[k].lease]
        \/ state.lease # 0 /\ sell' = [at |-> "queueing", key |-> k, lease |-> state.lease]
        \/ sell' = NotSelling
    BY Zenon, <1>8 DEF SubmitOffline
  <2> QED
    BY <2>1 DEF NotSelling
<1>9. ASSUME NEW k \in Key, SubmitOnline(k) PROVE FALSE
  <2>1. sell' = [at |-> "online", key |-> k, lease |-> 0]
    BY Zenon, <1>9 DEF SubmitOnline
  <2> QED
    BY <2>1
<1>10. ASSUME NEW k \in Key, Reconcile(k) PROVE UNCHANGED sell
  BY Zenon, <1>10 DEF Reconcile, till
<1> QED
  BY <1>1, <1>2, <1>3, <1>4, <1>5, <1>6, <1>7, <1>8, <1>9, <1>10 DEF Next, TabStep

\* A tab goes on to release the lease once it locked every tab out.
LEMMA ClosingStep ==
  ASSUME TabShapes, Next, NEW r \in Tab, closing'[r].at = "releasing"
  PROVE  \/ closing[r].at = "releasing" /\ closing'[r].lease = closing[r].lease
         \/ closing'[r].lease = state.lease /\ state.lease # 0 /\ Locks
<1>0. closing \in [Tab -> Closing_] /\ state \in State_
  BY DEF TabShapes
<1>1. CASE WorldStep \/ ForceClose \/ Queue
  BY Zenon, <1>1 DEF WorldStep, NetDown, NetUp, Receipt, RecordOnline, SaleFails, ForceClose,
                     Queue, flows
<1>2. ASSUME NEW t \in Tab, TabIdle(t) \/ Open(t) \/ Answered(t) PROVE UNCHANGED closing
  BY Zenon, <1>2 DEF TabIdle, Reconnect, StartSync, Upload, Ingest, SyncFails, Open, Answered, flows
<1>3. ASSUME NEW t \in Tab,
             AskLease(t) \/ GrantLease(t) \/ SaveLease(t) \/ LoadCatalog(t) \/ PrepareFails(t)
      PROVE UNCHANGED closing
  BY Zenon, <1>3 DEF AskLease, GrantLease, SaveLease, LoadCatalog, PrepareFails
<1>4. ASSUME NEW k \in Key, SubmitOffline(k) \/ SubmitOnline(k) \/ Reconcile(k)
      PROVE UNCHANGED closing
  BY Zenon, <1>4 DEF SubmitOffline, SubmitOnline, Reconcile, flows
<1>5. ASSUME NEW t \in Tab, Reload(t) \/ StartClose(t) \/ Release(t) \/ Close(t) \/ CloseFails(t)
      PROVE  closing[r].at = "releasing" /\ closing'[r].lease = closing[r].lease
  <2>1. \/ closing' = [closing EXCEPT ![t] = NotClosing]
        \/ closing' = [closing EXCEPT ![t].at = "syncing"]
        \/ closing' = [closing EXCEPT ![t].at = "closing"]
    BY Zenon, <1>5 DEF Reload, StartClose, Release, Close, CloseFails
  <2> QED
    BY <1>0, <2>1 DEF NotClosing, Closing_
<1>6. ASSUME NEW t \in Tab, Suspend(t)
      PROVE  \/ closing[r].at = "releasing" /\ closing'[r].lease = closing[r].lease
             \/ closing'[r].lease = state.lease /\ state.lease # 0 /\ Locks
  <2>1. \/ closing' = [closing EXCEPT ![t] = NotClosing]
        \/ closing' = [closing EXCEPT ![t] = [at |-> "closing", lease |-> 0]]
        \/ /\ state.lease # 0 /\ Pending = {}
           /\ state' = [state EXCEPT !.suspended = TRUE]
           /\ closing' = [closing EXCEPT ![t] = [at |-> "releasing", lease |-> state.lease]]
           /\ lockout' = [s \in Shifts |->
                 IF s = ShiftOf(state.lease) THEN "locked" ELSE lockout[s]]
    BY Zenon, <1>6 DEF Suspend
  <2>2. UNCHANGED << outbox, lease >>
    BY Zenon, <1>6 DEF Suspend, server
  <2>3. CASE closing' = [closing EXCEPT ![t] = NotClosing]
    BY <1>0, <2>3 DEF NotClosing
  <2>4. CASE closing' = [closing EXCEPT ![t] = [at |-> "closing", lease |-> 0]]
    BY <1>0, <2>4
  <2>5. CASE /\ state.lease # 0 /\ Pending = {}
             /\ state' = [state EXCEPT !.suspended = TRUE]
             /\ closing' = [closing EXCEPT ![t] = [at |-> "releasing", lease |-> state.lease]]
             /\ lockout' = [s \in Shifts |->
                   IF s = ShiftOf(state.lease) THEN "locked" ELSE lockout[s]]
    <3>1. state'.suspended /\ state'.lease = state.lease
      BY <1>0, <2>5 DEF State_
    <3>2. Locks
      BY Zenon, <2>2, <2>5, <3>1 DEF Locks
    <3>3. CASE r = t
      BY <1>0, <2>5, <3>2, <3>3
    <3>4. CASE r # t
      BY <1>0, <2>5, <3>4
    <3> QED
      BY <3>3, <3>4
  <2> QED
    BY <2>1, <2>3, <2>4, <2>5
<1> QED
  BY <1>1, <1>2, <1>3, <1>4, <1>5, <1>6 DEF Next, WorldStep, TabIdle

\* A cashier closes an open shift that has no active lease.
LEMMA ShiftStep ==
  ASSUME TabShapes, Next, NEW s \in Shifts, shift'[s] = "OWN"
  PROVE  shift[s] = "OWN" \/ (shift[s] = "OPEN" /\ ActiveOf(s) = {} /\ UNCHANGED lease)
<1>1. CASE WorldStep \/ Queue
  BY Zenon, <1>1 DEF WorldStep, NetDown, NetUp, Receipt, RecordOnline, SaleFails, Queue, server
<1>2. ASSUME NEW t \in Tab, TabIdle(t) \/ Reload(t) \/ Answered(t) PROVE UNCHANGED shift
  BY Zenon, <1>2 DEF TabIdle, Reconnect, StartSync, Upload, Ingest, SyncFails, Reload, Answered,
                     server
<1>3. ASSUME NEW t \in Tab,
             AskLease(t) \/ GrantLease(t) \/ SaveLease(t) \/ LoadCatalog(t) \/ PrepareFails(t)
      PROVE UNCHANGED shift
  BY Zenon, <1>3 DEF AskLease, GrantLease, SaveLease, LoadCatalog, PrepareFails, server
<1>4. ASSUME NEW t \in Tab, StartClose(t) \/ Suspend(t) \/ Release(t) \/ CloseFails(t)
      PROVE UNCHANGED shift
  BY Zenon, <1>4 DEF StartClose, Suspend, Release, CloseFails, server
<1>5. ASSUME NEW k \in Key, SubmitOffline(k) \/ SubmitOnline(k) \/ Reconcile(k)
      PROVE UNCHANGED shift
  BY Zenon, <1>5 DEF SubmitOffline, SubmitOnline, Reconcile, server
<1>6. CASE ForceClose
  <2>1. PICK o \in OpenShift : shift' = [shift EXCEPT ![o] = "FORCED"]
    BY Zenon, <1>6 DEF ForceClose
  <2> QED
    BY <2>1 DEF TabShapes
<1>7. ASSUME NEW t \in Tab, Open(t) PROVE shift[s] = "OWN"
  <2>1. PICK o \in Shifts : shift' = [shift EXCEPT ![o] = "OPEN"]
    BY Zenon, <1>7 DEF Open
  <2> QED
    BY <2>1 DEF TabShapes
<1>8. ASSUME NEW t \in Tab, Close(t)
      PROVE  shift[s] = "OWN" \/ (shift[s] = "OPEN" /\ ActiveOf(s) = {} /\ UNCHANGED lease)
  <2>1. \/ UNCHANGED shift
        \/ \E o \in OpenShift : ActiveOf(o) = {} /\ shift' = [shift EXCEPT ![o] = "OWN"]
    BY Zenon, <1>8 DEF Close
  <2>2. UNCHANGED lease
    BY Zenon, <1>8 DEF Close
  <2>3. ASSUME NEW o \in OpenShift, ActiveOf(o) = {}, shift' = [shift EXCEPT ![o] = "OWN"], s # o
        PROVE  shift[s] = "OWN"
    BY <2>3 DEF TabShapes
  <2> QED
    BY <2>1, <2>2, <2>3 DEF OpenShift
<1> QED
  BY <1>1, <1>2, <1>3, <1>4, <1>5, <1>6, <1>7, <1>8 DEF Next, WorldStep, TabIdle

-----------------------------------------------------------------------------
\* The close of a shift

LEMMA KnownGrantedStep ==
  ASSUME OfflineClientAssumption, IInv, KnownGranted, Next
  PROVE  KnownGranted'
<1>0. TabShapes /\ CashShapes
  BY DEF IInv
<1>1. state'.lease # 0 => IsGranted(state.lease)'
  <2>1. CASE state'.lease = state.lease
    BY <1>0, <2>1, GrantsStay DEF KnownGranted, IsGranted
  <2>2. ASSUME NEW t \in Tab, SaveLease(t), state'.lease # state.lease
        PROVE  state'.lease # 0 => IsGranted(state.lease)'
    <3>1. state'.lease = prep[t].lease
      <4>1. \/ UNCHANGED state
            \/ \E warm : state' = [lease |-> prep[t].lease, suspended |-> FALSE, cached |-> warm]
        BY Zenon, <2>2 DEF SaveLease
      <4> QED
        BY <2>2, <4>1
    <3> QED
      BY <1>0, <3>1, GrantsStay DEF KnownGranted, IsGranted
  <2> QED
    BY <1>0, <2>1, <2>2, StateStep
<1>2. ASSUME NEW t \in Tab
      PROVE  /\ prep'[t].lease # 0 => IsGranted(prep[t].lease)'
             /\ prep'[t].at # "idle" => prep'[t].shift # 0
  <2>1. prep[t].lease # 0 => IsGranted(prep[t].lease)
    BY DEF KnownGranted
  <2>2. prep[t].at # "idle" => prep[t].shift # 0
    BY DEF KnownGranted
  <2>3. CASE prep'[t].lease = prep[t].lease
    BY <1>0, <2>1, <2>2, <2>3, PrepStep, GrantsStay DEF IsGranted
  <2>4. CASE prep'[t].lease # prep[t].lease
    BY <1>0, <2>2, <2>4, PrepStep
  <2> QED
    BY <2>3, <2>4
<1>3. ASSUME NEW k \in Key, outbox'[k] # NoEntry PROVE IsGranted(outbox[k].lease)'
  <2>1. \/ outbox[k] # NoEntry /\ outbox'[k].lease = outbox[k].lease
        \/ sell.at = "queueing" /\ outbox'[k].lease = sell.lease
    BY <1>3, OutboxStep
  <2> QED
    BY <1>0, <2>1, GrantsStay DEF KnownGranted, IsGranted
<1>4. ASSUME sell'.at = "queueing" PROVE IsGranted(sell.lease)'
  <2>1. \/ sell.at = "queueing" /\ sell'.lease = sell.lease
        \/ sell'.lease = state.lease /\ state.lease # 0
    BY <1>4, SellStep
  <2> QED
    BY <1>0, <2>1, GrantsStay DEF KnownGranted, IsGranted
<1> QED
  BY <1>1, <1>2, <1>3, <1>4 DEF KnownGranted

LEMMA GrantedShift ==
  ASSUME OfflineClientAssumption, TabShapes, NEW l, IsGranted(l)
  PROVE  lease[l].shift \in Shifts /\ ShiftOf(l) = lease[l].shift
<1>1. l \in Leases /\ lease[l].shift \in NoShift /\ lease[l].shift # 0
  BY DEF IsGranted, TabShapes
<1> QED
  BY <1>1, Zero DEF ShiftOf

\* A shift's tabs, once locked out, are never as if they had not been.
LEMMA NoneStep ==
  ASSUME TabShapes, LockShape, Next, NEW s \in Shifts, lockout'[s] = "none"
  PROVE  lockout[s] = "none"
<1>1. ASSUME NEW t \in Tab, Lifts(t) PROVE lockout[s] = "none"
  BY <1>1 DEF Lifts, LockShape
<1>2. CASE Locks
  BY <1>2 DEF Locks
<1> QED
  BY <1>1, <1>2, LockoutStep

LEMMA LockHoldsStep ==
  ASSUME OfflineClientAssumption, IInv, LockShape, KnownGranted, Next,
         NEW s \in Shifts, LockHolds(s)
  PROVE  LockHolds(s)'
<1>0. TabShapes /\ CashShapes /\ 0 \notin Shifts
  BY Zero DEF IInv
<1> SUFFICES ASSUME lockout'[s] = "locked"
             PROVE  /\ ShiftOf(state.lease)' = s => state'.suspended
                    /\ \A k \in Key : outbox'[k] # NoEntry => lease'[outbox'[k].lease].shift # s
  BY DEF LockHolds
<1>1. CASE Locks /\ s = ShiftOf(state.lease)
  <2>1. Pending = {} /\ UNCHANGED outbox /\ state'.suspended
    BY Zenon, <1>1 DEF Locks
  <2> QED
    BY <2>1 DEF Pending
<1>2. CASE lockout[s] = "locked"
  <2>1. /\ ShiftOf(state.lease) = s => state.suspended
        /\ \A k \in Key : outbox[k] # NoEntry => lease[outbox[k].lease].shift # s
    BY <1>2 DEF LockHolds
  <2>2. ShiftOf(state.lease)' = s => state'.suspended
    <3>1. CASE state'.lease = state.lease /\ (state.suspended => state'.suspended)
      <4>1. CASE state.lease = 0
        BY <1>0, <3>1, <4>1 DEF ShiftOf
      <4>2. CASE state.lease # 0
        BY <1>0, <2>1, <3>1, <4>2, GrantsStay DEF KnownGranted, ShiftOf
      <4> QED
        BY <4>1, <4>2
    <3>2. ASSUME NEW t \in Tab, Lifts(t) PROVE ShiftOf(state.lease)' # s
      <4>1. /\ state'.lease = prep[t].lease /\ UNCHANGED lease
            /\ lockout' = [lockout EXCEPT ![ShiftOf(prep[t].lease)] =
                             IF @ = "none" THEN @ ELSE "lifted"]
        BY Zenon, <3>2 DEF Lifts
      <4>2. ShiftOf(prep[t].lease) # s
        BY <1>2, <4>1 DEF LockShape
      <4> QED
        BY <4>1, <4>2 DEF ShiftOf
    <3>3. CASE \E t \in Tab : SaveLease(t)
      <4>1. CASE UNCHANGED state
        BY <3>1, <4>1
      <4>2. CASE Locks
        BY <3>1, <4>2 DEF Locks
      <4> QED
        BY <1>0, <3>2, <3>3, <4>1, <4>2, LockoutStep
    <3> QED
      BY <1>0, <3>1, <3>3, StateStep
  <2>3. ASSUME NEW k \in Key, outbox'[k] # NoEntry PROVE lease'[outbox'[k].lease].shift # s
    <3>1. CASE outbox[k] # NoEntry /\ outbox'[k].lease = outbox[k].lease
      BY <1>0, <2>1, <3>1, GrantsStay DEF KnownGranted
    <3>2. CASE /\ sell.at = "queueing" /\ outbox'[k].lease = sell.lease
               /\ ~state.suspended /\ sell.lease = state.lease
      <4>1. IsGranted(state.lease)
        BY <3>2 DEF KnownGranted
      <4>2. lease[state.lease].shift # s
        BY <1>0, <2>1, <3>2, <4>1, GrantedShift
      <4> QED
        BY <1>0, <3>2, <4>1, <4>2, GrantsStay
    <3> QED
      BY <2>3, <3>1, <3>2, OutboxStep
  <2> QED
    BY <2>2, <2>3
<1>3. lockout[s] = "locked" \/ (Locks /\ s = ShiftOf(state.lease))
  <2>1. ASSUME NEW t \in Tab, Lifts(t) PROVE lockout[s] = "locked"
    BY <2>1 DEF Lifts, LockShape
  <2>2. CASE Locks
    BY <2>2 DEF Locks
  <2> QED
    BY <1>0, <2>1, <2>2, LockoutStep
<1> QED
  BY <1>1, <1>2, <1>3

LEMMA LockedFirstStep ==
  ASSUME OfflineClientAssumption, IInv, LockShape, KnownGranted, LockedFirst, Next
  PROVE  LockedFirst'
<1>0. TabShapes
  BY DEF IInv
<1>1. ASSUME NEW t \in Tab, closing'[t].at = "releasing"
      PROVE  /\ IsGranted(closing[t].lease)'
             /\ lockout'[lease'[closing'[t].lease].shift] # "none"
  <2>1. CASE closing[t].at = "releasing" /\ closing'[t].lease = closing[t].lease
    <3>1. IsGranted(closing[t].lease) /\ lockout[lease[closing[t].lease].shift] # "none"
      BY <2>1 DEF LockedFirst
    <3>2. /\ lease[closing[t].lease].shift \in Shifts
          /\ lease'[closing[t].lease].shift = lease[closing[t].lease].shift
          /\ closing[t].lease \in Leases /\ lease'[closing[t].lease].shift # 0
      BY <1>0, <3>1, GrantedShift, GrantsStay DEF IsGranted
    <3>3. lockout'[lease[closing[t].lease].shift] # "none"
      BY <1>0, <3>1, <3>2, NoneStep
    <3> QED
      BY <2>1, <3>2, <3>3 DEF IsGranted
  <2>2. CASE closing'[t].lease = state.lease /\ state.lease # 0 /\ Locks
    <3>1. IsGranted(state.lease)
      BY <2>2 DEF KnownGranted
    <3>2. lease[state.lease].shift \in Shifts /\ ShiftOf(state.lease) = lease[state.lease].shift
      BY <1>0, <3>1, GrantedShift
    <3>3. UNCHANGED lease /\ lockout'[ShiftOf(state.lease)] = "locked"
      BY <2>2, <3>2 DEF Locks
    <3> QED
      BY <2>2, <3>1, <3>2, <3>3 DEF IsGranted
  <2> QED
    BY <1>0, <1>1, <2>1, <2>2, ClosingStep
<1>2. ASSUME NEW l \in Leases, IsGranted(l)', ~lease'[l].active \/ shift'[lease'[l].shift] = "OWN"
      PROVE  lockout'[lease'[l].shift] # "none"
  <2>1. CASE IsGranted(l) /\ lockout[lease[l].shift] # "none"
    <3>1. lease[l].shift \in Shifts /\ lease'[l].shift = lease[l].shift
      BY <1>0, <2>1, GrantedShift, GrantsStay
    <3> QED
      BY <1>0, <2>1, <3>1, NoneStep
  <2>2. CASE lease'[l] = lease[l]
    <3>1. IsGranted(l)
      BY <1>2, <2>2 DEF IsGranted
    <3>2. lease[l].shift \in Shifts
      BY <1>0, <3>1, GrantedShift
    <3>3. CASE ~lease[l].active \/ shift[lease[l].shift] = "OWN"
      BY <2>1, <3>1, <3>3 DEF LockedFirst
    <3>4. CASE lease[l].active /\ shift[lease[l].shift] # "OWN"
      <4>1. shift'[lease[l].shift] = "OWN"
        BY <1>2, <2>2, <3>4
      <4>2. ActiveOf(lease[l].shift) = {}
        BY <1>0, <3>2, <3>4, <4>1, ShiftStep
      <4> QED
        BY <3>4, <4>2 DEF ActiveOf
    <3> QED
      BY <3>3, <3>4
  <2>3. CASE /\ lease'[l].shift \in OpenShift /\ lease'[l].active
             /\ lease[l].shift = 0 \/ lease'[l].shift = lease[l].shift
    <3> DEFINE s == lease'[l].shift
    <3>1. s \in Shifts /\ shift[s] = "OPEN" /\ shift'[s] = "OWN"
      BY <1>2, <2>3 DEF OpenShift
    <3>2. ActiveOf(s) = {} /\ UNCHANGED lease
      BY <1>0, <3>1, ShiftStep
    <3> QED
      BY <2>2, <3>2
  <2>4. CASE /\ lease'[l].shift = lease[l].shift
             /\ \E t \in Tab : closing[t].at = "releasing" /\ closing[t].lease = l
    BY <2>1, <2>4 DEF LockedFirst
  <2> QED
    BY <1>0, <2>2, <2>3, <2>4, LeaseStep
<1> QED
  BY <1>1, <1>2 DEF LockedFirst

\* A cashier's own close leaves no cash behind, for any number of shifts, leases
\* and tabs: while the tabs are locked out of a shift's leases no sale of it is
\* waiting or can still be queued, and the lock is not lifted while one of these
\* is the stored lease, only after another shift's was stored in its place
\* (offline.ts beforeClose, database.ts suspendOffline, saveOfflineState).
THEOREM OwnCloseIsClean == OfflineClientAssumption => (Spec => OwnCloseLeavesNothing)
<1> SUFFICES ASSUME OfflineClientAssumption PROVE Spec => OwnCloseLeavesNothing
  OBVIOUS
<1> DEFINE Clean == \A k \in Pending : LET s == lease[outbox[k].lease].shift IN
                      shift[s] = "OWN" => lockout[s] = "lifted"
           Lifted == \A s \in Shifts : lockout[s] = "locked" /\ lockout'[s] = "lifted"
                                         => ShiftOf(state.lease) # s
<1>1. Init => KnownGranted /\ CloseHolds
  <2> SUFFICES ASSUME Init PROVE KnownGranted /\ CloseHolds
    OBVIOUS
  <2>1. /\ state.lease = 0 /\ \A t \in Tab : prep[t].lease = 0 /\ prep[t].at = "idle"
        /\ \A k \in Key : outbox[k] = NoEntry
        /\ \A t \in Tab : closing[t].at = "idle"
    BY DEF Init, NotPreparing, NotClosing
  <2>2. sell.at = "idle"
    BY DEF Init, NotSelling
  <2>3. \A l \in Leases : ~IsGranted(l)
    BY DEF Init, IsGranted
  <2>4. \A s \in Shifts : lockout[s] = "none"
    BY DEF Init
  <2> QED
    BY <2>1, <2>2, <2>3, <2>4 DEF KnownGranted, CloseHolds, LockHolds, LockedFirst
<1>2. IInv /\ LockShape /\ KnownGranted /\ CloseHolds /\ [Next]_vars => KnownGranted' /\ CloseHolds'
  <2>1. ASSUME IInv, LockShape, KnownGranted, CloseHolds, Next PROVE KnownGranted' /\ CloseHolds'
    <3>1. Shifts' = Shifts /\ \A s \in Shifts : LockHolds(s)'
      BY <2>1, LockHoldsStep DEF CloseHolds, Shifts
    <3> QED
      BY <2>1, <3>1, KnownGrantedStep, LockedFirstStep DEF CloseHolds
  <2>2. KnownGranted /\ CloseHolds /\ UNCHANGED vars => KnownGranted' /\ CloseHolds'
    BY DEF KnownGranted, CloseHolds, LockHolds, LockedFirst, ShiftOf, IsGranted,
           vars, db, flows, till, server
  <2> QED
    BY <2>1, <2>2
<1>3. CloseIInv => Clean
  <2> SUFFICES ASSUME CloseIInv, NEW k \in Pending, shift[lease[outbox[k].lease].shift] = "OWN"
               PROVE  lockout[lease[outbox[k].lease].shift] = "lifted"
    OBVIOUS
  <2> DEFINE l == outbox[k].lease
  <2>1. k \in Key /\ outbox[k] # NoEntry /\ IsGranted(l) /\ TabShapes
    BY DEF Pending, CloseIInv, KnownGranted, IInv
  <2>2. l \in Leases /\ lease[l].shift \in Shifts
    BY <2>1, GrantedShift DEF IsGranted
  <2>3. lockout[lease[l].shift] # "none"
    BY <2>1, <2>2 DEF CloseIInv, CloseHolds, LockedFirst
  <2>4. lockout[lease[l].shift] # "locked"
    BY <2>1, <2>2 DEF CloseIInv, CloseHolds, LockHolds
  <2> QED
    BY <2>2, <2>3, <2>4 DEF CloseIInv, LockShape
<1>4. CloseIInv /\ [Next]_vars => [Lifted]_vars
  <2> SUFFICES ASSUME CloseIInv, Next, NEW s \in Shifts,
                      lockout[s] = "locked", lockout'[s] = "lifted"
               PROVE  ShiftOf(state.lease) # s
    OBVIOUS
  <2>0. TabShapes
    BY DEF CloseIInv, IInv
  <2>1. PICK t \in Tab : Lifts(t)
    <3>1. CASE Locks
      BY <3>1 DEF Locks
    <3> QED
      BY <2>0, <3>1, LockoutStep
  <2>2. /\ MaySave(t, prep[t].lease)
        /\ lockout' = [lockout EXCEPT ![ShiftOf(prep[t].lease)] = IF @ = "none" THEN @ ELSE "lifted"]
    BY Zenon, <2>1 DEF Lifts
  <2>3. ShiftOf(prep[t].lease) = s
    BY <2>2 DEF CloseIInv, LockShape
  <2>4. ShiftOf(state.lease) = s => state.suspended
    BY DEF CloseIInv, CloseHolds, LockHolds
  <2> QED
    BY <2>2, <2>3, <2>4 DEF MaySave, Paused
<1> QED
  BY <1>1, <1>2, <1>3, <1>4, Invariance, LockShapes, PTL DEF Spec, CloseIInv, OwnCloseLeavesNothing
=============================================================================
