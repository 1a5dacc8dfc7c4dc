--------------------------- MODULE OfflineClient ---------------------------
(***************************************************************************)
(* A cashier's browser when the network comes and goes: its tabs share     *)
(* IndexedDB (the offline lease with its catalogue, and the outbox of cash *)
(* collected offline), prepare offline cash, upload the outbox and close   *)
(* the shift.                                                              *)
(*                                                                         *)
(* An action is what a tab does between two awaits, one IndexedDB          *)
(* transaction, or one request handled by the server.  A request fails     *)
(* only while the network is down: before the server saw it, or after.     *)
(* The catalogue is there or not (OfflineCatalog is about its contents),   *)
(* and uploads go in any order.                                            *)
(***************************************************************************)
EXTENDS Integers, FiniteSets

CONSTANTS
    Tab, Register,  \* the tabs, and the one where sales are rung up
    Key,            \* tickets, each with its idempotency key
    MaxShifts, MaxLeases, MaxDrops, MaxReloads,  \* bounds
    ForcedCloses    \* an ADMIN may close the shift

OfflineClientAssumption ==
    /\ Register \in Tab /\ ForcedCloses \in BOOLEAN
    /\ MaxShifts \in Nat /\ MaxLeases \in Nat /\ MaxDrops \in Nat /\ MaxReloads \in Nat

VARIABLES
    state,    \* IndexedDB "state": lease (0: none), suspended, products cached
    outbox,   \* IndexedDB "outbox": the sale of each ticket, or NoEntry
    tab,      \* tab[t]: its shift (0: none), its copy of the lease, connected
    prep,     \* prep[t]: prepareOnce
    sync,     \* sync[t]: sync
    closing,  \* closing[t]: closeShift
    sell,     \* the sale being submitted in the register
    attempt,  \* the basket's saved checkout attempt: a ticket, or NoKey
    taken,    \* tickets whose offline receipt was shown
    lease,    \* the server's leases: shift and active
    shift,    \* the server's shifts: "NONE", "OPEN", "OWN" or "FORCED" (closed)
    recorded, \* the server's sales: "no", "online" or "offline"
    net, drops, reloads,
    lockout   \* history: of the tabs from each shift's leases, "none", "locked"
              \* for its close, or "lifted" by storing one of them again

db == << state, outbox >>
flows == << prep, sync, closing >>
till == << sell, attempt, taken >>
server == << lease, shift, recorded >>
world == << net, drops, reloads >>
vars == << db, tab, flows, till, server, world, lockout >>

NoKey == "no ticket"
NoEntry == [lease |-> 0, blocked |-> FALSE]
Shifts == 1..MaxShifts
Leases == 1..MaxLeases
NotPreparing == [at |-> "idle", shift |-> 0, lease |-> 0, warm |-> 0]
NotSyncing == [at |-> "idle", rows |-> {}, key |-> NoKey, lease |-> 0, ok |-> FALSE]
NotClosing == [at |-> "idle", lease |-> 0]
NotSelling == [at |-> "idle", key |-> NoKey, lease |-> 0]

OpenShift == {s \in Shifts : shift[s] = "OPEN"}
ShiftOf(l) == IF l = 0 THEN 0 ELSE lease[l].shift
Pending == {k \in Key : outbox[k] # NoEntry}
ActiveOf(s) == {l \in Leases : lease[l].shift = s /\ lease[l].active}

Init ==
    /\ state = [lease |-> 0, suspended |-> FALSE, cached |-> FALSE]
    /\ outbox = [k \in Key |-> NoEntry]
    /\ tab = [t \in Tab |-> [shift |-> 0, lease |-> 0, connected |-> TRUE]]
    /\ prep = [t \in Tab |-> NotPreparing]
    /\ sync = [t \in Tab |-> NotSyncing]
    /\ closing = [t \in Tab |-> NotClosing]
    /\ sell = NotSelling /\ attempt = NoKey /\ taken = {}
    /\ lease = [l \in Leases |-> [shift |-> 0, active |-> FALSE]]
    /\ shift = [s \in Shifts |-> "NONE"]
    /\ recorded = [k \in Key |-> "no"]
    /\ net = TRUE /\ drops = 0 /\ reloads = 0
    /\ lockout = [s \in Shifts |-> "none"]

\* The state has its shape; a sale being submitted is the saved attempt's, and
\* an upload that goes on has a sale to send.
TypeOK ==
    /\ state \in [lease : 0..MaxLeases, suspended : BOOLEAN, cached : BOOLEAN]
    /\ outbox \in [Key -> [lease : 0..MaxLeases, blocked : BOOLEAN]]
    /\ tab \in [Tab -> [shift : 0..MaxShifts, lease : 0..MaxLeases, connected : BOOLEAN]]
    /\ \A t \in Tab :
         /\ prep[t].at \in {"idle", "asked", "granted", "saved"}
         /\ sync[t].at \in {"idle", "next", "sent", "answered"} /\ sync[t].rows \subseteq Key
         /\ sync[t].at = "next" => sync[t].rows # {}
         /\ closing[t].at \in {"idle", "syncing", "releasing", "closing"}
    /\ sell.at \in {"idle", "queueing", "queued", "online", "answered"}
    /\ sell.at # "idle" => sell.key = attempt
    /\ attempt \in Key \cup {NoKey} /\ taken \subseteq Key
    /\ lease \in [Leases -> [shift : 0..MaxShifts, active : BOOLEAN]]
    /\ shift \in [Shifts -> {"NONE", "OPEN", "OWN", "FORCED"}]
    /\ recorded \in [Key -> {"no", "online", "offline"}]
    /\ net \in BOOLEAN /\ drops \in 0..MaxDrops /\ reloads \in 0..MaxReloads
    /\ lockout \in [Shifts -> {"none", "locked", "lifted"}]

-----------------------------------------------------------------------------
\* Network, tabs and shifts

NetDown ==
    /\ net /\ drops < MaxDrops
    /\ net' = FALSE /\ drops' = drops + 1
    /\ tab' = [t \in Tab |-> [tab[t] EXCEPT !.connected = FALSE]]
    /\ UNCHANGED << db, flows, till, server, reloads, lockout >>

NetUp ==
    /\ ~net /\ net' = TRUE
    /\ UNCHANGED << db, tab, flows, till, server, drops, reloads, lockout >>

\* retry, on the online event and every 30 seconds.
Reconnect(t) ==
    /\ net /\ ~tab[t].connected
    /\ tab' = [tab EXCEPT ![t].connected = TRUE]
    /\ UNCHANGED << db, flows, till, server, world, lockout >>

\* A reload or a crash ends what the tab was doing; it starts again from
\* IndexedDB, the saved basket and the server's shift.
Reload(t) ==
    /\ reloads < MaxReloads /\ reloads' = reloads + 1
    /\ \E s \in IF net THEN IF OpenShift = {} THEN {0} ELSE OpenShift
                ELSE {IF state.cached /\ ~state.suspended THEN ShiftOf(state.lease) ELSE 0} :
         tab' = [tab EXCEPT ![t] = [shift |-> s, lease |-> state.lease, connected |-> net]]
    /\ prep' = [prep EXCEPT ![t] = NotPreparing]
    /\ sync' = [sync EXCEPT ![t] = NotSyncing]
    /\ closing' = [closing EXCEPT ![t] = NotClosing]
    /\ sell' = (IF t = Register THEN NotSelling ELSE sell)
    /\ UNCHANGED << db, attempt, taken, server, net, drops, lockout >>

\* Opening resumes the shift that another tab opened.
Open(t) ==
    /\ net /\ tab[t].shift = 0
    /\ \E s \in Shifts :
         /\ IF OpenShift = {} THEN shift[s] = "NONE" /\ \A r \in 1..(s - 1) : shift[r] # "NONE"
                              ELSE s \in OpenShift
         /\ shift' = [shift EXCEPT ![s] = "OPEN"]
         /\ tab' = [tab EXCEPT ![t].shift = s]
    /\ UNCHANGED << db, flows, till, lease, recorded, world, lockout >>

ForceClose ==
    /\ ForcedCloses
    /\ \E s \in OpenShift : shift' = [shift EXCEPT ![s] = "FORCED"]
    /\ UNCHANGED << db, tab, flows, till, lease, recorded, world, lockout >>

-----------------------------------------------------------------------------
\* Preparing offline cash

Paused(s) == state.suspended /\ ShiftOf(state.lease) = s

\* The terminal's identity is committed first; a shift being closed is left alone.
AskLease(t) ==
    /\ net /\ tab[t].shift # 0 /\ prep[t].at = "idle"
    /\ ~Paused(tab[t].shift)
    /\ prep' = [prep EXCEPT ![t] =
         [at |-> "asked", shift |-> tab[t].shift, lease |-> 0,
          warm |-> IF state.cached THEN state.lease ELSE 0]]
    /\ UNCHANGED << db, tab, sync, closing, till, server, world, lockout >>

\* The server gives the open shift's lease of this terminal, or a new one.
GrantLease(t) ==
    /\ net /\ prep[t].at = "asked"
    /\ \E s \in OpenShift, l \in Leases :
         /\ IF ActiveOf(s) # {} THEN l \in ActiveOf(s)
            ELSE lease[l].shift = 0 /\ \A m \in 1..(l - 1) : lease[m].shift # 0
         /\ lease' = [lease EXCEPT ![l] = [shift |-> s, active |-> TRUE]]
         /\ prep' = [prep EXCEPT ![t].at = "granted", ![t].lease = l]
    /\ UNCHANGED << db, tab, sync, closing, till, shift, recorded, world, lockout >>

\* Mutant form: the save does not look whether the shift is being closed.
SavesAnyway(t, l) == TRUE

\* saveOfflineState refuses to put back a shift that is being closed.
MaySave(t, l) == ~Paused(prep[t].shift) /\ ~Paused(ShiftOf(l))

SaveLease(t) ==
    /\ prep[t].at = "granted"
    /\ LET l == prep[t].lease IN
       IF MaySave(t, l)
       THEN /\ state' = [lease |-> l, suspended |-> FALSE, cached |-> prep[t].warm = l]
            /\ prep' = [prep EXCEPT ![t].at = "saved"]
            /\ lockout' = [lockout EXCEPT ![ShiftOf(l)] = IF @ = "none" THEN @ ELSE "lifted"]
       ELSE /\ prep' = [prep EXCEPT ![t] = NotPreparing]
            /\ UNCHANGED << state, lockout >>
    /\ UNCHANGED << outbox, tab, sync, closing, till, server, world >>

\* The catalogue is kept if its lease is still the stored one.
LoadCatalog(t) ==
    /\ net /\ prep[t].at = "saved"
    /\ LET l == prep[t].lease IN
       /\ lease[l].active /\ shift[lease[l].shift] = "OPEN"
       /\ IF state.lease = l /\ ~state.suspended
          THEN /\ state' = [state EXCEPT !.cached = TRUE]
               /\ tab' = [tab EXCEPT ![t].lease = l, ![t].connected = TRUE]
          ELSE UNCHANGED << state, tab >>
    /\ prep' = [prep EXCEPT ![t] = NotPreparing]
    /\ UNCHANGED << outbox, sync, closing, till, server, world, lockout >>

\* The network is gone, no shift is open, or the lease ended.
PrepareFails(t) ==
    /\ prep[t].at # "idle"
    /\ \/ ~net
       \/ prep[t].at = "asked" /\ OpenShift = {}
       \/ /\ prep[t].at = "saved"
          /\ ~(lease[prep[t].lease].active /\ shift[ShiftOf(prep[t].lease)] = "OPEN")
    /\ prep' = [prep EXCEPT ![t] = NotPreparing]
    /\ UNCHANGED << db, tab, sync, closing, till, server, world, lockout >>

-----------------------------------------------------------------------------
\* Sales in the register

Fresh(k) ==
    /\ k # attempt /\ outbox[k] = NoEntry /\ recorded[k] = "no" /\ k \notin taken
    /\ k # sell.key

\* The saved attempt's key is used again; a ticket without one gets its own.
KeyFor(k) == IF attempt = NoKey THEN Fresh(k) ELSE k = attempt

Online == net /\ tab[Register].connected

\* A ticket sent online before is not sold offline; one queued before shows
\* its receipt again.
SubmitOffline(k) ==
    /\ tab[Register].shift # 0 /\ sell.at = "idle" /\ ~Online /\ KeyFor(k)
    /\ attempt # NoKey => k \in Pending
    /\ IF k \in Pending
       THEN sell' = [at |-> "queued", key |-> k, lease |-> outbox[k].lease] /\ attempt' = k
       ELSE /\ attempt' = k
            /\ sell' = IF state.lease # 0 /\ ~state.suspended /\ state.cached
                       THEN [at |-> "queueing", key |-> k, lease |-> state.lease]
                       ELSE NotSelling
    /\ UNCHANGED << db, tab, flows, taken, server, world, lockout >>

\* queueOffline checks again in its transaction.
MayQueue(l) == state.lease = l /\ ~state.suspended

Queue ==
    /\ sell.at = "queueing"
    /\ IF MayQueue(sell.lease)
       THEN /\ outbox' = [outbox EXCEPT ![sell.key] = [lease |-> sell.lease, blocked |-> FALSE]]
            /\ sell' = [sell EXCEPT !.at = "queued"]
       ELSE /\ sell' = NotSelling
            /\ UNCHANGED outbox
    /\ UNCHANGED << state, tab, flows, attempt, taken, server, world, lockout >>

\* The receipt is shown and the basket cleared.
Receipt ==
    /\ sell.at \in {"queued", "answered"}
    /\ taken' = (IF sell.at = "queued" THEN taken \cup {sell.key} ELSE taken)
    /\ sell' = NotSelling /\ attempt' = NoKey
    /\ UNCHANGED << db, tab, flows, server, world, lockout >>

SubmitOnline(k) ==
    /\ tab[Register].shift # 0 /\ sell.at = "idle" /\ Online /\ KeyFor(k)
    /\ sell' = [at |-> "online", key |-> k, lease |-> 0] /\ attempt' = k
    /\ UNCHANGED << db, tab, flows, taken, server, world, lockout >>

\* A sale already recorded is answered with its receipt, whoever sent it.
RecordOnline ==
    /\ net /\ sell.at = "online"
    /\ recorded[sell.key] # "no" \/ OpenShift # {}
    /\ recorded' = [recorded EXCEPT ![sell.key] = IF @ = "no" THEN "online" ELSE @]
    /\ sell' = [sell EXCEPT !.at = "answered"]
    /\ UNCHANGED << db, tab, flows, attempt, taken, lease, shift, world, lockout >>

\* No answer, or no open shift (the tab then drops its own).
SaleFails ==
    /\ \/ sell.at \in {"online", "answered"} /\ ~net /\ UNCHANGED tab
       \/ /\ sell.at = "online" /\ net /\ recorded[sell.key] = "no" /\ OpenShift = {}
          /\ tab' = [tab EXCEPT ![Register].shift = 0]
    /\ sell' = NotSelling
    /\ UNCHANGED << db, flows, attempt, taken, server, world, lockout >>

-----------------------------------------------------------------------------
\* Uploading the outbox

StartSync(t) ==
    /\ net /\ tab[t].connected /\ sync[t].at = "idle"
    /\ LET rows == {k \in Pending : ~outbox[k].blocked} IN
       /\ rows # {}
       /\ sync' = [sync EXCEPT ![t] = [NotSyncing EXCEPT !.at = "next", !.rows = rows]]
    /\ UNCHANGED << db, tab, prep, closing, till, server, world, lockout >>

\* The rows are those read at the start, whatever became of them.
Upload(t) ==
    /\ sync[t].at = "next"
    /\ \E k \in sync[t].rows :
         sync' = [sync EXCEPT ![t].at = "sent", ![t].key = k, ![t].rows = @ \ {k},
                              ![t].lease = outbox[k].lease]
    /\ UNCHANGED << db, tab, prep, closing, till, server, world, lockout >>

Accepts(l) == lease[l].active /\ shift[lease[l].shift] = "OPEN"

\* The server replays the sale it has, records a new one while the lease and
\* its shift last, and refuses the rest.
Ingest(t) ==
    /\ net /\ sync[t].at = "sent"
    /\ LET k == sync[t].key
           l == sync[t].lease
           ok == recorded[k] = "offline" \/ (recorded[k] = "no" /\ l # 0 /\ Accepts(l))
       IN /\ recorded' = IF ok THEN [recorded EXCEPT ![k] = "offline"] ELSE recorded
          /\ sync' = [sync EXCEPT ![t].at = "answered", ![t].ok = ok]
    /\ UNCHANGED << db, tab, prep, closing, till, lease, shift, world, lockout >>

Later(t) == [NotSyncing EXCEPT !.at = IF sync[t].rows = {} THEN "idle" ELSE "next",
                               !.rows = sync[t].rows]

\* Mutant forms: any answer removes the sale; a refusal writes it back without
\* looking; a refusal is not noted.
AlwaysGone(t, k) == NoEntry
WrittenBack(t, k) ==
    IF sync[t].ok THEN NoEntry ELSE [lease |-> sync[t].lease, blocked |-> TRUE]

\* Confirmed: removed.  Refused: blocked, if it is still there.
Settled(t, k) ==
    IF sync[t].ok THEN NoEntry
    ELSE IF outbox[k] = NoEntry THEN NoEntry
    ELSE [outbox[k] EXCEPT !.blocked = TRUE]

Answered(t) ==
    /\ sync[t].at = "answered"
    /\ outbox' = [outbox EXCEPT ![sync[t].key] = Settled(t, sync[t].key)]
    /\ sync' = [sync EXCEPT ![t] = Later(t)]
    /\ UNCHANGED << state, tab, prep, closing, till, server, world, lockout >>

SyncFails(t) ==
    /\ ~net /\ sync[t].at \in {"sent", "answered"}
    /\ sync' = [sync EXCEPT ![t] = NotSyncing]
    /\ UNCHANGED << db, tab, prep, closing, till, server, world, lockout >>

\* An ADMIN records the cash of a pending sale, whatever became of its shift
\* and lease; the answer may be lost before the entry is removed.
Reconcile(k) ==
    /\ net /\ k \in Pending /\ recorded[k] # "online"
    /\ recorded' = [recorded EXCEPT ![k] = "offline"]
    /\ outbox' \in {outbox, [outbox EXCEPT ![k] = NoEntry]}
    /\ UNCHANGED << state, tab, flows, till, lease, shift, world, lockout >>

-----------------------------------------------------------------------------
\* Closing the shift

StartClose(t) ==
    /\ tab[t].shift # 0 /\ closing[t].at = "idle"
    /\ \/ /\ tab[t].lease # 0 /\ net /\ tab[t].connected
          /\ closing' = [closing EXCEPT ![t].at = "syncing"]
       \/ /\ tab[t].lease = 0
          /\ closing' = [closing EXCEPT ![t].at = "closing"]
    /\ UNCHANGED << db, tab, prep, sync, till, server, world, lockout >>

\* beforeClose waited for the sync; the outbox must be empty.
Suspend(t) ==
    /\ closing[t].at = "syncing" /\ sync[t].at = "idle"
    /\ IF Pending # {}
       THEN /\ closing' = [closing EXCEPT ![t] = NotClosing]
            /\ UNCHANGED << state, lockout >>
       ELSE /\ state' = [state EXCEPT !.suspended = TRUE]
            /\ closing' = [closing EXCEPT ![t] =
                 IF state.lease = 0 THEN [at |-> "closing", lease |-> 0]
                 ELSE [at |-> "releasing", lease |-> state.lease]]
            /\ lockout' = [s \in Shifts |->
                 IF s = ShiftOf(state.lease) THEN "locked" ELSE lockout[s]]
    /\ UNCHANGED << outbox, tab, prep, sync, till, server, world >>

Release(t) ==
    /\ net /\ closing[t].at = "releasing"
    /\ lease' = [lease EXCEPT ![closing[t].lease].active = FALSE]
    /\ closing' = [closing EXCEPT ![t].at = "closing"]
    /\ tab' = [tab EXCEPT ![t].lease = closing[t].lease]
    /\ UNCHANGED << db, prep, sync, till, shift, recorded, world, lockout >>

\* The server refuses while any terminal holds a lease of the shift.
Close(t) ==
    /\ net /\ closing[t].at = "closing"
    /\ \/ \E s \in OpenShift :
            IF ActiveOf(s) = {}
            THEN /\ shift' = [shift EXCEPT ![s] = "OWN"]
                 /\ tab' = [tab EXCEPT ![t].shift = 0]
            ELSE UNCHANGED << shift, tab >>
       \/ OpenShift = {} /\ tab' = [tab EXCEPT ![t].shift = 0] /\ UNCHANGED shift
    /\ closing' = [closing EXCEPT ![t] = NotClosing]
    /\ UNCHANGED << db, prep, sync, till, lease, recorded, world, lockout >>

CloseFails(t) ==
    /\ ~net /\ closing[t].at \in {"releasing", "closing"}
    /\ closing' = [closing EXCEPT ![t] = NotClosing]
    /\ UNCHANGED << db, tab, prep, sync, till, server, world, lockout >>

-----------------------------------------------------------------------------
Next ==
    \/ NetDown \/ NetUp \/ ForceClose \/ Queue \/ Receipt \/ RecordOnline \/ SaleFails
    \/ \E t \in Tab :
         \/ Reconnect(t) \/ Reload(t) \/ Open(t)
         \/ AskLease(t) \/ GrantLease(t) \/ SaveLease(t) \/ LoadCatalog(t) \/ PrepareFails(t)
         \/ StartSync(t) \/ Upload(t) \/ Ingest(t) \/ Answered(t) \/ SyncFails(t)
         \/ StartClose(t) \/ Suspend(t) \/ Release(t) \/ Close(t) \/ CloseFails(t)
    \/ \E k \in Key : SubmitOffline(k) \/ SubmitOnline(k) \/ Reconcile(k)

Spec == Init /\ [][Next]_vars

\* Timers and the online event run while the page is open, requests end, and
\* the network comes back; nothing is assumed of the cashier or an ADMIN.
Fairness ==
    /\ WF_vars(NetUp)
    /\ \A t \in Tab :
         /\ WF_vars(Reconnect(t)) /\ WF_vars(StartSync(t)) /\ WF_vars(Upload(t))
         /\ WF_vars(Ingest(t)) /\ WF_vars(Answered(t)) /\ WF_vars(SyncFails(t))

FairSpec == Spec /\ Fairness

-----------------------------------------------------------------------------
\* Cash collected offline (its receipt was shown) is in the outbox until the
\* server recorded it.
CashKept == \A k \in taken : k \in Pending \/ recorded[k] = "offline"

\* A cashier's own close leaves no cash behind: no sale of that shift is still
\* waiting, or still being queued with the lock open to it, unless a lease of
\* the shift was stored again after the tabs were locked out; and that takes a
\* lease of another shift stored in between.
OwnCloseLeavesNothing ==
    /\ [](\A k \in Pending : LET s == lease[outbox[k].lease].shift IN
             shift[s] = "OWN" => lockout[s] = "lifted")
    /\ [][\A s \in Shifts : lockout[s] = "locked" /\ lockout'[s] = "lifted"
                              => ShiftOf(state.lease) # s]_vars

\* A late failure does not bring back a sale that another tab uploaded.
UploadedStaysGone ==
    [][\A k \in Key : recorded[k] = "offline" /\ outbox[k] = NoEntry
                         => outbox'[k] = NoEntry]_vars

\* Every sale in the outbox is uploaded, or blocked for an ADMIN to see.
EverySaleSettles ==
    \A k \in Key : (k \in Pending) ~> (k \notin Pending \/ outbox[k].blocked)

\* Once the tabs were locked out and the lease released, the shift has no
\* lease that keeps it from closing ("Normal shift close first syncs
\* collected cash and releases offline mode on every terminal").
ReleasedForClose ==
    \A t \in Tab : closing[t].at = "closing" /\ closing[t].lease # 0
                      => ActiveOf(ShiftOf(closing[t].lease)) = {}

\* Once a tab locked enqueueing for the close of a shift, no sale is queued
\* under that shift's lease ("Locks every tab out of enqueueing").
LockedOut ==
    \A k \in Key : outbox[k] = NoEntry /\ outbox'[k] # NoEntry
                     => shift[lease[outbox'[k].lease].shift] # "OWN"

\* A blocked sale can be recorded by an ADMIN ("Blocked sales need admin
\* reconciliation").
BlockedCanBeRecorded ==
    \A k \in Pending : outbox[k].blocked => recorded[k] # "online"
=============================================================================
