------------------------------ MODULE Settings ------------------------------
(* Store settings: one document the server changes in transactions, against *)
(* the shifts and offline leases that took the store's timezone with them,  *)
(* and one admin's terminal: the settings store that keeps the last-known   *)
(* settings (stores/settings.ts) and the settings page over it              *)
(* (views/User/Settings/Index.vue). A setting is a name (every field that   *)
(* may always change) or the timezone.                                      *)
EXTENDS Naturals

CONSTANTS
    Users, Names, Zones,
    Null, Failed,
    Defaults,      \* [name, zone]: initialSettings, what the client starts with
    StoreZone,     \* STORE_TIMEZONE, which the server's first settings take
    MaxVersion,    \* bound: saves accepted
    MaxGets,       \* bound: GET /settings
    MaxSaves,      \* bound: PATCH /settings of this terminal
    MaxWork,       \* bound: shifts opened and leases issued
    MaxLogins,     \* bound: sessions of this terminal
    MayFail        \* may requests fail?

SettingsAssumption ==
    /\ Defaults \in [name : Names, zone : Zones]
    /\ StoreZone \in Zones
    /\ MayFail \in BOOLEAN

CONSTANT Txn
VARIABLES
    db,                      \* the database: the store, the shift, the lease
    req, snap, missed,       \* SnapshotTxn
    owner, generation, savedRevision, error, inFlight, present, cache,
    page, form, baseline,    \* the settings page
    gets, patches,           \* requests of this terminal
    asked, saves, work       \* counted against the bounds

INSTANCE SnapshotTxn

store  == <<owner, generation, savedRevision, error, inFlight, present, cache>>
view   == <<page, form, baseline>>
vars   == <<db, req, snap, missed, store, view, gets, patches, asked, saves, work>>

Contents == [name : Names, zone : Zones]
Content(s) == [name |-> s.name, zone |-> s.zone]
Published == [name : Names, zone : Zones, version : 0..MaxVersion]
With(content, version) ==
    [name |-> content.name, zone |-> content.zone, version |-> version]

Initial == With(Defaults, 0)

(* The page: away, waiting for the owner, waiting for GET n ("mount" or     *)
(* "reload"), editing, or waiting for PATCH n.                              *)
Away == [at |-> "away", n |-> 0]
At(where, n) == [at |-> where, n |-> n]

Closed == [open |-> FALSE, zone |-> Null]

(* onModuleInit: the first settings take the built-in names and the zone of *)
(* the configuration.                                                       *)
Init ==
    /\ db = [store |-> [Initial EXCEPT !.zone = StoreZone],
             shift |-> Closed, lease |-> Closed]
    /\ TxnInit
    /\ owner = Null /\ generation = 0 /\ savedRevision = 0 /\ error = Null
    /\ inFlight = 0 /\ present = Initial
    /\ cache = [u \in Users |-> Null]
    /\ page = Away /\ form = Content(Initial) /\ baseline = Initial
    /\ gets = {} /\ patches = {} /\ asked = 0 /\ saves = 0 /\ work = 0

-----------------------------------------------------------------------------
(* The server. *)

ServerUnchanged == UNCHANGED <<db, req, snap, missed, work>>
ClientUnchanged == UNCHANGED <<store, view, gets, asked, saves>>

(* lockContext puts the store's document in the transaction's write set. *)
OpenWrites     == {"store", "shift"}
BeginOpen(t) ==
    /\ work < MaxWork /\ work' = work + 1
    /\ Begin(t, [op |-> "open"], db)
    /\ UNCHANGED <<db, patches>> /\ ClientUnchanged

LeaseWrites == {"store", "shift", "lease"}
BeginLease(t) ==
    /\ work < MaxWork /\ work' = work + 1
    /\ Begin(t, [op |-> "lease"], db)
    /\ UNCHANGED <<db, patches>> /\ ClientUnchanged

(* open: the shift keeps the settings it was opened under. *)
OpenShift(t) ==
    /\ Running(t) /\ req[t].op = "open"
    /\ ~snap[t].shift.open
    /\ Commit(t, OpenWrites)
    /\ db' = [db EXCEPT !.shift = [open |-> TRUE, zone |-> snap[t].store.zone]]
    /\ UNCHANGED <<patches, work>> /\ ClientUnchanged

(* lease: needs the shift open; a new one takes the store's identity along. *)
IssueLease(t) ==
    /\ Running(t) /\ req[t].op = "lease"
    /\ snap[t].shift.open
    /\ Commit(t, LeaseWrites)
    /\ db' = [db EXCEPT !.lease = IF snap[t].lease.open THEN @
                                  ELSE [open |-> TRUE, zone |-> snap[t].store.zone]]
    /\ UNCHANGED <<patches, work>> /\ ClientUnchanged

(* A shift already open, or none to lease for. *)
RefuseWork(t) ==
    /\ Running(t)
    /\ \/ req[t].op = "open" /\ snap[t].shift.open
       \/ req[t].op = "lease" /\ ~snap[t].shift.open
    /\ Abort(t)
    /\ UNCHANGED <<db, patches, work>> /\ ClientUnchanged

(* Closing a shift and releasing a lease leave the store's document alone.  *)
(* A shift closed by force leaves its lease active.                         *)
CloseShift(t) ==
    /\ ~Running(t) /\ db.shift.open
    /\ db' = [db EXCEPT !.shift = Closed]
    /\ missed' = [u \in Txn |-> IF Running(u) THEN missed[u] \cup {"shift"} ELSE {}]
    /\ UNCHANGED <<req, snap, patches, work>> /\ ClientUnchanged

ReleaseLease(t) ==
    /\ ~Running(t) /\ db.lease.open
    /\ db' = [db EXCEPT !.lease = Closed]
    /\ missed' = [u \in Txn |-> IF Running(u) THEN missed[u] \cup {"shift", "lease"}
                             ELSE {}]
    /\ UNCHANGED <<req, snap, patches, work>> /\ ClientUnchanged

(* PATCH of this terminal; and one of another admin, whose page shows what  *)
(* is stored now.                                                           *)
BeginUpdate(t, p) ==
    /\ p \in patches /\ p.stage = "sent"
    /\ Begin(t, [op |-> "update", n |-> p.n, version |-> p.version,
                 body |-> p.body, base |-> p.base], db)
    /\ patches' = (patches \ {p}) \cup {[p EXCEPT !.stage = "running"]}
    /\ UNCHANGED <<db, work>> /\ ClientUnchanged

BeginOther(t, body) ==
    /\ db.store.version < MaxVersion
    /\ ~\E u \in Txn : Running(u) /\ req[u].op = "update" /\ req[u].n = 0
    /\ Begin(t, [op |-> "update", n |-> 0, version |-> db.store.version,
                 body |-> body, base |-> Content(db.store)], db)
    /\ UNCHANGED <<db, patches, work>> /\ ClientUnchanged

(* A version read once and no longer current, or a new timezone while the   *)
(* old one is in use.                                                       *)
Conflict(r, s) ==
    \/ s.store.version # r.version
    \/ r.body.zone # s.store.zone /\ (s.shift.open \/ s.lease.open)

Answered(n, stage, data) ==
    patches' = {IF p.n = n THEN [p EXCEPT !.stage = stage, !.data = data] ELSE p
                : p \in patches}

Update(t) ==
    /\ Running(t) /\ req[t].op = "update"
    /\ ~Conflict(req[t], snap[t])
    /\ snap[t].store.version < MaxVersion
    /\ Commit(t, {"store"})
    /\ LET after == With(req[t].body, snap[t].store.version + 1)
       IN /\ db' = [db EXCEPT !.store = after]
          /\ Answered(req[t].n, "saved", after)
    /\ UNCHANGED work /\ ClientUnchanged

(* Also a store at the bound of its version. *)
RefuseUpdate(t) ==
    /\ Running(t) /\ req[t].op = "update"
    /\ Conflict(req[t], snap[t]) \/ snap[t].store.version = MaxVersion
    /\ Abort(t)
    /\ Answered(req[t].n, "refused", Null)
    /\ UNCHANGED <<db, work>> /\ ClientUnchanged

RunAgain(t) ==
    /\ Retry(t, db)
    /\ UNCHANGED <<db, patches, work>> /\ ClientUnchanged

Server ==
    \E t \in Txn :
        \/ BeginOpen(t) \/ BeginLease(t)
        \/ OpenShift(t) \/ IssueLease(t) \/ RefuseWork(t)
        \/ CloseShift(t) \/ ReleaseLease(t)
        \/ \E p \in patches : BeginUpdate(t, p)
        \/ \E body \in Contents : BeginOther(t, body)
        \/ Update(t) \/ RefuseUpdate(t) \/ RunAgain(t)

-----------------------------------------------------------------------------
(* The settings store of the terminal. *)

(* setOwner: everything begun for the session before is called off, the     *)
(* settings cached for the new owner are shown.                             *)
SetOwner(u) ==
    /\ u # owner /\ generation < MaxLogins
    /\ generation' = generation + 1
    /\ owner' = u /\ error' = Null
    /\ present' = IF u \in Users /\ cache[u] # Null THEN cache[u] ELSE Initial

(* apply: an older version never replaces a newer one. *)
Apply(data) ==
    IF data.version < present.version THEN UNCHANGED <<present, cache>>
    ELSE present' = data /\ cache' = [cache EXCEPT ![owner] = data]

(* refresh: joins the GET in flight, else asks anew; n is the GET awaited. *)
Refresh(n) ==
    IF inFlight # 0 THEN n = inFlight /\ UNCHANGED <<inFlight, error, gets, asked>>
    ELSE /\ asked < MaxGets
         /\ n = asked + 1
         /\ asked' = n /\ inFlight' = n /\ error' = Null
         /\ gets' = gets \cup {[n |-> n, gen |-> generation,
                                revision |-> savedRevision, answer |-> Null]}

StoreIdle == UNCHANGED <<owner, generation, savedRevision, present, cache>>

(* load, for a session that begins: the page waiting for it goes on. *)
Login(u) ==
    /\ owner = Null /\ u # Null /\ asked < MaxGets
    /\ generation < MaxLogins
    /\ SetOwner(u)
    /\ asked' = asked + 1 /\ inFlight' = asked'
    /\ gets' = gets \cup {[n |-> asked', gen |-> generation',
                           revision |-> savedRevision, answer |-> Null]}
    /\ page' = IF page.at = "owner" THEN At("mount", asked') ELSE page
    /\ UNCHANGED <<savedRevision, cache, form, baseline, patches, saves>>
    /\ ServerUnchanged

(* The session ends, here or because the server refuses it: every page goes. *)
Logout ==
    /\ owner # Null /\ SetOwner(Null)
    /\ inFlight' = 0
    /\ page' = Away
    /\ UNCHANGED <<savedRevision, cache, form, baseline, gets, asked, patches,
                   saves>>
    /\ ServerUnchanged

(* Every 30 seconds, on focus and on coming online. *)
Tick ==
    /\ owner # Null /\ inFlight = 0
    /\ Refresh(asked + 1)
    /\ StoreIdle /\ UNCHANGED <<view, patches, saves>> /\ ServerUnchanged

ServeGet(r) ==
    /\ r \in gets /\ r.answer = Null
    /\ gets' = (gets \ {r}) \cup {[r EXCEPT !.answer = db.store]}
    /\ UNCHANGED <<store, view, asked, patches, saves>> /\ ServerUnchanged

FailGet(r) ==
    /\ MayFail /\ r \in gets /\ r.answer # Failed
    /\ gets' = (gets \ {r}) \cup {[r EXCEPT !.answer = Failed]}
    /\ UNCHANGED <<store, view, asked, patches, saves>> /\ ServerUnchanged

(* The error of a refresh begun before a save that was accepted since is    *)
(* not shown; error remembers that refresh's revision.                      *)
ErrorAfter(r) ==
    IF r.answer = Failed /\ r.revision = savedRevision THEN r.revision ELSE error

ResetForm == form' = Content(present') /\ baseline' = present'

(* The page goes on when the refresh it waits for ends, whatever became of  *)
(* it; a reload that failed keeps the form.                                 *)
PageAfter(r) ==
    IF page = At("mount", r.n) \/ page = At("reload", r.n)
    THEN /\ page' = At("edit", 0)
         /\ IF page.at = "mount" \/ error' = Null THEN ResetForm
            ELSE UNCHANGED <<form, baseline>>
    ELSE UNCHANGED view

(* A refresh that ends without ending the task others joined. *)

AnswerGet(r) ==
    /\ r \in gets /\ r.answer # Null
    /\ gets' = gets \ {r}
    /\ IF r.gen # generation THEN UNCHANGED <<present, cache, error, inFlight>>
       ELSE /\ IF r.answer = Failed THEN UNCHANGED <<present, cache>>
                                    ELSE Apply(r.answer)
            /\ error' = ErrorAfter(r)
            /\ inFlight' = 0
    /\ PageAfter(r)
    /\ UNCHANGED <<owner, generation, savedRevision, asked, patches, saves>>
    /\ ServerUnchanged

-----------------------------------------------------------------------------
(* The settings page. *)

(* On a fresh load the page is there before the session's owner is. *)
Mount ==
    /\ page = Away
    /\ IF owner = Null
       THEN page' = At("owner", 0) /\ UNCHANGED <<inFlight, error, gets, asked>>
       ELSE \E n \in 1..MaxGets : Refresh(n) /\ page' = At("mount", n)
    /\ StoreIdle /\ UNCHANGED <<form, baseline, patches, saves>> /\ ServerUnchanged

Dirty == form # Content(baseline)

Edit(body) ==
    /\ page.at = "edit" /\ body # form
    /\ form' = body
    /\ UNCHANGED <<store, page, baseline, gets, asked, patches, saves>>
    /\ ServerUnchanged

(* Not while the settings load, unless that began during the question about *)
(* the edits.                                                               *)
Reload ==
    /\ page.at = "edit" /\ (Dirty \/ inFlight = 0)
    /\ \E n \in 1..MaxGets : Refresh(n) /\ page' = At("reload", n)
    /\ StoreIdle /\ UNCHANGED <<form, baseline, patches, saves>> /\ ServerUnchanged

Save ==
    /\ page.at = "edit" /\ Dirty /\ saves < MaxSaves
    /\ saves' = saves + 1
    /\ page' = At("saving", saves')
    /\ patches' = patches \cup
          {[n |-> saves', gen |-> generation, version |-> baseline.version,
            body |-> form, base |-> Content(baseline), stage |-> "sent",
            data |-> Null]}
    /\ UNCHANGED <<store, form, baseline, gets, asked>> /\ ServerUnchanged

FailSave(p) ==
    /\ MayFail /\ p \in patches /\ p.stage \in {"sent", "saved"}
    /\ patches' = (patches \ {p}) \cup {[p EXCEPT !.stage = "failed"]}
    /\ UNCHANGED <<store, view, gets, asked, saves>> /\ ServerUnchanged

(* A save accepted for a session since ended is not applied to the next. *)
Current(p) == p.gen = generation /\ owner # Null

AnswerSave(p) ==
    /\ p \in patches /\ p.stage \in {"saved", "refused", "failed"}
    /\ patches' = patches \ {p}
    /\ IF p.stage = "saved" /\ Current(p)
       THEN /\ Apply(p.data)
            /\ savedRevision' = savedRevision + 1 /\ error' = Null
            /\ IF page = At("saving", p.n)
               THEN page' = At("edit", 0) /\ ResetForm
               ELSE UNCHANGED view
       ELSE /\ UNCHANGED <<present, cache, savedRevision, error, form, baseline>>
            /\ page' = IF page = At("saving", p.n) THEN At("edit", 0) ELSE page
    /\ UNCHANGED <<owner, generation, inFlight, gets, asked, saves>>
    /\ ServerUnchanged

(* A save in flight keeps the page. *)
Leave ==
    /\ page.at \notin {"away", "saving"}
    /\ page' = Away
    /\ UNCHANGED <<store, form, baseline, gets, asked, patches, saves>>
    /\ ServerUnchanged

Terminal ==
    \/ \E u \in Users : Login(u)
    \/ Logout \/ Tick
    \/ \E r \in gets : ServeGet(r) \/ FailGet(r) \/ AnswerGet(r)
    \/ Mount \/ Reload \/ Save \/ Leave
    \/ \E body \in Contents : Edit(body)
    \/ \E p \in patches : FailSave(p) \/ AnswerSave(p)

Next == Server \/ Terminal

Spec == Init /\ [][Next]_vars

(* Requests are served and answered, transactions come to their end. *)
FairSpec ==
    /\ Spec
    /\ \A n \in 1..MaxGets :
          /\ WF_vars(\E r \in gets : r.n = n /\ ServeGet(r))
          /\ WF_vars(\E r \in gets : r.n = n /\ AnswerGet(r))
    /\ \A n \in 1..MaxSaves :
          /\ SF_vars(\E t \in Txn, p \in patches : p.n = n /\ BeginUpdate(t, p))
          /\ WF_vars(\E p \in patches : p.n = n /\ AnswerSave(p))
    /\ \A t \in Txn : WF_vars(OpenShift(t) \/ IssueLease(t) \/ RefuseWork(t)
                              \/ Update(t) \/ RefuseUpdate(t) \/ RunAgain(t))

-----------------------------------------------------------------------------
(* The variables hold what the server, the store and the page can hold. *)
TypeOK ==
    /\ db.store \in Published
    /\ db.shift.zone \in Zones \cup {Null} /\ db.shift.open \in BOOLEAN
    /\ db.lease.zone \in Zones \cup {Null} /\ db.lease.open \in BOOLEAN
    /\ DOMAIN req = Txn /\ DOMAIN snap = Txn /\ missed \in [Txn -> SUBSET LeaseWrites]
    /\ owner \in Users \cup {Null} /\ generation \in 0..MaxLogins
    /\ present \in Published /\ baseline \in Published /\ form \in Contents
    /\ \A u \in Users : cache[u] = Null \/ cache[u] \in Published
    /\ inFlight # 0 => \E r \in gets : r.n = inFlight /\ r.gen = generation
    /\ page.at \in {"mount", "reload"} => \E r \in gets : r.n = page.n
    /\ page.at = "saving" => \E p \in patches : p.n = page.n

(* "Shift/lease creation and timezone edits write the same row, so their    *)
(* transactions serialize": an open shift and an active lease carry the     *)
(* timezone the store has, however opening, leasing and saving overlap.     *)
ZoneInUse ==
    /\ db.shift.open => db.shift.zone = db.store.zone
    /\ db.lease.open => db.lease.zone = db.store.zone

(* A save replaces the settings its page was filled from and no others, so  *)
(* no admin undoes a change never shown (the optimistic version).           *)
NoBlindOverwrite ==
    \A t \in Txn :
       db'.store # db.store /\ Running(t) /\ ~Running(t)'
           => Content(db.store) = req[t].base

(* "A delayed GET (or PATCH) must never roll back a newer accepted save":   *)
(* within a session the settings shown only ever get newer, and no two      *)
(* different settings are shown under one version.                          *)
NeverRollsBack ==
    owner' = owner /\ present' # present
       => present'.version > present.version \/ present = Initial

(* Without a session the built-in settings are shown, whatever answers of   *)
(* the session before still come in.                                        *)
LoggedOutShowsDefaults == owner = Null => present = Initial /\ error = Null

(* No error is shown for a refresh begun before the last accepted save. *)
ErrorIsFresh == error # Null => error = savedRevision

(* The page never stays locked: loading, reloading and saving end. *)
FormOpens ==
    (page.at \in {"mount", "reload", "saving"}) ~> (page.at \in {"edit", "away"})
=============================================================================
