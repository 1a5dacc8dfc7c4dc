----------------------------- MODULE Accounts -----------------------------
(***************************************************************************)
(* User accounts, manager PINs and manager approvals.                      *)
(*                                                                         *)
(* User management and PINs are written in MongoDB transactions            *)
(* (SnapshotTxn).  An approval is issued outside any transaction, one read *)
(* after the other, and consumed inside the transaction of the sale,       *)
(* reversal or stock count it was given for.                               *)
(*                                                                         *)
(* A secret is its generation: pw and stamp count the passwords and the    *)
(* PIN versions an account has had.  What an approval is for (a ticket at  *)
(* its prices, a reversal, a version of a count) is a member of Context.   *)
(***************************************************************************)
EXTENDS Integers, FiniteSets, TLC

CONSTANTS
    User, Session, Txn, Null,
    Grant,      \* approvals
    Context,    \* what an approval may be for
    Discounts,  \* the contexts only an admin approves
    Counts,     \* the contexts that are stock counts
    RoleSets,   \* the role combinations accounts are given
    Changes,    \* the changes requests make to an account
    MaxStamp,   \* bound on the security edits of one account
    MaxBatch    \* bound on the users of one request

Role == {"SELLER", "ADJUSTER", "RESTOCKER", "USER_MANAGER", "ADMIN", "SUPERVISOR"}
Manageable == {"SELLER", "ADJUSTER", "RESTOCKER"}
Managers == {"ADMIN", "SUPERVISOR"}

ASSUME AccountsAssumption ==
    /\ RoleSets \subseteq SUBSET Role \ {{}}
    /\ Changes \subseteq [roles : RoleSets \cup {Null}, active : BOOLEAN \cup {Null}, reset : BOOLEAN]
    /\ [roles |-> Null, active |-> Null, reset |-> FALSE] \notin Changes
    /\ MaxStamp \in Nat /\ MaxBatch \in Nat \ {0}
    /\ Discounts \subseteq Context /\ Counts \subseteq Context \ Discounts
    /\ Null \notin User \cup Context /\ Null \notin BOOLEAN /\ Null \notin RoleSets

VARIABLES
    user,     \* user documents
    token,    \* token[u]: the roles in u's access token
    grant,    \* approval grants, from the moment the PIN is verified
    req, snap, missed

INSTANCE SnapshotTxn

vars == << user, token, grant, txnVars >>

Current == [user |-> user, grant |-> grant]

Account == [roles : RoleSets \cup {{}}, active : BOOLEAN, pw : 0..MaxStamp,
            pin : BOOLEAN, stamp : 0..MaxStamp]
NoAccount == [roles |-> {}, active |-> FALSE, pw |-> 0, pin |-> FALSE, stamp |-> 0]
NewAccount(roles) == [NoAccount EXCEPT !.roles = roles, !.active = TRUE]

\* voided and uses remember what the program does not: an account the grant
\* rests on was edited since, and how many operations consumed it.
GrantDoc == [state : {"none", "verified", "asked", "ready", "gone"},
             cashier : User \cup {Null}, session : Session \cup {Null},
             approver : User \cup {Null}, context : Context \cup {Null},
             approverStamp : 0..MaxStamp, requesterStamp : 0..MaxStamp,
             consumed : BOOLEAN, voided : BOOLEAN, uses : 0..2]
NoGrant == [state |-> "none", cashier |-> Null, session |-> Null, approver |-> Null,
            context |-> Null, approverStamp |-> 0, requesterStamp |-> 0,
            consumed |-> FALSE, voided |-> FALSE, uses |-> 0]

Admin(account) == account.active /\ "ADMIN" \in account.roles
Holds(roles, role) == {role, "ADMIN"} \cap roles # {}

\* Some accounts exist, one of them an active admin's.
Init ==
    /\ user \in [User -> {NoAccount} \cup {NewAccount(r) : r \in RoleSets}]
    /\ \E u \in User : Admin(user[u])
    /\ token = [u \in User |-> user[u].roles]
    /\ grant = [g \in Grant |-> NoGrant]
    /\ TxnInit

-----------------------------------------------------------------------------
\* Requests.  The route guards look at the roles of the access token, which
\* the transactions check again in the database.

RefreshToken(u) ==
    /\ user[u].active /\ token[u] # user[u].roles
    /\ token' = [token EXCEPT ![u] = user[u].roles]
    /\ UNCHANGED << user, grant, req, snap, missed >>

Send(t, request) == Begin(t, request, Current) /\ UNCHANGED << user, token, grant >>

\* A change names what it sets; Null leaves a field alone.
Batches == {s \in SUBSET User : s # {} /\ Cardinality(s) <= MaxBatch}

AskUpdate(a, t) ==
    /\ Holds(token[a], "USER_MANAGER")
    /\ \E targets \in Batches : \E changes \in [targets -> Changes] :
           Send(t, [op |-> "update", actor |-> a, changes |-> changes])

AskCreate(a, t) ==
    /\ Holds(token[a], "USER_MANAGER")
    /\ \E u \in User, roles \in RoleSets :
         /\ user[u] = NoAccount
         /\ Send(t, [op |-> "create", actor |-> a, target |-> u, roles |-> roles])

AskSetPin(a, t) ==
    /\ "ADMIN" \in token[a]
    /\ \E u \in User, pin \in BOOLEAN :
         Send(t, [op |-> "pin", actor |-> a, target |-> u, pin |-> pin])

\* The current password is verified before the transaction begins.
AskPassword(u, t) ==
    /\ user[u].active
    /\ Send(t, [op |-> "password", actor |-> u, old |-> user[u].pw])

-----------------------------------------------------------------------------
\* User management.  A is the database the transaction reads.

CanGrant(actorRoles, roles) == "ADMIN" \in actorRoles \/ roles \subseteq Manageable
CanManage(actorRoles, roles) == "ADMIN" \in actorRoles \/ roles \subseteq Manageable

MayManage(A, a) == A[a].active /\ Holds(A[a].roles, "USER_MANAGER")

CanUpdate(A, a, u, c) ==
    /\ u = a \/ CanManage(A[a].roles, A[u].roles)
    /\ c.roles \notin {Null, A[u].roles} => u # a /\ CanGrant(A[a].roles, c.roles)
    /\ u = a /\ c.active = FALSE => "ADMIN" \in A[a].roles
    /\ c.reset => u # a /\ "ADMIN" \in A[a].roles

RemovesAdmin(account, c) ==
    Admin(account) /\ (c.active = FALSE \/ (c.roles # Null /\ "ADMIN" \notin c.roles))

\* Roles that cannot approve lose the PIN; a change of password, roles or
\* activity gives a new PIN version.
PinStays(account, c) == account.pin
KeepsPin(account, c) == account.pin /\ (c.roles = Null \/ c.roles \cap Managers # {})
Bump(account) == account.stamp + 1
Changed(account, c) ==
    [roles |-> IF c.roles = Null THEN account.roles ELSE c.roles,
     active |-> IF c.active = Null THEN account.active ELSE c.active,
     pw |-> IF c.reset THEN account.pw + 1 ELSE account.pw,
     pin |-> KeepsPin(account, c),
     stamp |-> Bump(account)]

\* The lock bumps on every active admin, when the request removes one.
NoAdminLock(A, changes) == {}
AdminLock(A, changes) ==
    IF \E u \in DOMAIN changes : RemovesAdmin(A[u], changes[u])
    THEN {u \in User : Admin(A[u])} ELSE {}

AfterUpdate(A, changes) ==
    [u \in User |-> IF u \in DOMAIN changes THEN Changed(A[u], changes[u]) ELSE A[u]]

\* A grant rests on its approver, and once it is asked on its requester.
RestsOn(g, s) == \/ grant[g].approver \in s
                 \/ grant[g].state # "verified" /\ grant[g].cashier \in s
Void(s) == [g \in Grant |-> [grant[g] EXCEPT !.voided = @ \/ RestsOn(g, s)]]

WriteUsers(t, locks, users) ==
    /\ \A u \in User : users[u].stamp <= MaxStamp
    /\ Commit(t, locks \cup {u \in User : users[u] # snap[t].user[u]})
    /\ user' = [u \in User |-> IF users[u] # snap[t].user[u] THEN users[u] ELSE user[u]]
    /\ grant' = Void({u \in User : users[u] # snap[t].user[u]})
    /\ UNCHANGED token

CommitUpdate(t) ==
    LET r == req[t]
        A == snap[t].user
        after == AfterUpdate(A, r.changes) IN
    /\ r.op = "update"
    /\ MayManage(A, r.actor)
    /\ \A u \in DOMAIN r.changes : A[u] # NoAccount /\ CanUpdate(A, r.actor, u, r.changes[u])
    /\ (\E u \in DOMAIN r.changes : RemovesAdmin(A[u], r.changes[u]))
         => \E u \in User : Admin(after[u])
    /\ WriteUsers(t, AdminLock(A, r.changes), after)

\* The unique user name is a key: two requests do not create one account.
CommitCreate(t) ==
    LET r == req[t]
        A == snap[t].user IN
    /\ r.op = "create"
    /\ MayManage(A, r.actor) /\ CanGrant(A[r.actor].roles, r.roles)
    /\ A[r.target] = NoAccount
    /\ WriteUsers(t, {}, [A EXCEPT ![r.target] = NewAccount(r.roles)])

\* The admin's document is locked too, against a concurrent demotion.
NoPinLock(a) == {}
PinLock(a) == {a}

WithPin(account, pin) ==
    [roles |-> account.roles, active |-> account.active, pw |-> account.pw,
     pin |-> pin, stamp |-> account.stamp + 1]

CommitSetPin(t) ==
    LET r == req[t]
        A == snap[t].user IN
    /\ r.op = "pin"
    /\ Admin(A[r.actor])
    /\ A[r.target].roles \cap Managers # {}
    /\ WriteUsers(t, PinLock(r.actor), [A EXCEPT ![r.target] = WithPin(@, r.pin)])

\* The update matches the hash the current password was verified against.
AnyPassword(account, old) == TRUE
StillOld(account, old) == account.pw = old

NewPassword(account) ==
    [roles |-> account.roles, active |-> account.active, pw |-> account.pw + 1,
     pin |-> account.pin, stamp |-> account.stamp + 1]

CommitPassword(t) ==
    LET r == req[t]
        A == snap[t].user IN
    /\ r.op = "password"
    /\ StillOld(A[r.actor], r.old)
    /\ WriteUsers(t, {}, [A EXCEPT ![r.actor] = NewPassword(@)])

-----------------------------------------------------------------------------
\* Issuing an approval: the PIN, then the requester, then what it is for.

Approvers(x) == IF x \in Discounts THEN {"ADMIN"} ELSE Managers
Requesters(c, x) == CASE x \in Counts -> {"ADJUSTER", "ADMIN"}
                      [] x \in Discounts \/ "ADMIN" \notin token[c] -> {"SELLER"}
                      [] OTHER -> {"ADMIN"}

MayApprove(account, x) ==
    account.active /\ account.pin /\ account.roles \cap Approvers(x) # {}
MayRequest(account, c, x) == account.active /\ account.roles \cap Requesters(c, x) # {}

VerifyPin(c, g) ==
    /\ grant[g].state = "none"
    /\ \E m \in User, x \in Context, s \in Session :
         /\ MayApprove(user[m], x)
         /\ grant' = [grant EXCEPT ![g] = [NoGrant EXCEPT
                !.state = "verified", !.cashier = c, !.session = s, !.context = x,
                !.approver = m, !.approverStamp = user[m].stamp]]
    /\ UNCHANGED << user, token, req, snap, missed >>

ReadRequester(g) ==
    LET c == grant[g].cashier IN
    /\ grant[g].state = "verified"
    /\ MayRequest(user[c], c, grant[g].context)
    /\ grant' = [grant EXCEPT ![g].state = "asked", ![g].requesterStamp = user[c].stamp]
    /\ UNCHANGED << user, token, req, snap, missed >>

\* The context is resolved and the grant is stored.
StoreGrant(g) ==
    /\ grant[g].state = "asked"
    /\ grant' = [grant EXCEPT ![g].state = "ready"]
    /\ UNCHANGED << user, token, req, snap, missed >>

\* A request that is refused half-way, or an approval a minute old.
DropGrant(g) ==
    /\ grant[g].state \in {"verified", "asked", "ready"}
    /\ grant' = [grant EXCEPT ![g].state = "gone"]
    /\ UNCHANGED << user, token, req, snap, missed >>

\* The sale, reversal or count the requester sends with the approval.
AskApproved(c, t) ==
    \E g \in Grant, x \in Context, s \in Session :
        /\ grant[g].state = "ready"
        /\ Send(t, [op |-> "consume", actor |-> c, grant |-> g, context |-> x,
                    session |-> s])

\* The claim of the grant and the lock bumps on both accounts.
GrantLock(g) == {g}
RequesterLock(m, c) == {c}
AccountLock(m, c) == {m, c}

Unused(g) == ~g.consumed

\* expiresAt is compared with the time of the write.
CommitApproved(t) ==
    LET r == req[t]
        g == snap[t].grant[r.grant]
        A == snap[t].user IN
    /\ r.op = "consume"
    /\ g.state = "ready" /\ Unused(g) /\ grant[r.grant].state = "ready"
    /\ g.cashier = r.actor /\ g.session = r.session /\ g.context = r.context
    /\ MayApprove(A[g.approver], r.context) /\ A[g.approver].stamp = g.approverStamp
    /\ MayRequest(A[r.actor], r.actor, r.context) /\ A[r.actor].stamp = g.requesterStamp
    /\ Commit(t, GrantLock(r.grant) \cup AccountLock(g.approver, r.actor))
    /\ grant' = [grant EXCEPT ![r.grant].consumed = TRUE, ![r.grant].uses = @ + 1]
    /\ UNCHANGED << user, token >>

\* The request is refused, or fails, and writes nothing.
Fail(t) == Abort(t) /\ UNCHANGED << user, token, grant >>

Rerun(t) == Retry(t, Current) /\ UNCHANGED << user, token, grant >>

-----------------------------------------------------------------------------
Next ==
    \/ \E u \in User : RefreshToken(u)
    \/ \E a \in User, t \in Txn : AskUpdate(a, t) \/ AskCreate(a, t) \/ AskSetPin(a, t)
                                  \/ AskPassword(a, t) \/ AskApproved(a, t)
    \/ \E t \in Txn : CommitUpdate(t) \/ CommitCreate(t) \/ CommitSetPin(t)
                      \/ CommitPassword(t) \/ CommitApproved(t) \/ Fail(t) \/ Rerun(t)
    \/ \E g \in Grant : (\E c \in User : VerifyPin(c, g))
                        \/ ReadRequester(g) \/ StoreGrant(g) \/ DropGrant(g)

Spec == Init /\ [][Next]_vars

-----------------------------------------------------------------------------
\* Properties

\* Documents and requests have their shape.
TypeOK ==
    /\ user \in [User -> Account]
    /\ token \in [User -> SUBSET Role]
    /\ grant \in [Grant -> GrantDoc]
    /\ TxnOK([user : [User -> Account], grant : [Grant -> GrantDoc]])

\* However administrators demote and deactivate one another at the same time,
\* and themselves, the store keeps an active one.
AdminRemains == \E u \in User : Admin(user[u])

\* A PIN is held only by someone whose roles can approve: roles taken away
\* while an admin sets the PIN leave none behind.
PinHoldersManage == \A u \in User : user[u].pin => user[u].roles \cap Managers # {}

\* A PIN is set by someone who is an admin when it takes effect, not by one
\* demoted or deactivated while the request ran.
PinSetByAdmin ==
    [][\A t \in Txn : req[t].op = "pin" /\ user' # user /\ ~Running(t)'
                      => Admin(user[req[t].actor])]_vars

\* A user's own change of password replaces the password they proved; it does
\* not undo an admin's reset that came between.
PasswordProved ==
    [][\A t \in Txn : req[t].op = "password" /\ user' # user /\ ~Running(t)'
                      => user[req[t].actor].pw = req[t].old]_vars

\* An approval stops being good the moment its approver or its requester gets
\* another PIN, password, roles or activity, whatever step of issuing or of
\* consuming it is under way.
VoidedStaysUnused == [][\A g \in Grant : grant[g].voided => grant'[g].uses = grant[g].uses]_vars

\* An approval is good for one sale, one reversal or one count.
UsedOnce == \A g \in Grant : grant[g].uses <= 1
=============================================================================
