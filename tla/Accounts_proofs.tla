-------------------------- MODULE Accounts_proofs --------------------------
(***************************************************************************)
(* What user management keeps, whatever the number of users and requests:  *)
(* an active administrator, PINs with those who can approve, changes that  *)
(* rest on what their author still is and still knows, and approvals that  *)
(* are used once and never after an account they rest on was edited.       *)
(*                                                                         *)
(* A request decides on a snapshot that may be old.  The argument is what  *)
(* it writes: a document that nobody wrote since is as the snapshot has    *)
(* it (Fresh), and every account a decision depends on is in the write set *)
(* of the commit, if need be by a lock bump.                               *)
(***************************************************************************)
EXTENDS Accounts, TLAPS

USE AccountsAssumption

\* The accounts of TypeOK without the bounds of its counters.
AnyAccount == [roles : SUBSET Role, active : BOOLEAN, pw : Nat, pin : BOOLEAN, stamp : Nat]

Updates == [op : {"update"}, actor : User, changes : UNION {[s -> Changes] : s \in SUBSET User}]
Creates == [op : {"create"}, actor : User, target : User, roles : RoleSets]
PinRequests == [op : {"pin"}, actor : User, target : User, pin : BOOLEAN]
PasswordRequests == [op : {"password"}, actor : User, old : Nat]
Consumes == [op : {"consume"}, actor : User, grant : Grant, context : Context, session : Session]
Requests == Updates \cup Creates \cup PinRequests \cup PasswordRequests \cup Consumes

Shapes ==
    /\ user \in [User -> AnyAccount]
    /\ DOMAIN req = Txn /\ DOMAIN snap = Txn /\ DOMAIN missed = Txn
    /\ \A t \in Txn : Running(t) => req[t] \in Requests /\ snap[t].user \in [User -> AnyAccount]

\* What a request read of a document is true until another request writes it.
Fresh == \A t \in Txn : Running(t) => \A u \in User \ missed[t] : snap[t].user[u] = user[u]

IInv == Shapes /\ Fresh /\ AdminRemains /\ PinHoldersManage

-----------------------------------------------------------------------------
LEMMA NewIsAccount ==
    ASSUME NEW roles \in RoleSets
    PROVE  NewAccount(roles) \in AnyAccount /\ ~NewAccount(roles).pin
  BY DEF NewAccount, NoAccount, AnyAccount

LEMMA NoneIsAccount == NoAccount \in AnyAccount /\ ~NoAccount.pin /\ ~NoAccount.active
  BY DEF NoAccount, AnyAccount

LEMMA InitOK == Init => IInv
  <1> SUFFICES ASSUME Init PROVE IInv
    OBVIOUS
  <1>1. user \in [User -> AnyAccount] /\ PinHoldersManage
    BY NewIsAccount, NoneIsAccount DEF Init, PinHoldersManage
  <1>2. QED
    BY <1>1 DEF Init, IInv, Shapes, Fresh, AdminRemains, TxnInit, Running

\* Beginning a request or running it again takes a fresh snapshot.
LEMMA SendKeeps ==
    ASSUME IInv, NEW t \in Txn, NEW r \in Requests, Send(t, r)
    PROVE  IInv'
  <1>1. r # Idle
    BY DEF Requests, Updates, Creates, PinRequests, PasswordRequests, Consumes, Idle
  <1>2. Shapes' /\ Fresh'
    BY <1>1 DEF IInv, Shapes, Fresh, Send, Begin, Running, Current
  <1>3. QED
    BY <1>2 DEF IInv, AdminRemains, PinHoldersManage, Send

LEMMA RerunKeeps ==
    ASSUME IInv, NEW t \in Txn, Rerun(t)
    PROVE  IInv'
  <1>1. Shapes' /\ Fresh'
    BY DEF IInv, Shapes, Fresh, Rerun, Retry, Running, Current
  <1>2. QED
    BY <1>1 DEF IInv, AdminRemains, PinHoldersManage, Rerun

LEMMA FailKeeps ==
    ASSUME IInv, NEW t \in Txn, Fail(t)
    PROVE  IInv'
  <1>1. Shapes' /\ Fresh'
    BY DEF IInv, Shapes, Fresh, Fail, Abort, Running
  <1>2. QED
    BY <1>1 DEF IInv, AdminRemains, PinHoldersManage, Fail

\* Steps of an approval, and of an access token, touch no account.
LEMMA OthersKeep ==
    ASSUME IInv, UNCHANGED << user, req, snap, missed >>
    PROVE  IInv'
  BY DEF IInv, Shapes, Fresh, AdminRemains, PinHoldersManage, Running

\* A commit writes what it changes: what the others read and nobody wrote is
\* still true after it.
LEMMA CommitKeeps ==
    ASSUME IInv, NEW t \in Txn, NEW W, Commit(t, W),
           user' \in [User -> AnyAccount],
           \A u \in User \ W : user'[u] = user[u]
    PROVE  Shapes' /\ Fresh'
  BY DEF IInv, Shapes, Fresh, Commit, Running

LEMMA ApprovedKeeps ==
    ASSUME IInv, NEW t \in Txn, CommitApproved(t)
    PROVE  IInv'
  <1>1. user' = user /\ \E W : Commit(t, W)
    BY Zenon DEF CommitApproved
  <1>2. Shapes' /\ Fresh'
    BY <1>1, CommitKeeps DEF IInv, Shapes
  <1>3. QED
    BY <1>1, <1>2 DEF IInv, AdminRemains, PinHoldersManage

-----------------------------------------------------------------------------
\* What a commit of user documents knows: the accounts it writes or locks are
\* as it read them, and the others stay.
LEMMA WriteKnows ==
    ASSUME IInv, NEW t \in Txn, Running(t), NEW locks, NEW users, WriteUsers(t, locks, users)
    PROVE  /\ \A u \in User : u \in locks => snap[t].user[u] = user[u]
           /\ \A u \in User : users[u] # snap[t].user[u] =>
                  snap[t].user[u] = user[u] /\ user'[u] = users[u]
           /\ \A u \in User : users[u] = snap[t].user[u] => user'[u] = user[u]
           /\ snap[t].user \in [User -> AnyAccount] /\ req[t] \in Requests
  BY DEF IInv, Shapes, Fresh, WriteUsers, Commit

LEMMA WriteKeeps ==
    ASSUME IInv, NEW t \in Txn, Running(t), NEW locks, NEW users, WriteUsers(t, locks, users),
           \A u \in User : users[u] # snap[t].user[u] => users[u] \in AnyAccount
    PROVE  Shapes' /\ Fresh'
  <1> DEFINE W == locks \cup {u \in User : users[u] # snap[t].user[u]}
  <1>1. Commit(t, W)
    BY DEF WriteUsers
  <1>2. user' \in [User -> AnyAccount]
    BY DEF IInv, Shapes, WriteUsers
  <1>3. \A u \in User \ W : user'[u] = user[u]
    BY DEF WriteUsers
  <1>4. QED
    BY <1>1, <1>2, <1>3, CommitKeeps
-----------------------------------------------------------------------------
LEMMA ChangedIsAccount ==
    ASSUME NEW account \in AnyAccount, NEW c \in Changes
    PROVE  /\ Changed(account, c) \in AnyAccount
           /\ Admin(account) /\ ~RemovesAdmin(account, c) => Admin(Changed(account, c))
           /\ (Changed(account, c).pin /\ (account.pin => account.roles \cap Managers # {}))
                => Changed(account, c).roles \cap Managers # {}
  <1>1. c \in [roles : RoleSets \cup {Null}, active : BOOLEAN \cup {Null}, reset : BOOLEAN]
    OBVIOUS
  <1>2. KeepsPin(account, c) \in BOOLEAN
    BY DEF KeepsPin
  <1>3. Changed(account, c) \in AnyAccount
    <2>1. (IF c.roles = Null THEN account.roles ELSE c.roles) \in SUBSET Role
      BY <1>1 DEF AnyAccount
    <2>2. (IF c.active = Null THEN account.active ELSE c.active) \in BOOLEAN
      BY <1>1 DEF AnyAccount
    <2>3. (IF c.reset THEN account.pw + 1 ELSE account.pw) \in Nat /\ Bump(account) \in Nat
      BY DEF AnyAccount, Bump
    <2>4. QED
      BY <1>2, <2>1, <2>2, <2>3 DEF AnyAccount, Changed
  <1>4. ASSUME Admin(account), ~RemovesAdmin(account, c) PROVE Admin(Changed(account, c))
    BY <1>1, <1>4 DEF Admin, RemovesAdmin, Changed
  <1>5. ASSUME Changed(account, c).pin, (account.pin => account.roles \cap Managers # {})
        PROVE  Changed(account, c).roles \cap Managers # {}
    BY <1>5 DEF Changed, KeepsPin
  <1>6. QED
    BY <1>3, <1>4, <1>5

\* If a change takes an administrator away, the administrators left are
\* locked; if none does, the one there is stays.
LEMMA UpdateKeeps ==
    ASSUME IInv, NEW t \in Txn, CommitUpdate(t)
    PROVE  IInv'
  <1> DEFINE changes == req[t].changes
             A == snap[t].user
             after == AfterUpdate(A, changes)
             locks == AdminLock(A, changes)
  <1>1. Running(t) /\ WriteUsers(t, locks, after)
    BY DEF CommitUpdate, Running, Idle
  <1> HIDE DEF locks
  <1>2. A \in [User -> AnyAccount] /\ req[t] \in Requests /\ req[t].op = "update"
    BY <1>1, WriteKnows DEF CommitUpdate
  <1>3. DOMAIN changes \subseteq User /\ \A u \in DOMAIN changes : changes[u] \in Changes
    BY <1>2 DEF Requests, Updates, Creates, PinRequests, PasswordRequests, Consumes
  <1> HIDE DEF changes, A
  <1>4. \A u \in User : after[u] = IF u \in DOMAIN changes THEN Changed(A[u], changes[u]) ELSE A[u]
    BY DEF AfterUpdate
  <1> HIDE DEF after
  <1>5. /\ \A u \in User : u \in locks => A[u] = user[u]
        /\ \A u \in User : after[u] # A[u] => A[u] = user[u] /\ user'[u] = after[u]
        /\ \A u \in User : after[u] = A[u] => user'[u] = user[u]
    BY <1>1, WriteKnows DEF A
  <1>6. Shapes' /\ Fresh'
    <2>1. \A u \in User : after[u] # A[u] => after[u] \in AnyAccount
      BY <1>2, <1>3, <1>4, ChangedIsAccount
    <2>2. QED
      BY <1>1, <2>1, WriteKeeps DEF A
  <1>7. AdminRemains'
    <2>1. CASE \E u \in DOMAIN changes : RemovesAdmin(A[u], changes[u])
      <3>1. PICK v \in User : Admin(after[v])
        BY <2>1 DEF CommitUpdate, changes, A, after
      <3>2. CASE after[v] # A[v]
        BY <1>5, <3>1, <3>2 DEF AdminRemains
      <3>3. CASE after[v] = A[v]
        <4>1. v \in locks
          BY <2>1, <3>1, <3>3 DEF AdminLock, locks
        <4>2. QED
          BY <1>5, <3>1, <3>3, <4>1 DEF AdminRemains
      <3>4. QED
        BY <3>2, <3>3
    <2>2. CASE \A u \in DOMAIN changes : ~RemovesAdmin(A[u], changes[u])
      <3>1. PICK w \in User : Admin(user[w])
        BY DEF IInv, AdminRemains
      <3>2. CASE after[w] = A[w]
        BY <1>5, <3>1, <3>2 DEF AdminRemains
      <3>3. CASE after[w] # A[w]
        <4>1. w \in DOMAIN changes /\ after[w] = Changed(A[w], changes[w])
          BY <1>4, <3>3
        <4>2. Admin(after[w])
          BY <1>2, <1>3, <1>5, <2>2, <3>1, <3>3, <4>1, ChangedIsAccount
        <4>3. QED
          BY <1>5, <3>3, <4>2 DEF AdminRemains
      <3>4. QED
        BY <3>2, <3>3
    <2>3. QED
      BY <2>1, <2>2
  <1>8. PinHoldersManage'
    <2> SUFFICES ASSUME NEW u \in User, user'[u].pin
                 PROVE  user'[u].roles \cap Managers # {}
      BY DEF PinHoldersManage
    <2>1. user[u].pin => user[u].roles \cap Managers # {}
      BY DEF IInv, PinHoldersManage
    <2>2. CASE after[u] = A[u]
      BY <1>5, <2>1, <2>2
    <2>3. CASE after[u] # A[u]
      <3>1. u \in DOMAIN changes /\ after[u] = Changed(A[u], changes[u])
        BY <1>4, <2>3
      <3>2. QED
        BY <1>2, <1>3, <1>5, <2>1, <2>3, <3>1, ChangedIsAccount
    <2>4. QED
      BY <2>2, <2>3
  <1>9. QED
    BY <1>6, <1>7, <1>8 DEF IInv

\* A new account is no less an account than none, and holds no PIN.
LEMMA CreateKeeps ==
    ASSUME IInv, NEW t \in Txn, CommitCreate(t)
    PROVE  IInv'
  <1> DEFINE A == snap[t].user
             v == req[t].target
             users == [A EXCEPT ![v] = NewAccount(req[t].roles)]
  <1>1. Running(t) /\ WriteUsers(t, {}, users) /\ A[v] = NoAccount
    BY DEF CommitCreate, Running, Idle
  <1>2. A \in [User -> AnyAccount] /\ req[t] \in Requests /\ req[t].op = "create"
    BY <1>1, WriteKnows DEF CommitCreate
  <1>3. v \in User /\ req[t].roles \in RoleSets
    BY <1>2 DEF Requests, Updates, Creates, PinRequests, PasswordRequests, Consumes
  <1> HIDE DEF A, v
  <1>4. \A u \in User : users[u] = IF u = v THEN NewAccount(req[t].roles) ELSE A[u]
    BY <1>2
  <1> HIDE DEF users
  <1>5. /\ \A u \in User : users[u] # A[u] => A[u] = user[u] /\ user'[u] = users[u]
        /\ \A u \in User : users[u] = A[u] => user'[u] = user[u]
    BY <1>1, WriteKnows DEF A
  <1>6. Shapes' /\ Fresh'
    <2>1. \A u \in User : users[u] # A[u] => users[u] \in AnyAccount
      BY <1>3, <1>4, NewIsAccount
    <2>2. QED
      BY <1>1, <2>1, WriteKeeps DEF A
  <1>7. AdminRemains'
    <2>1. PICK w \in User : Admin(user[w])
      BY DEF IInv, AdminRemains
    <2>2. CASE w = v
      BY <1>1, <1>5, <2>1, <2>2, NoneIsAccount DEF Admin, AdminRemains
    <2>3. CASE w # v
      BY <1>4, <1>5, <2>1, <2>3 DEF AdminRemains
    <2>4. QED
      BY <2>2, <2>3
  <1>8. PinHoldersManage'
    BY <1>3, <1>4, <1>5, NewIsAccount DEF IInv, PinHoldersManage
  <1>9. QED
    BY <1>6, <1>7, <1>8 DEF IInv

LEMMA NewSecrets ==
    ASSUME NEW account \in AnyAccount, NEW pin \in BOOLEAN
    PROVE  /\ WithPin(account, pin) \in AnyAccount
           /\ WithPin(account, pin).roles = account.roles
           /\ WithPin(account, pin).active = account.active
           /\ NewPassword(account) \in AnyAccount
           /\ NewPassword(account).roles = account.roles
           /\ NewPassword(account).active = account.active
           /\ NewPassword(account).pin = account.pin
           /\ NewPassword(account) # account
  BY DEF WithPin, NewPassword, AnyAccount

\* Only an account whose roles can approve gets a PIN; an own change of
\* password touches neither roles nor PIN.
LEMMA SetPinKeeps ==
    ASSUME IInv, NEW t \in Txn, CommitSetPin(t)
    PROVE  IInv' /\ Admin(user[req[t].actor])
  <1> DEFINE A == snap[t].user
             v == req[t].target
             pin == req[t].pin
             users == [A EXCEPT ![v] = WithPin(@, pin)]
  <1>1. /\ Running(t) /\ WriteUsers(t, PinLock(req[t].actor), users)
        /\ Admin(A[req[t].actor]) /\ A[v].roles \cap Managers # {}
    BY DEF CommitSetPin, Running, Idle
  <1>2. A \in [User -> AnyAccount] /\ req[t] \in Requests /\ req[t].op = "pin"
    BY <1>1, WriteKnows DEF CommitSetPin
  <1>3. v \in User /\ pin \in BOOLEAN /\ req[t].actor \in User
    BY <1>2 DEF Requests, Updates, Creates, PinRequests, PasswordRequests, Consumes
  <1> HIDE DEF A, v, pin
  <1>4. \A u \in User : users[u] = IF u = v THEN WithPin(A[v], pin) ELSE A[u]
    BY <1>2, <1>3
  <1>5. /\ WithPin(A[v], pin) \in AnyAccount
        /\ WithPin(A[v], pin).roles = A[v].roles /\ WithPin(A[v], pin).active = A[v].active
    BY <1>2, <1>3, NewSecrets
  <1>6. \A u \in User : users[u] \in AnyAccount /\ users[u].roles = A[u].roles
                        /\ users[u].active = A[u].active /\ (u # v => users[u] = A[u])
    BY <1>2, <1>4, <1>5
  <1> HIDE DEF users
  <1>7. /\ \A u \in User : u \in PinLock(req[t].actor) => A[u] = user[u]
        /\ \A u \in User : users[u] # A[u] => A[u] = user[u] /\ user'[u] = users[u]
        /\ \A u \in User : users[u] = A[u] => user'[u] = user[u]
    BY <1>1, WriteKnows DEF A
  <1>8. Shapes' /\ Fresh'
    BY <1>1, <1>6, WriteKeeps DEF A
  <1>9. \A u \in User : user'[u].roles = user[u].roles /\ user'[u].active = user[u].active
    BY <1>6, <1>7
  <1>10. AdminRemains'
    BY <1>9 DEF IInv, AdminRemains, Admin
  <1>11. PinHoldersManage'
    <2> SUFFICES ASSUME NEW u \in User, user'[u].pin
                 PROVE  user'[u].roles \cap Managers # {}
      BY DEF PinHoldersManage
    <2>1. CASE users[u] = A[u]
      BY <1>7, <2>1 DEF IInv, PinHoldersManage
    <2>2. CASE users[u] # A[u]
      BY <1>1, <1>6, <1>7, <2>2
    <2>3. QED
      BY <2>1, <2>2
  <1>12. Admin(user[req[t].actor])
    BY <1>1, <1>3, <1>7 DEF PinLock
  <1>13. QED
    BY <1>8, <1>10, <1>11, <1>12 DEF IInv

LEMMA PasswordKeeps ==
    ASSUME IInv, NEW t \in Txn, CommitPassword(t)
    PROVE  IInv' /\ user[req[t].actor].pw = req[t].old
  <1> DEFINE A == snap[t].user
             v == req[t].actor
             users == [A EXCEPT ![v] = NewPassword(@)]
  <1>1. Running(t) /\ WriteUsers(t, {}, users) /\ A[v].pw = req[t].old
    BY DEF CommitPassword, Running, Idle, StillOld
  <1>2. A \in [User -> AnyAccount] /\ req[t] \in Requests /\ req[t].op = "password"
    BY <1>1, WriteKnows DEF CommitPassword
  <1>3. v \in User
    BY <1>2 DEF Requests, Updates, Creates, PinRequests, PasswordRequests, Consumes
  <1> HIDE DEF A, v
  <1>4. \A u \in User : users[u] = IF u = v THEN NewPassword(A[v]) ELSE A[u]
    BY <1>2, <1>3
  <1>5. /\ NewPassword(A[v]) \in AnyAccount /\ NewPassword(A[v]) # A[v]
        /\ NewPassword(A[v]).roles = A[v].roles /\ NewPassword(A[v]).active = A[v].active
        /\ NewPassword(A[v]).pin = A[v].pin
    BY <1>2, <1>3, NewSecrets
  <1>6. /\ users[v] # A[v]
        /\ \A u \in User : users[u] \in AnyAccount /\ users[u].roles = A[u].roles
                           /\ users[u].active = A[u].active /\ users[u].pin = A[u].pin
    BY <1>2, <1>3, <1>4, <1>5
  <1> HIDE DEF users
  <1>7. /\ \A u \in User : users[u] # A[u] => A[u] = user[u] /\ user'[u] = users[u]
        /\ \A u \in User : users[u] = A[u] => user'[u] = user[u]
    BY <1>1, WriteKnows DEF A
  <1>8. Shapes' /\ Fresh'
    BY <1>1, <1>6, WriteKeeps DEF A
  <1>9. \A u \in User : user'[u].roles = user[u].roles /\ user'[u].active = user[u].active
                        /\ user'[u].pin = user[u].pin
    BY <1>6, <1>7
  <1>10. AdminRemains' /\ PinHoldersManage'
    BY <1>9 DEF IInv, AdminRemains, Admin, PinHoldersManage
  <1>11. user[v].pw = req[t].old
    BY <1>1, <1>3, <1>6, <1>7
  <1>12. QED
    BY <1>8, <1>10, <1>11 DEF IInv, v

-----------------------------------------------------------------------------
\* One case per action.  Requests enter with their shape.
LEMMA NextKeeps == IInv /\ [Next]_vars => IInv'
  <1> SUFFICES ASSUME IInv, [Next]_vars PROVE IInv'
    OBVIOUS
  <1>1. ASSUME NEW a \in User, NEW t \in Txn, AskUpdate(a, t) PROVE IInv'
    <2>1. PICK targets \in Batches : \E changes \in [targets -> Changes] :
              Send(t, [op |-> "update", actor |-> a, changes |-> changes])
      BY <1>1 DEF AskUpdate
    <2>2. PICK changes \in [targets -> Changes] :
              Send(t, [op |-> "update", actor |-> a, changes |-> changes])
      BY <2>1
    <2>3. [op |-> "update", actor |-> a, changes |-> changes] \in Requests
      BY DEF Requests, Updates, Batches
    <2>4. QED
      BY <2>2, <2>3, SendKeeps
  <1>2. ASSUME NEW a \in User, NEW t \in Txn, AskCreate(a, t) PROVE IInv'
    <2>1. PICK u \in User, roles \in RoleSets :
              Send(t, [op |-> "create", actor |-> a, target |-> u, roles |-> roles])
      BY <1>2 DEF AskCreate
    <2>2. [op |-> "create", actor |-> a, target |-> u, roles |-> roles] \in Requests
      BY DEF Requests, Creates
    <2>3. QED
      BY <2>1, <2>2, SendKeeps
  <1>3. ASSUME NEW a \in User, NEW t \in Txn, AskSetPin(a, t) PROVE IInv'
    <2>1. PICK u \in User, pin \in BOOLEAN :
              Send(t, [op |-> "pin", actor |-> a, target |-> u, pin |-> pin])
      BY <1>3 DEF AskSetPin
    <2>2. [op |-> "pin", actor |-> a, target |-> u, pin |-> pin] \in Requests
      BY DEF Requests, PinRequests
    <2>3. QED
      BY <2>1, <2>2, SendKeeps
  <1>4. ASSUME NEW a \in User, NEW t \in Txn, AskPassword(a, t) PROVE IInv'
    <2>1. [op |-> "password", actor |-> a, old |-> user[a].pw] \in Requests
      BY DEF IInv, Shapes, AnyAccount, Requests, PasswordRequests
    <2>2. QED
      BY <1>4, <2>1, SendKeeps DEF AskPassword
  <1>5. ASSUME NEW a \in User, NEW t \in Txn, AskApproved(a, t) PROVE IInv'
    <2>1. PICK g \in Grant, x \in Context, s \in Session :
              Send(t, [op |-> "consume", actor |-> a, grant |-> g, context |-> x, session |-> s])
      BY <1>5 DEF AskApproved
    <2>2. [op |-> "consume", actor |-> a, grant |-> g, context |-> x, session |-> s] \in Requests
      BY DEF Requests, Consumes
    <2>3. QED
      BY <2>1, <2>2, SendKeeps
  <1>6. ASSUME NEW t \in Txn,
               \/ CommitUpdate(t) \/ CommitCreate(t) \/ CommitSetPin(t) \/ CommitPassword(t)
               \/ CommitApproved(t) \/ Fail(t) \/ Rerun(t)
        PROVE  IInv'
    BY <1>6, UpdateKeeps, CreateKeeps, SetPinKeeps, PasswordKeeps, ApprovedKeeps, FailKeeps, RerunKeeps
  <1>7. ASSUME UNCHANGED << user, req, snap, missed >> PROVE IInv'
    BY <1>7, OthersKeep
  <1>8. CASE \E u \in User : RefreshToken(u)
    BY <1>7, <1>8 DEF RefreshToken
  <1>9. CASE \E g \in Grant : \/ \E c \in User : VerifyPin(c, g)
                              \/ ReadRequester(g) \/ StoreGrant(g) \/ DropGrant(g)
    BY <1>7, <1>9, Zenon DEF VerifyPin, ReadRequester, StoreGrant, DropGrant
  <1>10. CASE UNCHANGED vars
    BY <1>7, <1>10 DEF vars, txnVars
  <1>11. QED
    BY <1>1, <1>2, <1>3, <1>4, <1>5, <1>6, <1>8, <1>9, <1>10 DEF Next

THEOREM Invariance == Spec => []IInv
  BY InitOK, NextKeeps, PTL DEF Spec

\* However many administrators demote, deactivate and reset one another at
\* the same time, the store keeps one who is active (user.service).
THEOREM AdminAlwaysRemains == Spec => []AdminRemains
  BY Invariance, PTL DEF IInv

\* No account holds a manager PIN once its roles cannot approve, whatever
\* update and whatever setting of a PIN cross (user.service,
\* override.service setPin).
THEOREM PinsStayWithManagers == Spec => []PinHoldersManage
  BY Invariance, PTL DEF IInv

\* What a commit of another transaction leaves running is still running.
LEMMA OnlyOwnCommit ==
    ASSUME IInv, NEW t \in Txn, Running(t), [Next]_vars, ~Running(t)', user' # user
    PROVE  CommitUpdate(t) \/ CommitCreate(t) \/ CommitSetPin(t) \/ CommitPassword(t)
  <1>1. ASSUME NEW s \in Txn, s # t, NEW W, Commit(s, W) PROVE Running(t)'
    BY <1>1 DEF IInv, Shapes, Commit, Running
  <1>2. ASSUME NEW s \in Txn, CommitUpdate(s) \/ CommitCreate(s) \/ CommitSetPin(s) \/ CommitPassword(s)
        PROVE  s = t
    <2>1. \E W : Commit(s, W)
      BY <1>2, Zenon DEF CommitUpdate, CommitCreate, CommitSetPin, CommitPassword, WriteUsers
    <2>2. QED
      BY <1>1, <2>1
  <1>3. CASE \E s \in Txn : CommitUpdate(s) \/ CommitCreate(s) \/ CommitSetPin(s)
                            \/ CommitPassword(s) \/ CommitApproved(s) \/ Fail(s) \/ Rerun(s)
    BY <1>2, <1>3, Zenon DEF CommitApproved, Fail, Rerun
  <1>4. CASE \E a \in User, s \in Txn : \/ AskUpdate(a, s) \/ AskCreate(a, s) \/ AskSetPin(a, s)
                                        \/ AskPassword(a, s) \/ AskApproved(a, s)
    BY <1>4 DEF AskUpdate, AskCreate, AskSetPin, AskPassword, AskApproved, Send
  <1>5. CASE \/ \E u \in User : RefreshToken(u)
             \/ \E g \in Grant : \/ \E c \in User : VerifyPin(c, g)
                                 \/ ReadRequester(g) \/ StoreGrant(g) \/ DropGrant(g)
    BY <1>5, Zenon DEF RefreshToken, VerifyPin, ReadRequester, StoreGrant, DropGrant
  <1>6. QED
    BY <1>3, <1>4, <1>5 DEF Next, vars

\* A manager PIN is set by someone who is an administrator when it takes
\* effect: the lock bump on their document decides the race with a demotion.
THEOREM PinsSetByAdmins == Spec => PinSetByAdmin
  <1>1. ASSUME IInv, [Next]_vars
        PROVE  [\A t \in Txn : req[t].op = "pin" /\ user' # user /\ ~Running(t)'
                               => Admin(user[req[t].actor])]_vars
    <2> SUFFICES ASSUME NEW t \in Txn, req[t].op = "pin", user' # user, ~Running(t)'
                 PROVE  Admin(user[req[t].actor])
      OBVIOUS
    <2>1. Running(t)
      BY DEF Running, Idle
    <2>2. CommitSetPin(t)
      BY <1>1, <2>1, OnlyOwnCommit DEF CommitUpdate, CommitCreate, CommitPassword
    <2>3. QED
      BY <1>1, <2>2, SetPinKeeps
  <1>2. QED
    BY <1>1, Invariance, PTL DEF Spec, PinSetByAdmin

\* A user's change of password takes effect only while the password they
\* proved is still theirs (auth: change password).
THEOREM PasswordsAreProved == Spec => PasswordProved
  <1>1. ASSUME IInv, [Next]_vars
        PROVE  [\A t \in Txn : req[t].op = "password" /\ user' # user /\ ~Running(t)'
                               => user[req[t].actor].pw = req[t].old]_vars
    <2> SUFFICES ASSUME NEW t \in Txn, req[t].op = "password", user' # user, ~Running(t)'
                 PROVE  user[req[t].actor].pw = req[t].old
      OBVIOUS
    <2>1. Running(t)
      BY DEF Running, Idle
    <2>2. CommitPassword(t)
      BY <1>1, <2>1, OnlyOwnCommit DEF CommitUpdate, CommitCreate, CommitSetPin
    <2>3. QED
      BY <1>1, <2>2, PasswordKeeps
  <1>2. QED
    BY <1>1, Invariance, PTL DEF Spec, PasswordProved

-----------------------------------------------------------------------------
\* Approvals.  A grant remembers the PIN versions of its approver and, once it
\* is asked, of its requester: it is void exactly when one of the two accounts
\* has moved past the version, and its consumer locks both accounts.

AnyGrant == [state : {"none", "verified", "asked", "ready", "gone"},
             cashier : User \cup {Null}, session : Session \cup {Null},
             approver : User \cup {Null}, context : Context \cup {Null},
             approverStamp : Nat, requesterStamp : Nat,
             consumed : BOOLEAN, voided : BOOLEAN, uses : Nat]

\* u is an account, and has been at version n.
Reached(u, n) == u \in User /\ user[u] # NoAccount /\ n <= user[u].stamp
Passed(u, n) == user[u].stamp > n

GrantHolds(g) ==
    /\ grant[g].uses = IF grant[g].consumed THEN 1 ELSE 0
    /\ grant[g].state = "none" => ~grant[g].consumed
    /\ grant[g].state \notin {"none", "gone"} =>
         Reached(grant[g].approver, grant[g].approverStamp) /\ grant[g].cashier \in User
    /\ grant[g].state \in {"asked", "ready"} =>
         Reached(grant[g].cashier, grant[g].requesterStamp)
    /\ grant[g].state \notin {"none", "gone"} /\ grant[g].voided =>
         \/ Passed(grant[g].approver, grant[g].approverStamp)
         \/ grant[g].state # "verified" /\ Passed(grant[g].cashier, grant[g].requesterStamp)

\* A request that read a stored grant read what it will always be for, and,
\* until another request claims it, whether it is used.
GrantRead(t, g) ==
    LET s == snap[t].grant[g] IN
    /\ s.state = "ready" =>
         /\ grant[g].state \in {"ready", "gone"}
         /\ << s.cashier, s.approver, s.approverStamp, s.requesterStamp >>
              = << grant[g].cashier, grant[g].approver, grant[g].approverStamp, grant[g].requesterStamp >>
         /\ g \notin missed[t] => s.consumed = grant[g].consumed

Grants ==
    /\ grant \in [Grant -> AnyGrant]
    /\ \A g \in Grant : GrantHolds(g)
    /\ \A t \in Txn : Running(t) => \A g \in Grant : GrantRead(t, g)

\* An account that changes gets a new version.
StampsRise ==
    \A u \in User : user'[u] # user[u] =>
        user'[u] # NoAccount /\ (user[u] # NoAccount => user'[u].stamp > user[u].stamp)

Edited == {u \in User : user'[u] # user[u]}

LEMMA GrantsInit == Init => Grants
  <1>1. NoGrant \in AnyGrant
    BY DEF NoGrant, AnyGrant
  <1>2. QED
    BY <1>1 DEF Init, Grants, GrantHolds, NoGrant, TxnInit, Running

\* What a commit of user documents does to accounts and grants.
LEMMA WriteRaises ==
    ASSUME IInv, NEW t \in Txn, Running(t), NEW locks, NEW users, WriteUsers(t, locks, users),
           \A u \in User : users[u] # snap[t].user[u] =>
               /\ users[u] # NoAccount
               /\ snap[t].user[u] # NoAccount => users[u].stamp > snap[t].user[u].stamp
    PROVE  StampsRise /\ grant' = Void(Edited) /\ \E W : Commit(t, W)
  <1>1. /\ \A u \in User : users[u] # snap[t].user[u] =>
               snap[t].user[u] = user[u] /\ user'[u] = users[u]
        /\ \A u \in User : users[u] = snap[t].user[u] => user'[u] = user[u]
    BY WriteKnows
  <1>2. {u \in User : users[u] # snap[t].user[u]} = Edited
    BY <1>1 DEF Edited
  <1>3. QED
    BY <1>1, <1>2 DEF WriteUsers, StampsRise

LEMMA EditsRaise ==
    ASSUME IInv, NEW t \in Txn,
           CommitUpdate(t) \/ CommitCreate(t) \/ CommitSetPin(t) \/ CommitPassword(t)
    PROVE  StampsRise /\ grant' = Void(Edited) /\ \E W : Commit(t, W)
  <1> DEFINE A == snap[t].user
  <1>1. Running(t)
    BY DEF CommitUpdate, CommitCreate, CommitSetPin, CommitPassword, Running, Idle
  <1>2. A \in [User -> AnyAccount] /\ req[t] \in Requests
    BY <1>1 DEF IInv, Shapes
  <1>3. ASSUME NEW account \in AnyAccount, NEW after \in AnyAccount,
               after.stamp = account.stamp + 1
        PROVE  after # NoAccount /\ after.stamp > account.stamp
    BY <1>3 DEF AnyAccount, NoAccount
  <1>4. CASE CommitUpdate(t)
    <2> DEFINE changes == req[t].changes
               after == AfterUpdate(A, changes)
    <2>1. WriteUsers(t, AdminLock(A, changes), after)
      BY <1>4 DEF CommitUpdate
    <2>2. \A u \in DOMAIN changes : changes[u] \in Changes
      BY <1>2, <1>4 DEF CommitUpdate, Requests, Updates, Creates, PinRequests, PasswordRequests, Consumes
    <2>3. ASSUME NEW u \in User, after[u] # A[u]
          PROVE  after[u] # NoAccount /\ after[u].stamp > A[u].stamp
      <3>1. u \in DOMAIN changes /\ after[u] = Changed(A[u], changes[u])
        BY <2>3 DEF AfterUpdate
      <3>2. after[u] \in AnyAccount /\ after[u].stamp = A[u].stamp + 1
        BY <1>2, <2>2, <3>1, ChangedIsAccount DEF Changed, Bump
      <3>3. QED
        BY <1>2, <1>3, <3>2
    <2> HIDE DEF after
    <2>4. QED
      BY <1>1, <2>1, <2>3, WriteRaises
  <1>5. CASE CommitCreate(t)
    <2> DEFINE v == req[t].target
               users == [A EXCEPT ![v] = NewAccount(req[t].roles)]
    <2>1. WriteUsers(t, {}, users) /\ A[v] = NoAccount
      BY <1>5 DEF CommitCreate
    <2>2. \A u \in User : users[u] # A[u] => u = v /\ users[u] = NewAccount(req[t].roles)
      BY <1>2
    <2>3. NewAccount(req[t].roles) # NoAccount
      BY DEF NewAccount, NoAccount
    <2> HIDE DEF users
    <2>4. QED
      BY <1>1, <2>1, <2>2, <2>3, WriteRaises
  <1>6. CASE CommitSetPin(t)
    <2> DEFINE v == req[t].target
               users == [A EXCEPT ![v] = WithPin(@, req[t].pin)]
    <2>1. WriteUsers(t, PinLock(req[t].actor), users)
      BY <1>6 DEF CommitSetPin
    <2>2. req[t].pin \in BOOLEAN
      BY <1>2, <1>6 DEF CommitSetPin, Requests, Updates, Creates, PinRequests, PasswordRequests, Consumes
    <2>3. \A u \in User : users[u] # A[u] => users[u] = WithPin(A[u], req[t].pin)
      BY <1>2
    <2>4. \A u \in User : /\ WithPin(A[u], req[t].pin) \in AnyAccount
                          /\ WithPin(A[u], req[t].pin).stamp = A[u].stamp + 1
      BY <1>2, <2>2, NewSecrets DEF WithPin
    <2> HIDE DEF users
    <2>5. QED
      BY <1>1, <1>2, <1>3, <2>1, <2>3, <2>4, WriteRaises
  <1>7. CASE CommitPassword(t)
    <2> DEFINE v == req[t].actor
               users == [A EXCEPT ![v] = NewPassword(@)]
    <2>1. WriteUsers(t, {}, users)
      BY <1>7 DEF CommitPassword
    <2>2. \A u \in User : users[u] # A[u] => users[u] = NewPassword(A[u])
      BY <1>2
    <2>3. \A u \in User : /\ NewPassword(A[u]) \in AnyAccount
                          /\ NewPassword(A[u]).stamp = A[u].stamp + 1
      BY <1>2, NewSecrets DEF NewPassword
    <2> HIDE DEF users
    <2>4. QED
      BY <1>1, <1>2, <1>3, <2>1, <2>2, <2>3, WriteRaises
  <1>8. QED
    BY <1>4, <1>5, <1>6, <1>7

\* Edited accounts void the grants that rest on them and pass their versions.
LEMMA EditsKeepGrants ==
    ASSUME IInv, IInv', Grants, StampsRise, grant' = Void(Edited),
           NEW t \in Txn, NEW W, Commit(t, W)
    PROVE  Grants'
  <1>1. /\ grant \in [Grant -> AnyGrant] /\ user \in [User -> AnyAccount]
        /\ user' \in [User -> AnyAccount]
    BY DEF Grants, IInv, Shapes
  <1>2. \A g \in Grant : grant'[g] = [grant[g] EXCEPT !.voided = @ \/ RestsOn(g, Edited)]
    BY DEF Void
  <1>3. \A g \in Grant : RestsOn(g, Edited) \in BOOLEAN
    BY DEF RestsOn
  <1>4. ASSUME NEW g \in Grant
        PROVE  /\ grant'[g] \in AnyGrant
               /\ grant'[g].state = grant[g].state /\ grant'[g].cashier = grant[g].cashier
               /\ grant'[g].approver = grant[g].approver /\ grant'[g].consumed = grant[g].consumed
               /\ grant'[g].approverStamp = grant[g].approverStamp
               /\ grant'[g].requesterStamp = grant[g].requesterStamp
               /\ grant'[g].uses = grant[g].uses
               /\ grant'[g].voided = (grant[g].voided \/ RestsOn(g, Edited))
    <2>1. PICK v \in BOOLEAN : /\ grant'[g] = [grant[g] EXCEPT !.voided = v]
                              /\ v = (grant[g].voided \/ RestsOn(g, Edited))
      BY <1>2, Zenon
    <2>2. grant[g] \in AnyGrant
      BY <1>1
    <2>3. /\ grant'[g] \in AnyGrant
          /\ grant'[g].state = grant[g].state /\ grant'[g].cashier = grant[g].cashier
          /\ grant'[g].approver = grant[g].approver /\ grant'[g].consumed = grant[g].consumed
          /\ grant'[g].approverStamp = grant[g].approverStamp
          /\ grant'[g].requesterStamp = grant[g].requesterStamp
          /\ grant'[g].uses = grant[g].uses /\ grant'[g].voided = v
      <3>1. ASSUME NEW d \in AnyGrant, NEW e, e = [d EXCEPT !.voided = v]
            PROVE  /\ e \in AnyGrant /\ e.state = d.state /\ e.cashier = d.cashier
                   /\ e.approver = d.approver /\ e.consumed = d.consumed
                   /\ e.approverStamp = d.approverStamp
                   /\ e.requesterStamp = d.requesterStamp
                   /\ e.uses = d.uses /\ e.voided = v
        BY <3>1 DEF AnyGrant
      <3>2. QED
        BY <2>1, <2>2, <3>1
    <2>4. QED
      BY <2>1, <2>3, Zenon
  <1>5. grant' \in [Grant -> AnyGrant]
    BY <1>4 DEF Void
  <1>6. \A u \in User : /\ user[u].stamp \in Nat /\ user'[u].stamp \in Nat
                        /\ u \notin Edited => user'[u] = user[u]
                        /\ u \in Edited /\ user[u] # NoAccount =>
                               user'[u] # NoAccount /\ user'[u].stamp > user[u].stamp
    BY <1>1 DEF AnyAccount, Edited, StampsRise
  <1>7. ASSUME NEW u, NEW n \in Nat, Reached(u, n)
        PROVE  Reached(u, n)' /\ (Passed(u, n) => Passed(u, n)') /\ (u \in Edited => Passed(u, n)')
    BY <1>6, <1>7 DEF Reached, Passed
  <1>8. ASSUME NEW g \in Grant PROVE GrantHolds(g)'
    <2>1. grant[g].approverStamp \in Nat /\ grant[g].requesterStamp \in Nat
      BY <1>1 DEF AnyGrant
    <2>2. GrantHolds(g)
      BY DEF Grants
    <2>3. /\ grant'[g].uses = IF grant'[g].consumed THEN 1 ELSE 0
          /\ grant'[g].state = "none" => ~grant'[g].consumed
      BY <1>4, <2>2 DEF GrantHolds
    <2>4. grant'[g].state \notin {"none", "gone"} =>
              Reached(grant[g].approver, grant[g].approverStamp)' /\ grant'[g].cashier \in User
      BY <1>4, <1>7, <2>1, <2>2 DEF GrantHolds
    <2>5. grant'[g].state \in {"asked", "ready"} =>
              Reached(grant[g].cashier, grant[g].requesterStamp)'
      BY <1>4, <1>7, <2>1, <2>2 DEF GrantHolds
    <2>6. ASSUME grant'[g].state \notin {"none", "gone"}, grant'[g].voided
          PROVE  \/ Passed(grant[g].approver, grant[g].approverStamp)'
                 \/ grant[g].state # "verified" /\ Passed(grant[g].cashier, grant[g].requesterStamp)'
      <3>1. /\ Reached(grant[g].approver, grant[g].approverStamp)
            /\ grant[g].state # "verified" => Reached(grant[g].cashier, grant[g].requesterStamp)
        BY <1>1, <1>4, <2>2, <2>6 DEF GrantHolds, AnyGrant
      <3>2. CASE grant[g].voided
        BY <1>4, <1>7, <2>1, <2>2, <2>6, <3>1, <3>2 DEF GrantHolds
      <3>3. CASE RestsOn(g, Edited)
        <4>1. \/ grant[g].approver \in Edited
              \/ grant[g].state # "verified" /\ grant[g].cashier \in Edited
          BY <3>3 DEF RestsOn
        <4>2. QED
          BY <1>4, <1>7, <2>1, <3>1, <4>1
      <3>4. QED
        BY <1>4, <2>6, <3>2, <3>3
    <2>7. QED
      BY <1>4, <2>3, <2>4, <2>5, <2>6 DEF GrantHolds, Reached, Passed
  <1>9. ASSUME NEW u \in Txn, Running(u)', NEW g \in Grant PROVE GrantRead(u, g)'
    <2>1. Running(u) /\ snap'[u] = snap[u] /\ missed[u] \subseteq missed'[u]
      BY <1>9 DEF Commit, Running, IInv, Shapes
    <2>2. GrantRead(u, g)
      BY <2>1 DEF Grants
    <2>3. QED
      BY <1>4, <2>1, <2>2 DEF GrantRead
  <1>10. QED
    BY <1>5, <1>8, <1>9 DEF Grants

\* A new request, or one that runs again, reads the grants as they are.
LEMMA SnapshotKeepsGrants ==
    ASSUME IInv, Grants, NEW t \in Txn, UNCHANGED << user, grant >>,
           \/ \E r : Send(t, r)
           \/ Rerun(t) \/ Fail(t)
    PROVE  Grants'
  <1>1. \A g \in Grant : GrantHolds(g)'
    BY DEF Grants, GrantHolds, Reached, Passed
  <1>2. ASSUME NEW u \in Txn, Running(u)', NEW g \in Grant PROVE GrantRead(u, g)'
    <2>1. CASE u = t
      <3>1. snap'[u].grant = grant
        BY <1>2, <2>1 DEF Send, Begin, Rerun, Retry, Fail, Abort, Current, Running, IInv, Shapes
      <3>2. QED
        BY <3>1 DEF GrantRead
    <2>2. CASE u # t
      <3>1. Running(u) /\ snap'[u] = snap[u] /\ missed'[u] = missed[u]
        BY <1>2, <2>2 DEF Send, Begin, Rerun, Retry, Fail, Abort, Running, IInv, Shapes
      <3>2. QED
        BY <3>1 DEF Grants, GrantRead
    <2>3. QED
      BY <2>1, <2>2
  <1>3. QED
    BY <1>1, <1>2 DEF Grants

\* The approval that is consumed is not void: the commit locks both accounts,
\* so the versions it compared are theirs.
LEMMA ConsumedIsGood ==
    ASSUME IInv, Grants, NEW t \in Txn, CommitApproved(t)
    PROVE  /\ req[t].grant \in Grant /\ grant[req[t].grant].state = "ready"
           /\ ~grant[req[t].grant].consumed /\ ~grant[req[t].grant].voided
  <1> DEFINE r == req[t]
             g == snap[t].grant[r.grant]
             A == snap[t].user
  <1>1. Running(t) /\ r \in Consumes
    <2>1. r.op = "consume"
      BY Zenon DEF CommitApproved
    <2>2. Running(t)
      BY <2>1 DEF Running, Idle
    <2>3. QED
      BY <2>1, <2>2 DEF IInv, Shapes, Requests, Updates, Creates, PinRequests, PasswordRequests
  <1>2. r.grant \in Grant /\ r.actor \in User
    BY <1>1 DEF Consumes
  <1>3. /\ g.state = "ready" /\ ~g.consumed /\ grant[r.grant].state = "ready" /\ g.cashier = r.actor
        /\ A[g.approver].stamp = g.approverStamp /\ A[r.actor].stamp = g.requesterStamp
        /\ r.grant \notin missed[t] /\ g.approver \notin missed[t] /\ r.actor \notin missed[t]
    <2>1. Commit(t, GrantLock(r.grant) \cup AccountLock(g.approver, r.actor))
      BY Zenon DEF CommitApproved
    <2>2. missed[t] \cap (GrantLock(r.grant) \cup AccountLock(g.approver, r.actor)) = {}
      BY <2>1 DEF Commit
    <2>3. QED
      BY <2>2, Zenon DEF CommitApproved, Unused, GrantLock, AccountLock
  <1>4. GrantRead(t, r.grant) /\ GrantHolds(r.grant)
    BY <1>1, <1>2 DEF Grants
  <1>5. /\ g.cashier = grant[r.grant].cashier /\ g.approver = grant[r.grant].approver
        /\ g.approverStamp = grant[r.grant].approverStamp
        /\ g.requesterStamp = grant[r.grant].requesterStamp
        /\ g.consumed = grant[r.grant].consumed
    BY <1>3, <1>4 DEF GrantRead
  <1>6. /\ Reached(g.approver, g.approverStamp) /\ Reached(r.actor, g.requesterStamp)
        /\ grant[r.grant].voided =>
             Passed(g.approver, g.approverStamp) \/ Passed(r.actor, g.requesterStamp)
    BY <1>3, <1>4, <1>5, Zenon DEF GrantHolds
  <1>7. A[g.approver] = user[g.approver] /\ A[r.actor] = user[r.actor]
    BY <1>1, <1>3, <1>6, Zenon DEF IInv, Fresh, Reached
  <1>8. /\ user[g.approver].stamp \in Nat /\ user[r.actor].stamp \in Nat
    BY <1>6 DEF Reached, IInv, Shapes, AnyAccount
  <1>9. ~Passed(g.approver, g.approverStamp) /\ ~Passed(r.actor, g.requesterStamp)
    <2>1. user[g.approver].stamp = g.approverStamp /\ user[r.actor].stamp = g.requesterStamp
      BY <1>3, <1>7
    <2>2. \A m, n \in Nat : m = n => ~(m > n)
      OBVIOUS
    <2>3. QED
      BY <1>8, <2>1, <2>2, Zenon DEF Passed
  <1>10. QED
    BY <1>2, <1>3, <1>5, <1>6, <1>9, Zenon

LEMMA ApprovedKeepsGrants ==
    ASSUME IInv, Grants, NEW t \in Txn, CommitApproved(t)
    PROVE  Grants'
  <1> DEFINE c == req[t].grant
             W == GrantLock(c) \cup AccountLock(snap[t].grant[c].approver, req[t].actor)
  <1>1. /\ Commit(t, W) /\ user' = user
        /\ grant' = [grant EXCEPT ![c].consumed = TRUE, ![c].uses = @ + 1]
    BY Zenon DEF CommitApproved
  <1>2. c \in Grant /\ grant[c].state = "ready" /\ ~grant[c].consumed /\ grant[c] \in AnyGrant
    BY ConsumedIsGood DEF Grants
  <1>3. /\ grant'[c] = [grant[c] EXCEPT !.consumed = TRUE, !.uses = @ + 1]
        /\ \A g \in Grant : g # c => grant'[g] = grant[g]
    BY <1>1, <1>2 DEF Grants
  <1> HIDE DEF c, W
  <1>4. grant[c].uses = 0
    BY <1>2 DEF Grants, GrantHolds
  <1>5. /\ grant'[c] \in AnyGrant /\ grant'[c].consumed = TRUE /\ grant'[c].uses = 1
        /\ grant'[c].state = grant[c].state /\ grant'[c].cashier = grant[c].cashier
        /\ grant'[c].approver = grant[c].approver
        /\ grant'[c].approverStamp = grant[c].approverStamp
        /\ grant'[c].requesterStamp = grant[c].requesterStamp
        /\ grant'[c].voided = grant[c].voided
    <2>1. grant'[c] = [grant[c] EXCEPT !.consumed = TRUE, !.uses = 1]
      BY <1>3, <1>4
    <2>2. PICK d \in AnyGrant : d = grant[c]
      BY <1>2
    <2>3. PICK e : e = [d EXCEPT !.consumed = TRUE, !.uses = 1]
      OBVIOUS
    <2>4. /\ e \in AnyGrant /\ e.consumed = TRUE /\ e.uses = 1 /\ e.state = d.state
          /\ e.cashier = d.cashier /\ e.approver = d.approver /\ e.voided = d.voided
          /\ e.approverStamp = d.approverStamp /\ e.requesterStamp = d.requesterStamp
      BY <2>3 DEF AnyGrant
    <2>5. QED
      BY <2>1, <2>2, <2>3, <2>4
  <1>6. \A g \in Grant : g # c => grant'[g] = grant[g]
    BY <1>3
  <1>7. grant' \in [Grant -> AnyGrant]
    BY <1>1, <1>5, <1>6 DEF Grants
  <1>8. ASSUME NEW g \in Grant PROVE GrantHolds(g)'
    <2>1. GrantHolds(g)
      BY DEF Grants
    <2>2. CASE g = c
      BY <1>1, <1>2, <1>5, <2>1, <2>2 DEF GrantHolds, Reached, Passed
    <2>3. CASE g # c
      BY <1>1, <1>6, <2>1, <2>3 DEF GrantHolds, Reached, Passed
    <2>4. QED
      BY <2>2, <2>3
  <1>9. ASSUME NEW u \in Txn, Running(u)', NEW g \in Grant PROVE GrantRead(u, g)'
    <2>1. /\ Running(u) /\ snap'[u] = snap[u] /\ missed[u] \subseteq missed'[u]
          /\ c \in missed'[u]
      BY <1>1, <1>9 DEF Commit, Running, IInv, Shapes, GrantLock, W
    <2>2. GrantRead(u, g)
      BY <2>1 DEF Grants
    <2>3. QED
      BY <1>5, <1>6, <2>1, <2>2 DEF GrantRead
  <1>10. QED
    BY <1>7, <1>8, <1>9 DEF Grants

\* Issuing an approval changes one grant that no request read as stored.
LEMMA IssueKeepsGrants ==
    ASSUME IInv, Grants, NEW g \in Grant,
           (\E c \in User : VerifyPin(c, g)) \/ ReadRequester(g) \/ StoreGrant(g) \/ DropGrant(g)
    PROVE  /\ Grants'
           /\ \A h \in Grant : grant'[h].uses = grant[h].uses
  <1>1. UNCHANGED << user, token, req, snap, missed >>
    BY Zenon DEF VerifyPin, ReadRequester, StoreGrant, DropGrant
  <1>2. GrantHolds(g) /\ grant[g] \in AnyGrant /\ grant \in [Grant -> AnyGrant]
    BY DEF Grants
  <1> DEFINE Only == /\ grant' \in [Grant -> AnyGrant]
                     /\ \A h \in Grant : h # g => grant'[h] = grant[h]
                     /\ grant'[g].uses = grant[g].uses /\ grant'[g].consumed = grant[g].consumed
             Same == /\ grant'[g].cashier = grant[g].cashier /\ grant'[g].approver = grant[g].approver
                     /\ grant'[g].approverStamp = grant[g].approverStamp
                     /\ grant'[g].voided = grant[g].voided
  <1>3. ASSUME Only, GrantHolds(g)',
               grant[g].state = "ready" => /\ grant'[g].state = "gone" /\ Same
                                           /\ grant'[g].requesterStamp = grant[g].requesterStamp,
               grant[g].state = "gone" => grant'[g] = grant[g]
        PROVE  Grants' /\ \A h \in Grant : grant'[h].uses = grant[h].uses
    <2>1. ASSUME NEW h \in Grant, h # g PROVE GrantHolds(h)'
      BY <1>1, <1>3, <2>1 DEF Grants, GrantHolds, Reached, Passed
    <2>2. ASSUME NEW u \in Txn, Running(u)', NEW h \in Grant PROVE GrantRead(u, h)'
      <3>1. GrantRead(u, h)
        BY <1>1, <2>2 DEF Grants, Running
      <3>2. QED
        BY <1>1, <1>3, <3>1 DEF GrantRead
    <2>3. QED
      BY <1>3, <2>1, <2>2 DEF Grants
  <1>4. ASSUME NEW c \in User, VerifyPin(c, g)
        PROVE  Grants' /\ \A h \in Grant : grant'[h].uses = grant[h].uses
    <2>1. PICK m \in User, x \in Context, s \in Session :
            /\ MayApprove(user[m], x)
            /\ grant' = [grant EXCEPT ![g] = [NoGrant EXCEPT
                  !.state = "verified", !.cashier = c, !.session = s, !.context = x,
                  !.approver = m, !.approverStamp = user[m].stamp]]
      BY <1>4, Zenon DEF VerifyPin
    <2>2. user[m].stamp \in Nat /\ user[m] # NoAccount
      BY <2>1 DEF IInv, Shapes, AnyAccount, MayApprove, NoAccount
    <2>3. /\ grant'[g] = [state |-> "verified", cashier |-> c, session |-> s, approver |-> m,
                         context |-> x, approverStamp |-> user[m].stamp, requesterStamp |-> 0,
                         consumed |-> FALSE, voided |-> FALSE, uses |-> 0]
          /\ \A h \in Grant : h # g => grant'[h] = grant[h]
      BY <1>2, <2>1 DEF NoGrant
    <2>4. grant'[g] \in AnyGrant /\ ~grant'[g].consumed /\ grant'[g].uses = 0
      BY <2>2, <2>3 DEF AnyGrant
    <2>5. grant[g].state = "none" /\ ~grant[g].consumed /\ grant[g].uses = 0
      <3>1. grant[g].state = "none"
        BY <1>4, Zenon DEF VerifyPin
      <3>2. QED
        BY <1>2, <3>1 DEF GrantHolds
    <2>6. Only
      BY <1>2, <2>1, <2>3, <2>4, <2>5 DEF AnyGrant
    <2>7. GrantHolds(g)'
      BY <1>1, <2>2, <2>3 DEF GrantHolds, Reached
    <2>8. QED
      BY <1>3, <2>5, <2>6, <2>7
  <1>5. ASSUME ReadRequester(g)
        PROVE  Grants' /\ \A h \in Grant : grant'[h].uses = grant[h].uses
    <2> DEFINE c == grant[g].cashier
    <2>1. /\ grant[g].state = "verified" /\ user[c].active
          /\ grant' = [grant EXCEPT ![g].state = "asked", ![g].requesterStamp = user[c].stamp]
      BY <1>5 DEF ReadRequester, MayRequest
    <2>2. c \in User /\ Reached(grant[g].approver, grant[g].approverStamp)
      BY <1>2, <2>1 DEF GrantHolds
    <2>3. user[c].stamp \in Nat /\ user[c] # NoAccount
      BY <2>1, <2>2 DEF IInv, Shapes, AnyAccount, NoAccount
    <2>4. /\ grant'[g] = [grant[g] EXCEPT !.state = "asked", !.requesterStamp = user[c].stamp]
          /\ \A h \in Grant : h # g => grant'[h] = grant[h]
      BY <1>2, <2>1
    <2>5. /\ grant'[g] \in AnyGrant /\ grant'[g].state = "asked"
          /\ grant'[g].requesterStamp = user[c].stamp /\ Same
          /\ grant'[g].uses = grant[g].uses /\ grant'[g].consumed = grant[g].consumed
      BY <1>2, <2>3, <2>4 DEF AnyGrant
    <2>6. Only
      BY <1>2, <2>1, <2>4, <2>5
    <2>7. GrantHolds(g)'
      BY <1>1, <1>2, <2>1, <2>2, <2>3, <2>5 DEF GrantHolds, Reached, Passed
    <2>8. QED
      BY <1>3, <2>1, <2>6, <2>7

  <1>6. ASSUME NEW state \in {"ready", "gone"},
               grant' = [grant EXCEPT ![g].state = state],
               \/ grant[g].state = "asked"
               \/ grant[g].state \in {"verified", "ready"} /\ state = "gone"
        PROVE  Grants' /\ \A h \in Grant : grant'[h].uses = grant[h].uses
    <2>1. /\ grant'[g] = [grant[g] EXCEPT !.state = state]
          /\ \A h \in Grant : h # g => grant'[h] = grant[h]
      BY <1>2, <1>6
    <2>2. /\ grant'[g] \in AnyGrant /\ grant'[g].state = state /\ Same
          /\ grant'[g].requesterStamp = grant[g].requesterStamp
          /\ grant'[g].uses = grant[g].uses /\ grant'[g].consumed = grant[g].consumed
      BY <1>2, <2>1 DEF AnyGrant
    <2>3. Only
      BY <1>2, <1>6, <2>1, <2>2
    <2>4. GrantHolds(g)'
      BY <1>1, <1>2, <1>6, <2>2 DEF GrantHolds, Reached, Passed
    <2>5. QED
      BY <1>3, <1>6, <2>2, <2>3, <2>4
  <1>7. CASE StoreGrant(g)
    BY <1>6, <1>7 DEF StoreGrant
  <1>8. CASE DropGrant(g)
    <2>1. grant[g].state = "asked" \/ grant[g].state \in {"verified", "ready"}
      BY <1>8 DEF DropGrant
    <2>2. QED
      BY <1>6, <1>8, <2>1 DEF DropGrant
  <1>9. QED
    BY <1>4, <1>5, <1>7, <1>8

\* Every step keeps the grants, and consumes only one that is neither used nor
\* void.
LEMMA GrantsStep ==
    ASSUME IInv, IInv', Grants, [Next]_vars
    PROVE  /\ Grants'
           /\ \A g \in Grant :
                grant'[g].uses # grant[g].uses => ~grant[g].voided /\ ~grant[g].consumed
  <1> DEFINE Goal == /\ Grants'
                     /\ \A g \in Grant : grant'[g].uses # grant[g].uses
                                          => ~grant[g].voided /\ ~grant[g].consumed
  <1>1. ASSUME NEW t \in Txn,
               CommitUpdate(t) \/ CommitCreate(t) \/ CommitSetPin(t) \/ CommitPassword(t)
        PROVE  Goal
    <2>1. StampsRise /\ grant' = Void(Edited) /\ \E W : Commit(t, W)
      BY <1>1, EditsRaise
    <2>2. Grants'
      BY <2>1, EditsKeepGrants
    <2>3. \A g \in Grant : grant'[g].uses = grant[g].uses
      <3>1. ASSUME NEW g \in Grant PROVE grant'[g].uses = grant[g].uses
        <4>1. PICK v : grant'[g] = [grant[g] EXCEPT !.voided = v]
          BY <2>1, Zenon DEF Void
        <4>2. grant[g] \in AnyGrant
          BY DEF Grants
        <4>3. QED
          BY <4>1, <4>2 DEF AnyGrant
      <3>2. QED
        BY <3>1
    <2>4. QED
      BY <2>2, <2>3
  <1>2. ASSUME NEW t \in Txn, CommitApproved(t) PROVE Goal
    <2>1. Grants'
      BY <1>2, ApprovedKeepsGrants
    <2>2. \A g \in Grant : g # req[t].grant => grant'[g] = grant[g]
      <3>1. grant' = [grant EXCEPT ![req[t].grant].consumed = TRUE, ![req[t].grant].uses = @ + 1]
        BY <1>2, Zenon DEF CommitApproved
      <3>2. QED
        BY <3>1 DEF Grants
    <2>3. ~grant[req[t].grant].voided /\ ~grant[req[t].grant].consumed
      BY <1>2, ConsumedIsGood
    <2>4. QED
      BY <2>1, <2>2, <2>3
  <1>3. ASSUME NEW t \in Txn, UNCHANGED << user, grant >>, (\E r : Send(t, r)) \/ Rerun(t) \/ Fail(t)
        PROVE  Goal
    BY <1>3, SnapshotKeepsGrants
  <1>4. ASSUME NEW t \in Txn, NEW a \in User,
               AskUpdate(a, t) \/ AskCreate(a, t) \/ AskSetPin(a, t) \/ AskPassword(a, t) \/ AskApproved(a, t)
        PROVE  Goal
    <2>1. \E r : Send(t, r)
      BY <1>4, Zenon DEF AskUpdate, AskCreate, AskSetPin, AskPassword, AskApproved
    <2>2. QED
      BY <1>3, <2>1 DEF Send
  <1>5. ASSUME NEW g \in Grant,
               (\E c \in User : VerifyPin(c, g)) \/ ReadRequester(g) \/ StoreGrant(g) \/ DropGrant(g)
        PROVE  Goal
    BY <1>5, IssueKeepsGrants
  <1>6. ASSUME UNCHANGED << user, grant, req, snap, missed >> PROVE Goal
    <2>1. \A g \in Grant : GrantHolds(g)'
      BY <1>6 DEF Grants, GrantHolds, Reached, Passed
    <2>2. \A u \in Txn : Running(u)' => \A g \in Grant : GrantRead(u, g)'
      BY <1>6 DEF Grants, GrantRead, Running
    <2>3. QED
      BY <1>6, <2>1, <2>2 DEF Grants
  <1>7. ASSUME NEW t \in Txn, Fail(t) \/ Rerun(t) PROVE Goal
    BY <1>3, <1>7 DEF Fail, Rerun
  <1> SUFFICES Goal
    OBVIOUS
  <1> HIDE DEF Goal
  <1>8. CASE (\E u \in User : RefreshToken(u)) \/ UNCHANGED vars
    BY <1>6, <1>8 DEF RefreshToken, vars, txnVars
  <1>9. CASE \E a \in User, t \in Txn : \/ AskUpdate(a, t) \/ AskCreate(a, t) \/ AskSetPin(a, t)
                                        \/ AskPassword(a, t) \/ AskApproved(a, t)
    BY <1>4, <1>9
  <1>10. CASE \E t \in Txn : CommitUpdate(t) \/ CommitCreate(t) \/ CommitSetPin(t)
                            \/ CommitPassword(t) \/ CommitApproved(t) \/ Fail(t) \/ Rerun(t)
    BY <1>1, <1>2, <1>7, <1>10
  <1>11. CASE \E g \in Grant : \/ \E c \in User : VerifyPin(c, g)
                               \/ ReadRequester(g) \/ StoreGrant(g) \/ DropGrant(g)
    BY <1>5, <1>11
  <1>12. QED
    BY <1>8, <1>9, <1>10, <1>11 DEF Next

THEOREM GrantsInvariance == Spec => []Grants
  <1>1. IInv /\ IInv' /\ Grants /\ [Next]_vars => Grants'
    BY GrantsStep
  <1>2. QED
    BY <1>1, GrantsInit, Invariance, PTL DEF Spec

\* An approval whose approver or requester got another PIN, password, roles or
\* activity is never consumed, whatever step of issuing or consuming it is
\* under way when they do (override.service, user.service).
THEOREM VoidedApprovals == Spec => VoidedStaysUnused
  <1>1. ASSUME IInv, IInv', Grants, [Next]_vars
        PROVE  [\A g \in Grant : grant[g].voided => grant'[g].uses = grant[g].uses]_vars
    BY <1>1, GrantsStep
  <1>2. QED
    BY <1>1, Invariance, GrantsInvariance, PTL DEF Spec, VoidedStaysUnused

\* An approval is good for one sale, one reversal or one count, however many
\* requests present it at the same time.
THEOREM ApprovalsUsedOnce == Spec => []UsedOnce
  <1>1. Grants => UsedOnce
    BY DEF Grants, GrantHolds, UsedOnce
  <1>2. QED
    BY <1>1, GrantsInvariance, PTL
=============================================================================
