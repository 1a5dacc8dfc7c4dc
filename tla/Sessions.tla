----------------------------- MODULE Sessions -----------------------------
(***************************************************************************)
(* Login sessions: refresh tokens on the server, the cookies that name     *)
(* them in the browsers, and everything that ends them.                    *)
(*                                                                         *)
(* No transaction is used.  Rotation finds the token, creates its          *)
(* successor and deletes it, three statements between which other requests *)
(* run, the database fails or the API dies.  A browser's tabs share its    *)
(* cookies; each call reads them when it is sent, and its answer sets or   *)
(* clears them when it arrives.                                            *)
(*                                                                         *)
(* given and ended remember what the program does not: which successors of *)
(* a token were answered, and which sessions somebody ended.               *)
(***************************************************************************)
EXTENDS Integers, FiniteSets, TLC

CONSTANTS
    User, Browser, Call, Null,
    Token,       \* refresh token ids, also used as session (family) ids
    MaxEdits,    \* bound on the password changes and switches of an account
    Faults       \* among "database" (a statement fails), "crash" (the API dies),
                 \* "network" (an answer is lost)

SessionsAssumption ==
    /\ MaxEdits \in Nat
    /\ Faults \subseteq {"database", "crash", "network"}
    /\ Null \notin User \cup Token

VARIABLES
    account,   \* account[u]: active or not, and how often it was edited
    row,       \* the refresh tokens in the database, NoRow for the others
    jar,       \* jar[b]: the session cookies of a browser, or NoCookies
    call,      \* call[c]: where a request stands
    revoking,  \* accounts whose committed change still has to end sessions
    used, given, ended

memory == << used, given, ended >>
vars == << account, row, jar, call, revoking, memory >>

NoRow == [user |-> Null, family |-> Null]
NoCookies == [refresh |-> Null, user |-> Null, sid |-> Null]
Idle == [at |-> "idle"]

Init ==
    /\ account = [u \in User |-> [active |-> TRUE, edits |-> 0]]
    /\ row = [r \in Token |-> NoRow]
    /\ jar = [b \in Browser |-> NoCookies]
    /\ call = [c \in Call |-> Idle]
    /\ revoking = {}
    /\ used = {} /\ given = [r \in Token |-> {}] /\ ended = {}

Live(r) == row[r] # NoRow
Fresh == Token \ used
Cookies(r, u, f) == [refresh |-> r, user |-> u, sid |-> f]

At(c, step) == call[c].at = step
\* An answer sets the session cookies, clears them, or leaves them alone.
Reply(c, cookies) ==
    call' = [call EXCEPT ![c] = [at |-> "answer", browser |-> call[c].browser,
                                 cookies |-> cookies]]
Clears == NoCookies
Keeps == Null

\* A cleanup whose failure is only logged.
BestEffort(after) == row' = after \/ ("database" \in Faults /\ row' = row)

Without(rows) == [r \in Token |-> IF r \in rows THEN NoRow ELSE row[r]]
RowsOf(u) == {r \in Token : row[r].user = u}
SessionsOf(u) == {row[r].family : r \in RowsOf(u)}

\* A switched-off account found by a refresh: all its sessions go.
EndAll(u) == \/ row' = Without(RowsOf(u)) /\ ended' = ended \cup SessionsOf(u)
             \/ "database" \in Faults /\ UNCHANGED << row, ended >>

-----------------------------------------------------------------------------
\* Login: the password is verified, then the session is stored.

Login(c, b) ==
    /\ call[c] = Idle
    /\ \E u \in User :
         /\ account[u].active
         /\ call' = [call EXCEPT ![c] = [at |-> "login", browser |-> b, user |-> u]]
    /\ UNCHANGED << account, row, jar, revoking, memory >>

CreateSession(c) ==
    /\ At(c, "login")
    /\ \E f \in Fresh :
         /\ row' = [row EXCEPT ![f] = [user |-> call[c].user, family |-> f]]
         /\ used' = used \cup {f}
         /\ Reply(c, Cookies(f, call[c].user, f))
    /\ UNCHANGED << account, jar, revoking, given, ended >>

-----------------------------------------------------------------------------
\* Refresh: the token in the cookie is swapped for its successor.

Refresh(c, b) ==
    /\ call[c] = Idle /\ jar[b].refresh # Null
    /\ call' = [call EXCEPT ![c] = [at |-> "find", browser |-> b, token |-> jar[b].refresh,
                                    sid |-> jar[b].sid]]
    /\ UNCHANGED << account, row, jar, revoking, memory >>

Find(c) ==
    LET r == call[c].token
        u == row[r].user IN
    /\ At(c, "find")
    /\ \/ ~Live(r) /\ Reply(c, Clears) /\ UNCHANGED << row, ended >>
       \/ Live(r) /\ ~account[u].active /\ Reply(c, Clears) /\ EndAll(u)
       \/ /\ Live(r) /\ account[u].active /\ UNCHANGED << row, ended >>
          /\ call' = [call EXCEPT ![c] = [at |-> "create", user |-> u, family |-> row[r].family]
                                             @@ call[c]]
    /\ UNCHANGED << account, jar, revoking, used, given >>

Successor(c, n) == [user |-> call[c].user, family |-> call[c].family]

CreateNext(c) ==
    /\ At(c, "create")
    /\ \/ \E n \in Fresh :
            /\ row' = [row EXCEPT ![n] = Successor(c, n)]
            /\ used' = used \cup {n}
            /\ call' = [call EXCEPT ![c] = [at |-> "delete", next |-> n] @@ call[c]]
       \/ "database" \in Faults /\ Reply(c, Keeps) /\ UNCHANGED << row, used >>
    /\ UNCHANGED << account, jar, revoking, given, ended >>

\* The delete is the single-use check: it must have deleted something.
Won(r) == Live(r)
Withdrawn(c) == call[c].next

DeleteOld(c) ==
    LET r == call[c].token
        n == call[c].next IN
    /\ At(c, "delete")
    /\ \/ /\ Won(r)
          /\ row' = Without({r})
          /\ given' = [given EXCEPT ![r] = @ \cup {n}]
          /\ Reply(c, Cookies(n, call[c].user, call[c].family))
       \/ /\ ~Won(r)
          /\ call' = [call EXCEPT ![c] = [at |-> "withdraw", status |-> Clears] @@ call[c]]
          /\ UNCHANGED << row, given >>
       \/ /\ "database" \in Faults
          /\ call' = [call EXCEPT ![c] = [at |-> "withdraw", status |-> Keeps] @@ call[c]]
          /\ UNCHANGED << row, given >>
    /\ UNCHANGED << account, jar, revoking, used, ended >>

Withdraw(c) ==
    /\ At(c, "withdraw")
    /\ BestEffort(Without({Withdrawn(c)}))
    /\ Reply(c, call[c].status)
    /\ UNCHANGED << account, jar, revoking, memory >>

-----------------------------------------------------------------------------
\* Ending sessions

Logout(c, b) ==
    /\ call[c] = Idle
    /\ \/ /\ row' = Without({jar[b].refresh})
          /\ ended' = ended \cup {row[r].family : r \in {x \in Token : Live(x) /\ jar[b].refresh = x}}
       \/ "database" \in Faults /\ UNCHANGED << row, ended >>
    /\ call' = [call EXCEPT ![c] = [at |-> "answer", browser |-> b, cookies |-> Clears]]
    /\ UNCHANGED << account, jar, revoking, used, given >>

Edit(u, active) ==
    /\ account[u].edits < MaxEdits
    /\ account' = [account EXCEPT ![u] = [active |-> active, edits |-> @.edits + 1]]

\* An admin resets a password or switches an account off (or on again).  The
\* sessions of the account are ended after the change has committed, if the
\* API lives.
ResetPassword(u) ==
    /\ Edit(u, account[u].active)
    /\ revoking' = revoking \cup {u}
    /\ UNCHANGED << row, jar, call, memory >>

SwitchAccount(u) ==
    /\ Edit(u, ~account[u].active)
    /\ revoking' = IF account[u].active THEN revoking \cup {u} ELSE revoking
    /\ UNCHANGED << row, jar, call, memory >>

HeldBy(u) == {r \in RowsOf(u) : \E b \in Browser : jar[b].refresh = r}
Revoked(u) == RowsOf(u)

RevokeAll(u) ==
    /\ u \in revoking
    /\ revoking' = revoking \ {u}
    /\ row' = Without(Revoked(u))
    /\ ended' = ended \cup SessionsOf(u)
    /\ UNCHANGED << account, jar, call, used, given >>

RevokeFails(u) ==
    /\ u \in revoking /\ Faults # {}
    /\ revoking' = revoking \ {u}
    /\ UNCHANGED << account, row, jar, call, memory >>

\* The user's own change keeps the session it is made in.  It is allowed by
\* the access token, which may outlive the refresh token.
ChangeOwnPassword(c, b) ==
    /\ call[c] = Idle /\ jar[b].user # Null
    /\ account[jar[b].user].active /\ Edit(jar[b].user, TRUE)
    /\ call' = [call EXCEPT ![c] = [at |-> "revoke", browser |-> b, user |-> jar[b].user,
                                    keep |-> jar[b].sid]]
    /\ UNCHANGED << row, jar, revoking, memory >>

Others(u, keep) == {r \in RowsOf(u) : row[r].family # keep}

RevokeOthers(c) ==
    LET others == Others(call[c].user, call[c].keep) IN
    /\ At(c, "revoke")
    /\ row' = Without(others)
    /\ ended' = ended \cup (SessionsOf(call[c].user) \ {call[c].keep})
    /\ Reply(c, Keeps)
    /\ UNCHANGED << account, jar, revoking, used, given >>

\* The end of the session's fixed life: the row goes, and the cookies with it.
ExpireSession(f) ==
    /\ f \in used \ ended
    /\ row' = Without({r \in Token : row[r].family = f})
    /\ jar' = [b \in Browser |-> IF jar[b].sid = f THEN NoCookies ELSE jar[b]]
    /\ ended' = ended \cup {f}
    /\ UNCHANGED << account, call, revoking, used, given >>

-----------------------------------------------------------------------------
\* The network and the API

Deliver(c) ==
    /\ At(c, "answer")
    /\ jar' = IF call[c].cookies = Keeps THEN jar
              ELSE [jar EXCEPT ![call[c].browser] = call[c].cookies]
    /\ call' = [call EXCEPT ![c] = Idle]
    /\ UNCHANGED << account, row, revoking, memory >>

LoseAnswer(c) ==
    /\ At(c, "answer") /\ "network" \in Faults
    /\ call' = [call EXCEPT ![c] = Idle]
    /\ UNCHANGED << account, row, jar, revoking, memory >>

Crash ==
    /\ "crash" \in Faults /\ \E c \in Call : call[c] # Idle
    /\ call' = [c \in Call |-> Idle]
    /\ revoking' = {}
    /\ UNCHANGED << account, row, jar, memory >>

Next ==
    \/ \E c \in Call, b \in Browser : Login(c, b) \/ Refresh(c, b) \/ Logout(c, b)
                                      \/ ChangeOwnPassword(c, b)
    \/ \E c \in Call : CreateSession(c) \/ Find(c) \/ CreateNext(c) \/ DeleteOld(c)
                       \/ Withdraw(c) \/ RevokeOthers(c) \/ Deliver(c) \/ LoseAnswer(c)
    \/ \E u \in User : ResetPassword(u) \/ SwitchAccount(u) \/ RevokeAll(u) \/ RevokeFails(u)
    \/ \E f \in Token : ExpireSession(f)
    \/ Crash

Spec == Init /\ [][Next]_vars
-----------------------------------------------------------------------------
\* Properties

Cookie == [refresh : Token \cup {Null}, user : User \cup {Null}, sid : Token \cup {Null}]
Steps == {"idle", "login", "find", "create", "delete", "withdraw", "revoke", "answer"}

\* Rows, cookies and requests have their shape, and a browser's cookies name
\* the user and the session of its token.
TypeOK ==
    /\ account \in [User -> [active : BOOLEAN, edits : 0..MaxEdits]]
    /\ row \in [Token -> [user : User \cup {Null}, family : used \cup {Null}]]
    /\ jar \in [Browser -> Cookie]
    /\ \A b \in Browser, r \in Token : Live(r) /\ jar[b].refresh = r
           => row[r] = [user |-> jar[b].user, family |-> jar[b].sid]
    /\ \A c \in Call : call[c].at \in Steps
    /\ revoking \subseteq User /\ used \subseteq Token /\ ended \subseteq used

\* A refresh token is exchanged for one successor, whichever tabs present it at
\* the same time and whatever fails in between.
ExchangedOnce == \A r \in Token : Cardinality(given[r]) <= 1

Answered(r) == \/ \E b \in Browser : jar[b].refresh = r
               \/ \E c \in Call : At(c, "answer") /\ call[c].cookies \notin {Keeps, Clears}
                                   /\ call[c].cookies.refresh = r

\* A session that was ended - by a logout, a reset, a deactivation, a password
\* change elsewhere, its age - never gets a good token again, not even from a
\* rotation that was half-way when it ended.
EndedStaysEnded == \A r \in Token : Live(r) /\ Answered(r) => row[r].family \notin ended

Refused(c) == call'[c].at = "answer" /\ call'[c].cookies = Clears

\* As long as one request at a time is made and answers arrive, failures of the
\* database never cost anyone the session: a refresh is refused only if the
\* session was ended or the account is switched off, and a user's own change
\* of password does not end the session it is made in.
RefusedOnlyIfEnded ==
    \A c \in Call : call[c].at \in {"find", "withdraw"} /\ Refused(c)
       => call[c].sid \in ended
          \/ \E u \in User : ~account[u].active /\ jar[call[c].browser].user = u
=============================================================================
