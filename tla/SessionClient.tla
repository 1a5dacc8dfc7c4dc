--------------------------- MODULE SessionClient ---------------------------
(***************************************************************************)
(* A tab's session: requests whose access token has expired share one      *)
(* refresh and are sent again, the cached user follows what the server     *)
(* says, and a lost session logs the tab out.                              *)
(*                                                                         *)
(* JavaScript runs one handler at a time, so each action is one; what      *)
(* interleaves is the network.  The server is its session: alive or not,   *)
(* and whether the browser's access token is still good.                   *)
(***************************************************************************)
EXTENDS Integers, FiniteSets, TLC

CONSTANTS
    Request,     \* requests a page may have under way at the same time
    MaxSessions  \* bound on the logins

SessionClientAssumption == MaxSessions \in Nat \ {0}

VARIABLES
    request,     \* request[r]: what it is, where it stands, retried or not
    refreshing,  \* isRefreshing
    queue,       \* requests waiting for the refresh (its starter included)
    shown,       \* isSessionDialogShown: this loss was announced
    user,        \* the cached user is there
    marker,      \* the readable session marker cookie is there
    leaving,     \* how far a logout is: "no", "asked" (by the user) or "forced"
    alive, good, \* the server's session, and the access token
    sessions     \* logins so far

server == << alive, good, sessions >>
vars == << request, refreshing, queue, shown, user, marker, leaving, server >>

Kinds == {"api", "profile", "login", "rename"}
Settled == {"done", "failed"}
Free == [kind |-> "api", at |-> "done", retried |-> FALSE]

\* A page of a logged-in user has just been loaded.
Init ==
    /\ request = [r \in Request |-> Free]
    /\ refreshing = FALSE /\ queue = {} /\ shown = FALSE
    /\ user = TRUE /\ marker = TRUE /\ leaving = "no"
    /\ alive = TRUE /\ good = TRUE /\ sessions = 1

\* The state has its shape; a rename itself is no request that could be sent.
TypeOK ==
    /\ request \in [Request -> [kind : Kinds, at : {"sent", "waiting"} \cup Settled,
                                retried : BOOLEAN]]
    /\ \A r \in Request : ~(request[r].kind = "rename" /\ request[r].at = "sent")
    /\ queue \subseteq Request /\ leaving \in {"no", "asked", "forced"}
    /\ {refreshing, shown, user, marker, alive, good} \subseteq BOOLEAN
    /\ sessions \in 1..MaxSessions

-----------------------------------------------------------------------------
\* Requests

Set(r, at) == request' = [request EXCEPT ![r].at = at]

Send(r, kind) ==
    /\ request[r].at \in Settled
    /\ request' = [request EXCEPT ![r] = [kind |-> kind, at |-> "sent", retried |-> FALSE]]

Ask(r) ==
    /\ user /\ Send(r, "api")
    /\ UNCHANGED << refreshing, queue, shown, user, marker, leaving, server >>

\* fetchMe drops the user when the final answer is a 401.
Dropped(r) == request[r].kind = "profile"

\* The access token was good when the guard saw it.
Answer(r) ==
    /\ request[r].at = "sent" /\ request[r].kind \in {"api", "profile"}
    /\ good
    /\ Set(r, "done")
    /\ user' = (user \/ request[r].kind = "profile")
    /\ UNCHANGED << refreshing, queue, shown, marker, leaving, server >>

\* A timeout, a network error or a 5xx.
Break(r) ==
    /\ request[r].at = "sent"
    /\ Set(r, "failed")
    /\ UNCHANGED << refreshing, queue, shown, user, marker, leaving, server >>

\* A 401 waits for a refresh, once.
MayRetry(q) == ~q.retried

Unauthorized(r) ==
    /\ request[r].at = "sent" /\ request[r].kind \in {"api", "profile"}
    /\ ~good /\ MayRetry(request[r])
    /\ request' = [request EXCEPT ![r].at = "waiting", ![r].retried = TRUE]
    /\ queue' = queue \cup {r}
    /\ refreshing' = TRUE
    /\ UNCHANGED << shown, user, marker, leaving, server >>

UnauthorizedAgain(r) ==
    /\ request[r].at = "sent" /\ request[r].kind \in {"api", "profile"}
    /\ ~good /\ ~MayRetry(request[r])
    /\ Set(r, "failed")
    /\ user' = (user /\ ~Dropped(r))
    /\ UNCHANGED << refreshing, queue, shown, marker, leaving, server >>

\* A rename of the own account refreshes the token, then reads the profile.
Rename(r) ==
    /\ user /\ request[r].at \in Settled
    /\ request' = [request EXCEPT ![r] = [kind |-> "rename", at |-> "waiting", retried |-> FALSE]]
    /\ queue' = queue \cup {r}
    /\ refreshing' = TRUE
    /\ UNCHANGED << shown, user, marker, leaving, server >>

-----------------------------------------------------------------------------
\* The refresh.  Everyone waiting learns its outcome in the same handler.

\* A request is sent again as it was; a rename goes on to the profile.
SentAgain(q) == [q EXCEPT !.at = "sent"]
Resumed(q) == IF q.kind = "rename" THEN [kind |-> "profile", at |-> "sent", retried |-> FALSE]
              ELSE SentAgain(q)
ProcessQueue(outcome(_)) ==
    /\ request' = [r \in Request |-> IF r \in queue THEN outcome(request[r]) ELSE request[r]]
    /\ queue' = {}
Rejected(q) == [q EXCEPT !.at = "failed"]

RefreshSucceeds ==
    /\ refreshing /\ alive
    /\ good' = TRUE /\ marker' = TRUE
    /\ ProcessQueue(Resumed)
    /\ refreshing' = FALSE /\ shown' = FALSE
    /\ UNCHANGED << user, leaving, alive, sessions >>

\* A timeout, a network error or a 5xx leaves the session alone.
UserAfterBreak == user

RefreshBreaks ==
    /\ refreshing
    /\ ProcessQueue(Rejected)
    /\ refreshing' = FALSE
    /\ user' = UserAfterBreak
    /\ UNCHANGED << shown, marker, leaving, server >>

\* A 401: the session is over.  A profile that waited is a 401 too.
FirstLoss == ~shown

RefreshRefused ==
    /\ refreshing /\ ~alive
    /\ ProcessQueue(Rejected)
    /\ refreshing' = FALSE /\ marker' = FALSE /\ shown' = TRUE
    /\ leaving' = IF FirstLoss THEN "forced" ELSE leaving
    /\ user' = (user /\ ~\E r \in queue : Dropped(r))
    /\ UNCHANGED server

-----------------------------------------------------------------------------
\* Logging out and in

RequestLogout ==
    /\ user /\ leaving = "no"
    /\ leaving' = "asked"
    /\ UNCHANGED << request, refreshing, queue, shown, user, marker, server >>

\* The answer of /auth/logout, or its failure: the tab's user goes either way.
\* A session the request reached has ended.
FinishLogout ==
    /\ leaving # "no"
    /\ leaving' = "no" /\ user' = FALSE
    /\ \/ alive' = FALSE /\ good' = FALSE /\ marker' = FALSE
       \/ UNCHANGED << alive, good, marker >>
    /\ UNCHANGED << request, refreshing, queue, shown, sessions >>

Login(r) ==
    /\ ~user \/ leaving = "asked"
    /\ sessions < MaxSessions
    /\ \A q \in Request : request[q].kind = "login" => request[q].at \in Settled
    /\ Send(r, "login")
    /\ UNCHANGED << refreshing, queue, shown, user, marker, leaving, server >>

\* The login answers; the same request slot then reads the profile.
LoggedIn(r) ==
    /\ request[r].at = "sent" /\ request[r].kind = "login"
    /\ alive' = TRUE /\ good' = TRUE /\ marker' = TRUE
    /\ sessions' = sessions + 1
    /\ request' = [request EXCEPT ![r] = [kind |-> "profile", at |-> "sent", retried |-> FALSE]]
    /\ UNCHANGED << refreshing, queue, shown, user, leaving >>

\* The access token runs out, though not within a round trip of its renewal;
\* the session is revoked or reaches its end.
ExpireToken ==
    /\ good /\ good' = FALSE
    /\ \A r \in Request : ~(request[r].at = "sent" /\ request[r].retried)
    /\ UNCHANGED << request, refreshing, queue, shown, user, marker, leaving, alive, sessions >>

LoseSession ==
    /\ alive /\ alive' = FALSE
    /\ UNCHANGED << request, refreshing, queue, shown, user, marker, leaving, good, sessions >>

Outcome == RefreshSucceeds \/ RefreshBreaks \/ RefreshRefused
Settle(r) == Answer(r) \/ Break(r) \/ Unauthorized(r) \/ UnauthorizedAgain(r) \/ LoggedIn(r)

Next ==
    \/ \E r \in Request : Ask(r) \/ Rename(r) \/ Login(r) \/ Settle(r)
    \/ Outcome \/ RequestLogout \/ FinishLogout \/ ExpireToken \/ LoseSession

\* Every call has a timeout, so each answers or breaks; the handlers then run.
Fairness ==
    /\ \A r \in Request : WF_vars(Settle(r))
    /\ WF_vars(Outcome) /\ WF_vars(FinishLogout)

Spec == Init /\ [][Next]_vars /\ Fairness

-----------------------------------------------------------------------------
\* Properties

\* No request waits for a refresh that nobody is making, whatever order 401s,
\* refresh answers and failures come in.
NoneLeftWaiting == \A r \in Request : request[r].at = "waiting" <=> refreshing /\ r \in queue

\* A page's requests always settle: none is refreshed for again and again.
EveryRequestSettles ==
    \A r \in Request : request[r].at \notin Settled ~> request[r].at \in Settled

\* A refresh answered with a 401 logs the tab out: the user does not stay on
\* the screen without a session.
LossLogsOut ==
    [][refreshing /\ ~refreshing' /\ marker /\ ~marker' /\ user => ~user' \/ leaving' # "no"]_vars
=============================================================================
