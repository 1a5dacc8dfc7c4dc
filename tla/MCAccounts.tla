----------------------------- MODULE MCAccounts -----------------------------
(***************************************************************************)
(* Who may do what, for TLC: accounts, PINs and approvals (Accounts) and   *)
(* login sessions (Sessions).  The two share no state - Sessions knows of  *)
(* an account whether it is active - so each behaviour plays out one       *)
(* scenario while the other part stays as it starts.                       *)
(***************************************************************************)
EXTENDS Accounts

CONSTANTS
    Scenarios,      \* which of the scenarios below are played
    u1,             \* one of the users
    Browser, Token

VARIABLES
    scenario,
    account, row, jar, call, revoking, used, given, ended

accounts == << user, token, grant, req, snap, missed >>
session == << account, row, jar, call, revoking, used, given, ended >>

Symmetry == Permutations(Txn) \cup Permutations(User \ {u1})
                \cup Permutations(Browser) \cup Permutations(Token)

\* Requests lend the sessions their model values.
LoginUsers == {u1}

\* Two requests at once, from two browsers or two tabs of one, with every fault.
Tabs == INSTANCE Sessions WITH
    User <- LoginUsers, Call <- Txn, MaxEdits <- 1,
    Faults <- {"database", "crash", "network"}

\* Over a database whose statements may fail.
Kept == INSTANCE Sessions WITH
    User <- LoginUsers, Call <- Txn, MaxEdits <- 2, Faults <- {"database"}

ASSUME Tabs!SessionsAssumption /\ Kept!SessionsAssumption

-----------------------------------------------------------------------------
\* The accounts

Hired == {{"ADMIN"}, {"SELLER"}, {"SUPERVISOR"}}
NoChange == [roles |-> Null, active |-> Null, reset |-> FALSE]
Demote == [NoChange EXCEPT !.roles = {"SELLER"}]
Reset == [NoChange EXCEPT !.reset = TRUE]
Deactivate == [NoChange EXCEPT !.active = FALSE]
Edits == {Demote, Reset, Deactivate}

\* The requests a scenario is about, and its edits of accounts.
Requests(s) ==
    CASE s = "pins" -> {"pin", "update"}
      [] s = "passwords" -> {"password", "update"}
      [] s = "approvals" -> {"consume", "pin", "update"}
      [] OTHER -> {"create", "update"}
EditsOf(s) ==
    CASE s = "pins" -> {Demote} [] s = "hiring" -> {Deactivate}
      [] OTHER -> {Reset}

\* Who works here: a supervisor with a PIN and two admins, or one; an admin with
\* a PIN and a cashier; or an admin alone, who hires others.
Team(s, v) == [u \in User |->
    CASE s \in {"pins", "passwords"} /\ u = u1 ->
               [NewAccount({"SUPERVISOR"}) EXCEPT !.pin = TRUE]
      [] s = "pins" \/ (s = "passwords" /\ u = v) -> NewAccount({"ADMIN"})
      [] s = "approvals" /\ u = u1 -> [NewAccount({"ADMIN"}) EXCEPT !.pin = TRUE]
      [] s = "approvals" /\ u = v -> NewAccount({"SELLER"})
      [] s \in {"hiring", "tabs", "kept"} /\ u = v -> NewAccount({"ADMIN"})
      [] OTHER -> NoAccount]

AccountsInit ==
    /\ scenario \in Scenarios
    /\ user \in {Team(scenario, v) : v \in User \ {u1}}
    /\ token = [u \in User |-> user[u].roles]
    /\ grant = [g \in Grant |-> NoGrant]
    /\ TxnInit
    /\ IF scenario = "kept" THEN Kept!Init ELSE Tabs!Init

\* The scenario's requests, about people who work here or are being hired.
InPlay ==
    /\ grant' # grant => scenario = "approvals"
    /\ \A t \in Txn : Running(t)' =>
         LET r == req'[t] IN
         /\ r.op \in Requests(scenario)
         /\ r.op = "create" => r.roles = {"ADMIN"}
         /\ r.op = "update" => \A u \in DOMAIN r.changes :
                user[u] # NoAccount /\ r.changes[u] \in EditsOf(scenario)

OneAtATime == \A c, d \in Txn : call'[c] # Kept!Idle /\ call'[d] # Kept!Idle => c = d

AccountsNext ==
    \/ /\ scenario \in {"pins", "passwords", "approvals", "hiring"}
       /\ Next /\ InPlay /\ UNCHANGED << scenario, session >>
    \/ scenario = "tabs" /\ Tabs!Next /\ UNCHANGED << scenario, accounts >>
    \/ scenario = "kept" /\ Kept!Next /\ OneAtATime /\ UNCHANGED << scenario, accounts >>

AccountsSpec == AccountsInit /\ [][AccountsNext]_<< scenario, accounts, session >>

\* One edit of each account, two where a password is reset and changed.
FewEdits == scenario # "passwords" => \A u \in User : user[u].stamp <= 1

-----------------------------------------------------------------------------
\* A refresh token is exchanged once, a session that was ended never gets a good
\* token again, and as long as one request at a time is made and answered, a
\* failing database costs nobody the session (refresh-token.service.ts rotate,
\* revokeAllForUsers, user.service.ts changeOwnPassword).
SessionsHold ==
    /\ [](scenario = "tabs" => Tabs!TypeOK /\ Tabs!ExchangedOnce /\ Tabs!EndedStaysEnded)
    /\ [][scenario = "kept" => Kept!RefusedOnlyIfEnded]_session

=============================================================================
