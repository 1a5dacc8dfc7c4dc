---------------------------- MODULE SnapshotTxn ----------------------------
(***************************************************************************)
(* MongoDB transactions as runInTransaction drives them.  A transaction    *)
(* reads the database as it was when it began (snapshot isolation).  Its   *)
(* writes take effect in one step, and only if no document or unique-index *)
(* key it writes has been written by a transaction committed meanwhile;    *)
(* what it merely read may be stale.  On a write conflict, and on every    *)
(* other TransientTransactionError, the driver runs the whole callback     *)
(* again on a new snapshot.                                                *)
(*                                                                         *)
(* An ordinary $inc of a counter nobody reads thus has one use: it puts    *)
(* the document in the write set.  The code relies on such lock bumps.     *)
(***************************************************************************)
CONSTANT Txn    \* requests the server may be handling at the same time

VARIABLES
    req,        \* req[t]: the request t handles, or Idle
    snap,       \* snap[t]: the database t reads
    missed      \* missed[t]: documents and keys others wrote since t's snapshot

txnVars == << req, snap, missed >>

Idle == [op |-> "idle"]

Running(t) == req[t] # Idle

TxnInit ==
    /\ req = [t \in Txn |-> Idle]
    /\ snap = [t \in Txn |-> Idle]
    /\ missed = [t \in Txn |-> {}]

\* The shape of the variables: a running request reads one of the databases,
\* and nothing is remembered for an idle one.
TxnOK(databases) ==
    /\ DOMAIN req = Txn /\ DOMAIN snap = Txn /\ DOMAIN missed = Txn
    /\ \A t \in Txn : IF Running(t) THEN snap[t] \in databases ELSE missed[t] = {}

Begin(t, request, database) ==
    /\ ~Running(t)
    /\ req' = [req EXCEPT ![t] = request]
    /\ snap' = [snap EXCEPT ![t] = database]
    /\ UNCHANGED missed

Commit(t, writes) ==
    /\ missed[t] \cap writes = {}
    /\ req' = [req EXCEPT ![t] = Idle]
    /\ snap' = [snap EXCEPT ![t] = Idle]
    /\ missed' = [u \in Txn |-> IF u = t \/ ~Running(u) THEN {}
                                ELSE missed[u] \cup writes]

\* The driver runs the callback again from the top.
Retry(t, database) ==
    /\ Running(t)
    /\ missed[t] # {}
    /\ snap' = [snap EXCEPT ![t] = database]
    /\ missed' = [missed EXCEPT ![t] = {}]
    /\ UNCHANGED req

\* The callback throws (a refusal, a validation error) or the process dies:
\* nothing is written.
Abort(t) ==
    /\ Running(t)
    /\ req' = [req EXCEPT ![t] = Idle]
    /\ snap' = [snap EXCEPT ![t] = Idle]
    /\ missed' = [missed EXCEPT ![t] = {}]

=============================================================================
