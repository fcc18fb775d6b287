---------------------------- MODULE Transactions ----------------------------
(***************************************************************************)
(* How a request runs its transaction: a connection of the pool, the       *)
(* record of its idempotency key, the rows it locks one after the other,   *)
(* what it reads inside, and the commit; a deadlock or a wait that took    *)
(* too long rolls it back, and it is tried again a few times.  What a      *)
(* transaction does to its first row is done to that row once.             *)
(***************************************************************************)
EXTENDS Integers, Sequences, FiniteSets

CONSTANTS
    Requests, Keys, Rows,
    Plans,     \* bound: what requests may ask for, sequences of the rows they lock
    Conns,     \* connectionLimit of the pool
    Retries,   \* retries of withTransaction
    MaxFalls   \* bound: how often the process goes down

NoKey == "nokey"
NoOne == "noone"

ASSUME TransactionsAssumption ==
    /\ Conns \in Nat \ {0} /\ {Retries, MaxFalls} \subseteq Nat
    /\ Plans \subseteq Seq(Rows) \ {<<>>}
    /\ NoKey \notin Keys
    /\ Requests \cap {NoOne, "none", "refused", "failed", "lost"} = {}

VARIABLES
    ask,      \* what a request asks for: its key and its rows
    phase,    \* where it is
    held,     \* how many of its rows it has locked
    attempt,  \* transactions it has begun
    record,   \* idempotency_records: the request of a key, and its status
    done,     \* committed effects: the requests that changed a row
    answer,   \* what a request was answered
    falls     \* times the process went down

txVars == <<ask, phase, held, attempt, record, done, answer, falls>>

NoRecord == [by |-> NoOne, status |-> "absent"]

TxInit ==
    /\ ask \in [Requests -> [key : Keys \cup {NoKey}, rows : Plans]]
    /\ phase = [r \in Requests |-> "new"]
    /\ held = [r \in Requests |-> 0]
    /\ attempt = [r \in Requests |-> 0]
    /\ record = [k \in Keys |-> NoRecord]
    /\ done = [w \in Rows |-> {}]
    /\ answer = [r \in Requests |-> "none"]
    /\ falls = 0

InTx(r)   == phase[r] \notin {"new", "ended"}
Target(r) == ask[r].rows[1]
FreeConns == Conns - Cardinality({r \in Requests : InTx(r)})
Goes(r, p) == phase' = [phase EXCEPT ![r] = p]
-----------------------------------------------------------------------------
GetConnection(r) ==
    /\ phase[r] = "new" /\ FreeConns > 0
    /\ Goes(r, "key")
    /\ attempt' = [attempt EXCEPT ![r] = @ + 1]
    /\ UNCHANGED <<ask, held, record, done, answer, falls>>

\* withIdempotency: the insert waits while another transaction has the key.
TakeKey(r) ==
    LET k == ask[r].key
    IN  /\ phase[r] = "key"
        /\ \/ k = NoKey /\ UNCHANGED record
           \/ /\ k # NoKey /\ record[k] = NoRecord
              /\ record' = [record EXCEPT ![k] = [by |-> r, status |-> "processing"]]
        /\ Goes(r, "rows")
        /\ UNCHANGED <<ask, held, attempt, done, answer, falls>>

Finished(k) == k # NoKey /\ record[k].status = "done"

\* A committed record: its response, whatever this request asks for.
Replay(r) ==
    LET k == ask[r].key
    IN  /\ phase[r] = "key" /\ Finished(k)
        /\ answer' = [answer EXCEPT ![r] = record[k].by]
        /\ Goes(r, "ended")
        /\ UNCHANGED <<ask, held, attempt, record, done, falls>>

\* Mutant: the row is not tested under its lock.
NeverDone(r) == TRUE

Allowed(r) == done[Target(r)] = {}

Locked(w) == {q \in Requests : \E i \in 1..held[q] : ask[q].rows[i] = w}

\* The lock of the next row; at the first the handler tests the status it finds.
LockRow(r) ==
    LET w == ask[r].rows[held[r] + 1]
    IN  /\ phase[r] = "rows" /\ held[r] < Len(ask[r].rows)
        /\ held[r] > 0 => Allowed(r)
        /\ Locked(w) \subseteq {r}
        /\ held' = [held EXCEPT ![r] = @ + 1]
        /\ UNCHANGED <<ask, phase, attempt, record, done, answer, falls>>

\* Mutant: what is read inside asks the pool for another connection.
ReadsOnOther(r) == FreeConns > 0

\* Through the context of the transaction, on its own connection.
ReadsOnOwn(r) == InTx(r)

ReadInside(r) ==
    /\ phase[r] = "rows" /\ held[r] = Len(ask[r].rows) /\ Allowed(r)
    /\ ReadsOnOwn(r)
    /\ Goes(r, "commit")
    /\ UNCHANGED <<ask, held, attempt, record, done, answer, falls>>

Commit(r) ==
    /\ phase[r] = "commit"
    /\ done' = [done EXCEPT ![Target(r)] = @ \cup {r}]
    /\ record' = [k \in Keys |-> IF record[k].by = r THEN [by |-> r, status |-> "done"]
                                ELSE record[k]]
    /\ answer' = [answer EXCEPT ![r] = r]
    /\ held' = [held EXCEPT ![r] = 0]
    /\ Goes(r, "ended")
    /\ UNCHANGED <<ask, attempt, falls>>
-----------------------------------------------------------------------------
(* Rollback *)

\* The records of unfinished transactions are gone with them.
RolledBack(R) ==
    [k \in Keys |-> IF record[k].by \in R /\ record[k].status = "processing" THEN NoRecord
                    ELSE record[k]]

Rollback(r, next, said) ==
    /\ record' = RolledBack({r})
    /\ held' = [held EXCEPT ![r] = 0]
    /\ answer' = [answer EXCEPT ![r] = said]
    /\ Goes(r, next)
    /\ UNCHANGED <<ask, attempt, done, falls>>

\* The handler throws: the row is not in the status the request needs.
Refuse(r) ==
    /\ phase[r] = "rows" /\ held[r] >= 1 /\ ~Allowed(r)
    /\ Rollback(r, "ended", "refused")

WaitsFor(r) ==
    IF phase[r] = "key" /\ ask[r].key # NoKey /\ record[ask[r].key].status = "processing"
    THEN {record[ask[r].key].by}
    ELSE IF phase[r] = "rows" /\ held[r] < Len(ask[r].rows)
         THEN Locked(ask[r].rows[held[r] + 1]) \ {r} ELSE {}

MayRetry(r) == attempt[r] <= Retries

\* ER_LOCK_DEADLOCK and ER_LOCK_WAIT_TIMEOUT befall a transaction that waits.
RetryOrFail(r) ==
    /\ WaitsFor(r) # {}
    /\ IF MayRetry(r) THEN Rollback(r, "new", "none") ELSE Rollback(r, "ended", "failed")

\* The process goes down: MySQL rolls back what its connections had begun.
Fall ==
    /\ \E r \in Requests : InTx(r)
    /\ falls < MaxFalls /\ falls' = falls + 1
    /\ record' = RolledBack({r \in Requests : InTx(r)})
    /\ phase' = [r \in Requests |-> IF InTx(r) THEN "ended" ELSE phase[r]]
    /\ answer' = [r \in Requests |-> IF InTx(r) THEN "lost" ELSE answer[r]]
    /\ held' = [r \in Requests |-> 0]
    /\ UNCHANGED <<ask, attempt, done>>

Steps(r) ==
    \/ GetConnection(r) \/ TakeKey(r) \/ Replay(r) \/ LockRow(r) \/ ReadInside(r)
    \/ Commit(r) \/ Refuse(r) \/ RetryOrFail(r)

TxNext == Fall \/ \E r \in Requests : Steps(r)
=============================================================================
