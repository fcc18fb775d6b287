--------------------------- MODULE RequestSystem ---------------------------
(***************************************************************************)
(* What every request stands on: the database as it was set up, the        *)
(* configuration, the rate limit, and a transaction.  They share no state, *)
(* so a behaviour exercises one of them (bound); and what the handlers may *)
(* rely on.                                                                *)
(***************************************************************************)
EXTENDS ConfigCache, Transactions, Setup

VARIABLE part

vars == <<part, configVars, txVars, setupVars>>

Init ==
    /\ part \in {"setup", "load", "change", "limit", "tx"}
    /\ ConfigInit /\ SetupInit
    /\ IF part = "tx" THEN TxInit
       ELSE TxInit /\ \A r \in Requests : ask[r] = [key |-> NoKey, rows |-> CHOOSE p \in Plans : TRUE]

Next ==
    /\ UNCHANGED part
    /\ \/ part = "setup" /\ SetupNext /\ UNCHANGED <<configVars, txVars>>
       \/ part = "load" /\ LoadNext /\ UNCHANGED <<txVars, setupVars>>
       \/ part = "change" /\ ChangeNext /\ UNCHANGED <<txVars, setupVars>>
       \/ part = "limit" /\ LimitNext /\ UNCHANGED <<txVars, setupVars>>
       \/ part = "tx" /\ TxNext /\ UNCHANGED <<configVars, setupVars>>

\* MySQL grants locks, ends waits and answers; the pool hands out what is free.
FairSpec ==
    /\ Init /\ [][Next]_vars
    /\ \A r \in Requests : WF_vars(part = "tx" /\ Steps(r) /\ UNCHANGED <<part, configVars, setupVars>>)
-----------------------------------------------------------------------------

\* A migration that is recorded as applied has created all its tables, however runs of
\* the program overlap or die between a statement and the record.
RecordedMeansApplied ==
    \A f \in versions : \A k \in DOMAIN Creates[f] : Creates[f][k] \subseteq tables

\* Once a run of the seed has said that it succeeded, every table was filled once, the
\* accounts are what the ledger adds up to, and the price of the order that is held is
\* all that is frozen, although earlier runs may have died anywhere, and users register
\* and recharge at a running server before, during and after.
SeededMeansWhole ==
    seed.at = "done" =>
      /\ \A t \in DOMAIN full : full[t] = 1
      /\ wallets = sums
      /\ \A u \in HasLedger : wallets[u].frozen = IF u = seed.base + BuyerA THEN PriceA ELSE 0

\* What a process returns from its memory was the value of its level, or of the
\* platform's, no longer ago than a life in Redis and one in memory, both without their
\* last unit of time, however loads and changes cross: a value stored after its change
\* was announced lives no longer.
StaleIsBounded ==
    \A p \in Procs, l \in Levels : Live(memory[p][l]) =>
      \E m \in {l, "platform"} :
        LET until == current[m][memory[p][l].value]
        IN  until # Never /\ clock <= until + (RedisTtl - 1) + (MemoryTtl - 1)

\* Administrators who see the same version overwrite one another only if their
\* calls run at once: the version is tested and raised in two statements.
EditsFromOneVersion ==
    \A l \in Levels, v \in Values : edits[l][v] <= Cardinality(Calls)

\* A counter that was begun ends, unless a process went down between counting the
\* first request and setting the end: then those it counts stay limited for ever.
CounterEnds ==
    counter.n > 0 /\ counter.until = Never /\ kills = 0 => \E c \in Calls : At(c, "window")

\* Whatever is retried, repeated or lost, one request at most of those with the same
\* key takes effect, and on a row one request at most.
EffectOnce ==
    /\ \A k \in Keys : Cardinality({r \in Requests : ask[r].key = k /\ answer[r] = r}) <= 1
    /\ \A w \in Rows : Cardinality(done[w]) <= 1

\* Who is told that a request succeeded is told of an effect that is committed.
AnswersAreTrue ==
    \A r, q \in Requests : answer[r] = q => q \in done[Target(q)]

\* A key whose request was lost, refused or given up can be used again.
KeysAreFreed ==
    \A k \in Keys : record[k].status = "processing" => InTx(record[k].by)

\* Every request is answered, whatever the others hold: transactions do not wait in a
\* circle, neither for rows nor for connections.
EveryRequestEnds ==
    \A r \in Requests : (part = "tx" /\ phase[r] = "new") ~> (phase[r] = "ended")

\* What is kept in Redis or in memory comes to its end: a value that was replaced, and
\* a count that limits.
CachesEnd == StaleIsBounded /\ CounterEnds

\* The idempotency key does what it is for: one effect, answers that are true, and it
\* is not used up by a request that came to nothing.
KeysServeOnce == EffectOnce /\ AnswersAreTrue /\ KeysAreFreed
=============================================================================
