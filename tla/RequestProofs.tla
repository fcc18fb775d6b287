---------------------------- MODULE RequestProofs ----------------------------
(***************************************************************************)
(* What every request stands on, proved for any number of scripts, files,  *)
(* processes, calls, requests, keys, rows and connections:                 *)
(*  - what is repeated, rolled back or lost takes effect once under its    *)
(*    key, and a key is not used up by a request that came to nothing;     *)
(*  - a migration that is recorded has created its tables, and a seed that *)
(*    ended has filled each table once and left a ledger that adds up,     *)
(*    whatever overlaps or dies;                                           *)
(*  - the caches give away nothing older than their two lives, a counter   *)
(*    that was begun ends, and one version of a row has few successors;    *)
(*  - two runs of a scheduled job overlap only when a lock has expired.    *)
(***************************************************************************)
EXTENDS RequestSystem, JobLock, FiniteSetTheorems, WellFoundedInduction, TLAPS

Asking  == [key : Keys \cup {NoKey}, rows : Plans]
TxPhases  == {"new", "key", "rows", "commit", "ended"}
Answers == Requests \cup {"none", "refused", "failed", "lost"}
Records == [by : Requests \cup {NoOne}, status : {"absent", "processing", "done"}]

TxType ==
    /\ ask \in [Requests -> Asking]
    /\ phase \in [Requests -> TxPhases]
    /\ held \in [Requests -> Nat]
    /\ record \in [Keys -> Records]
    /\ done \in [Rows -> SUBSET Requests]
    /\ answer \in [Requests -> Answers]

Working(r) == phase[r] \in {"rows", "commit"}

\* Locks belong to transactions under way, and a row to one of them.
LocksHold(r) ==
    /\ held[r] <= Len(ask[r].rows)
    /\ held[r] > 0 => Working(r)
    /\ phase[r] = "commit" => held[r] > 0 /\ done[Target(r)] = {}

LocksExclude(r, q) ==
    \A i \in 1..held[r], j \in 1..held[q] : ask[r].rows[i] = ask[q].rows[j] => r = q

\* The record of a key and the transaction that wrote it tell the same.
KeyFollows(r) ==
    /\ Working(r) /\ ask[r].key # NoKey =>
         record[ask[r].key] = [by |-> r, status |-> "processing"]
    /\ answer[r] = r /\ ask[r].key # NoKey =>
         record[ask[r].key] = [by |-> r, status |-> "done"]

RecordFollows(k) ==
    LET r == record[k].by
    IN  /\ record[k].status = "absent" => r = NoOne
        /\ record[k].status = "processing" =>
             r \in Requests /\ ask[r].key = k /\ Working(r)
        /\ record[k].status = "done" =>
             r \in Requests /\ phase[r] = "ended" /\ r \in done[Target(r)]

OneEffect(w) == \A r, q \in done[w] : r = q

AnswerTrue(r) == answer[r] \in Requests => answer[r] \in done[Target(answer[r])]

TxInv ==
    /\ TxType
    /\ \A r \in Requests : LocksHold(r) /\ KeyFollows(r) /\ AnswerTrue(r)
    /\ \A r, q \in Requests : LocksExclude(r, q)
    /\ \A k \in Keys : RecordFollows(k)
    /\ \A w \in Rows : OneEffect(w)
-----------------------------------------------------------------------------

LEMMA TargetIsRow ==
    ASSUME TxType, NEW r \in Requests
    PROVE  /\ ask[r].rows \in Seq(Rows) /\ ask[r].rows # <<>>
           /\ Len(ask[r].rows) \in Nat \ {0}
           /\ Target(r) \in Rows
<1>1. ask[r].rows \in Plans
  BY DEF TxType, Asking
<1>2. ask[r].rows \in Seq(Rows) /\ ask[r].rows # <<>>
  BY <1>1, TransactionsAssumption
<1>3. Len(ask[r].rows) \in Nat \ {0}
  BY <1>2
<1> QED BY <1>2, <1>3 DEF Target

\* A request is none of the words for how it ended.
LEMMA RequestsAreNoWords ==
    ASSUME NEW r \in Requests
    PROVE  r \notin {NoOne, "none", "refused", "failed", "lost"}
<1> QED BY TransactionsAssumption

LEMMA NobodyHasFinishedAtFirst == TxInit => TxInv
<1> SUFFICES ASSUME TxInit PROVE TxInv
  OBVIOUS
<1>1. NoRecord \in Records
  BY DEF NoRecord, Records
<1>2. TxType
  BY <1>1 DEF TxInit, TxType, Asking, TxPhases, Answers
<1>3. ASSUME NEW r \in Requests
      PROVE  phase[r] = "new" /\ held[r] = 0 /\ answer[r] = "none" /\ r # "none"
  BY RequestsAreNoWords DEF TxInit
<1>4. \A r \in Requests : LocksHold(r) /\ KeyFollows(r) /\ AnswerTrue(r)
  BY <1>2, <1>3, TargetIsRow, RequestsAreNoWords DEF LocksHold, KeyFollows, AnswerTrue, Working
<1>5. \A r, q \in Requests : LocksExclude(r, q)
  BY <1>3 DEF LocksExclude
<1>6. \A k \in Keys : RecordFollows(k)
  BY DEF TxInit, NoRecord, RecordFollows
<1>7. \A w \in Rows : OneEffect(w)
  BY DEF TxInit, OneEffect
<1> QED BY <1>2, <1>4, <1>5, <1>6, <1>7 DEF TxInv
-----------------------------------------------------------------------------
(* One step after the other *)

LEMMA GetConnectionKeeps ==
    ASSUME TxInv, NEW r \in Requests, GetConnection(r)
    PROVE  TxInv'
<1>1. /\ phase[r] = "new" /\ phase' = [phase EXCEPT ![r] = "key"]
      /\ UNCHANGED <<ask, held, record, done, answer>>
  BY DEF GetConnection, Goes
<1>2. TxType'
  BY <1>1 DEF TxInv, TxType, TxPhases
<1>3. \A q \in Requests : /\ Working(q)' = Working(q)
                          /\ phase'[q] = "commit" <=> phase[q] = "commit"
                          /\ phase'[q] = "ended" <=> phase[q] = "ended"
  BY <1>1 DEF TxInv, TxType, Working
<1>4. \A q \in Requests : LocksHold(q)' /\ KeyFollows(q)' /\ AnswerTrue(q)'
  <2>1. \A q \in Requests : LocksHold(q)'
    BY <1>1, <1>3 DEF TxInv, LocksHold, Target
  <2>2. \A q \in Requests : KeyFollows(q)'
    BY <1>1, <1>3 DEF TxInv, KeyFollows
  <2>3. \A q \in Requests : AnswerTrue(q)'
    BY <1>1 DEF TxInv, AnswerTrue, Target
  <2> QED BY <2>1, <2>2, <2>3
<1>5. \A q, p \in Requests : LocksExclude(q, p)'
  BY <1>1 DEF TxInv, LocksExclude
<1>6. \A k \in Keys : RecordFollows(k)'
  BY <1>1, <1>3 DEF TxInv, RecordFollows, Target
<1>7. \A w \in Rows : OneEffect(w)'
  BY <1>1 DEF TxInv, OneEffect
<1> QED BY <1>2, <1>4, <1>5, <1>6, <1>7 DEF TxInv

\* The key was free, so nobody works under it and nobody has finished with it.
LEMMA TakeKeyKeeps ==
    ASSUME TxInv, NEW r \in Requests, TakeKey(r)
    PROVE  TxInv'
<1> DEFINE k == ask[r].key
<1>1. /\ phase[r] = "key" /\ phase' = [phase EXCEPT ![r] = "rows"]
      /\ UNCHANGED <<ask, held, done, answer>>
  BY DEF TakeKey, Goes
<1>2. \/ k = NoKey /\ record' = record
      \/ /\ k # NoKey /\ record[k] = NoRecord
         /\ record' = [record EXCEPT ![k] = [by |-> r, status |-> "processing"]]
  BY DEF TakeKey
<1>3. k \in Keys \cup {NoKey}
  BY DEF TxInv, TxType, Asking
<1>4. TxType'
  <2>1. phase' \in [Requests -> TxPhases]
    BY <1>1 DEF TxInv, TxType, TxPhases
  <2>2. record' \in [Keys -> Records]
    BY <1>2 DEF TxInv, TxType, Records
  <2> QED BY <1>1, <2>1, <2>2 DEF TxInv, TxType
<1>5. /\ \A q \in Requests \ {r} : phase'[q] = phase[q] /\ (Working(q)' <=> Working(q))
      /\ phase'[r] = "rows" /\ Working(r)' /\ ~Working(r)
  BY <1>1 DEF TxInv, TxType, Working
<1>6. \A q \in Requests : LocksHold(q)' /\ AnswerTrue(q)'
  BY <1>1, <1>5 DEF TxInv, LocksHold, AnswerTrue, Target
<1>7. \A q, p \in Requests : LocksExclude(q, p)'
  BY <1>1 DEF TxInv, LocksExclude
<1>8. \A w \in Rows : OneEffect(w)'
  BY <1>1 DEF TxInv, OneEffect
<1>9. CASE k = NoKey
  <2>1. record' = record
    BY <1>2, <1>9
  <2>2. \A q \in Requests : KeyFollows(q)'
    BY <1>1, <1>5, <1>9, <2>1 DEF TxInv, KeyFollows
  <2>3. \A l \in Keys : RecordFollows(l)'
    BY <1>1, <1>5, <2>1 DEF TxInv, RecordFollows, Target
  <2> QED BY <1>4, <1>6, <1>7, <1>8, <2>2, <2>3 DEF TxInv
<1>10. CASE k # NoKey
  <2>1. /\ k \in Keys /\ record[k] = NoRecord
        /\ record'[k] = [by |-> r, status |-> "processing"]
        /\ \A l \in Keys \ {k} : record'[l] = record[l]
    BY <1>2, <1>3, <1>10 DEF TxInv, TxType
  <2>2. ASSUME NEW q \in Requests PROVE KeyFollows(q)'
    <3>1. ask[q].key = k => ~(Working(q) \/ answer[q] = q)
      <4>1. record[k].status = "absent"
        BY <2>1 DEF NoRecord
      <4>2. KeyFollows(q)
        BY DEF TxInv
      <4>3. ask[q].key = k /\ Working(q) => record[k].status = "processing"
        BY <1>10, <4>2 DEF KeyFollows
      <4>4. ask[q].key = k /\ answer[q] = q => record[k].status = "done"
        BY <1>10, <4>2 DEF KeyFollows
      <4> QED BY <4>1, <4>3, <4>4
    <3>2. ask[q].key \in Keys \cup {NoKey}
      BY DEF TxInv, TxType, Asking
    <3>3. CASE q = r
      BY <1>1, <2>1, <3>1, <3>3 DEF KeyFollows
    <3>4. CASE q # r /\ ask[q].key = k
      BY <1>1, <1>5, <3>1, <3>4 DEF KeyFollows
    <3>5. CASE q # r /\ ask[q].key # k
      BY <1>1, <1>5, <2>1, <3>2, <3>5 DEF TxInv, KeyFollows
    <3> QED BY <3>3, <3>4, <3>5
  <2>3. ASSUME NEW l \in Keys PROVE RecordFollows(l)'
    <3>1. CASE l = k
      BY <1>1, <1>5, <2>1, <3>1 DEF RecordFollows
    <3>2. CASE l # k
      BY <1>1, <1>5, <2>1, <3>2 DEF TxInv, RecordFollows, Target
    <3> QED BY <3>1, <3>2
  <2> QED BY <1>4, <1>6, <1>7, <1>8, <2>2, <2>3 DEF TxInv
<1> QED BY <1>9, <1>10

\* The first response of the key was given for an effect that is committed.
LEMMA ReplayKeeps ==
    ASSUME TxInv, NEW r \in Requests, Replay(r)
    PROVE  TxInv'
<1> DEFINE k == ask[r].key
           q0 == record[k].by
<1>1. /\ phase[r] = "key" /\ k # NoKey /\ record[k].status = "done"
      /\ phase' = [phase EXCEPT ![r] = "ended"]
      /\ answer' = [answer EXCEPT ![r] = q0]
      /\ UNCHANGED <<ask, held, record, done>>
  BY DEF Replay, Finished, Goes
<1>2. k \in Keys
  BY <1>1 DEF TxInv, TxType, Asking
<1>3. q0 \in Requests /\ phase[q0] = "ended" /\ q0 \in done[Target(q0)] /\ q0 # r
  BY <1>1, <1>2 DEF TxInv, RecordFollows
<1>4. TxType'
  BY <1>1, <1>3 DEF TxInv, TxType, TxPhases, Answers
<1>5. /\ \A q \in Requests \ {r} : phase'[q] = phase[q] /\ answer'[q] = answer[q]
      /\ phase'[r] = "ended" /\ answer'[r] = q0
      /\ \A q \in Requests : Working(q)' <=> Working(q)
  BY <1>1 DEF TxInv, TxType, Working
<1>6. \A q \in Requests : LocksHold(q)'
  BY <1>1, <1>5 DEF TxInv, LocksHold, Target
<1>7. \A q \in Requests : KeyFollows(q)'
  BY <1>1, <1>3, <1>5 DEF TxInv, KeyFollows
<1>8. \A q \in Requests : AnswerTrue(q)'
  BY <1>1, <1>3, <1>5 DEF TxInv, AnswerTrue, Target
<1>9. \A q, p \in Requests : LocksExclude(q, p)'
  BY <1>1 DEF TxInv, LocksExclude
<1>10. \A l \in Keys : RecordFollows(l)'
  BY <1>1, <1>5 DEF TxInv, RecordFollows, Target
<1>11. \A w \in Rows : OneEffect(w)'
  BY <1>1 DEF TxInv, OneEffect
<1> QED BY <1>4, <1>6, <1>7, <1>8, <1>9, <1>10, <1>11 DEF TxInv

\* The next row is held by nobody else.
LEMMA LockRowKeeps ==
    ASSUME TxInv, NEW r \in Requests, LockRow(r)
    PROVE  TxInv'
<1> DEFINE n == held[r] + 1
<1>1. /\ phase[r] = "rows" /\ held[r] < Len(ask[r].rows)
      /\ Locked(ask[r].rows[n]) \subseteq {r}
      /\ held' = [held EXCEPT ![r] = n]
      /\ UNCHANGED <<ask, phase, record, done, answer>>
  BY DEF LockRow
<1>2. held[r] \in Nat /\ Len(ask[r].rows) \in Nat
  BY TargetIsRow DEF TxInv, TxType
<1>3. held'[r] = n /\ \A q \in Requests \ {r} : held'[q] = held[q]
  BY <1>1 DEF TxInv, TxType
<1>4. TxType'
  BY <1>1, <1>2 DEF TxInv, TxType
<1>5. ASSUME NEW q \in Requests PROVE LocksHold(q)'
  <2>1. CASE q = r
    BY <1>1, <1>2, <1>3, <2>1 DEF LocksHold, Working
  <2>2. CASE q # r
    BY <1>1, <1>3, <2>2 DEF TxInv, LocksHold, Working, Target
  <2> QED BY <2>1, <2>2
<1>6. ASSUME NEW q \in Requests, NEW p \in Requests,
             NEW i \in 1..held'[q], NEW j \in 1..held'[p], ask[q].rows[i] = ask[p].rows[j]
      PROVE  q = p
  <2>1. \A x \in Requests : x # r => \A j1 \in 1..held[x] : ask[x].rows[j1] # ask[r].rows[n]
    BY <1>1 DEF Locked
  <2>2. \A m \in 1..held'[r] : m = n \/ m \in 1..held[r]
    BY <1>2, <1>3
  <2>3. LocksExclude(q, p)
    BY DEF TxInv
  <2>4. CASE q # r /\ p # r
    BY <1>3, <1>6, <2>3, <2>4 DEF LocksExclude
  <2>5. CASE q = r /\ p # r
    BY <1>3, <1>6, <2>1, <2>2, <2>3, <2>5 DEF LocksExclude
  <2>6. CASE q # r /\ p = r
    BY <1>3, <1>6, <2>1, <2>2, <2>3, <2>6 DEF LocksExclude
  <2> QED BY <2>4, <2>5, <2>6
<1>7. \A q, p \in Requests : LocksExclude(q, p)'
  BY <1>1, <1>6 DEF LocksExclude
<1>8. \A q \in Requests : KeyFollows(q)' /\ AnswerTrue(q)'
  BY <1>1 DEF TxInv, KeyFollows, AnswerTrue, Working, Target
<1>9. \A k \in Keys : RecordFollows(k)'
  BY <1>1 DEF TxInv, RecordFollows, Working, Target
<1>10. \A w \in Rows : OneEffect(w)'
  BY <1>1 DEF TxInv, OneEffect
<1> QED BY <1>4, <1>5, <1>7, <1>8, <1>9, <1>10 DEF TxInv

\* All rows are held, and the first was found in the status the request needs.
LEMMA ReadInsideKeeps ==
    ASSUME TxInv, NEW r \in Requests, ReadInside(r)
    PROVE  TxInv'
<1>1. /\ phase[r] = "rows" /\ held[r] = Len(ask[r].rows) /\ done[Target(r)] = {}
      /\ phase' = [phase EXCEPT ![r] = "commit"]
      /\ UNCHANGED <<ask, held, record, done, answer>>
  BY DEF ReadInside, Goes, Allowed
<1>2. /\ \A q \in Requests \ {r} : phase'[q] = phase[q]
      /\ phase'[r] = "commit"
      /\ \A q \in Requests : Working(q)' <=> Working(q)
  BY <1>1 DEF TxInv, TxType, Working
<1>3. TxType'
  BY <1>1 DEF TxInv, TxType, TxPhases
<1>4. ASSUME NEW q \in Requests PROVE LocksHold(q)'
  <2>1. CASE q = r
    BY <1>1, <1>2, <2>1, TargetIsRow DEF TxInv, LocksHold, Working, Target
  <2>2. CASE q # r
    BY <1>1, <1>2, <2>2 DEF TxInv, LocksHold, Target
  <2> QED BY <2>1, <2>2
<1>5. \A q \in Requests : KeyFollows(q)'
  BY <1>1, <1>2 DEF TxInv, KeyFollows
<1>6. \A q \in Requests : AnswerTrue(q)'
  BY <1>1 DEF TxInv, AnswerTrue, Target
<1>7. \A q, p \in Requests : LocksExclude(q, p)'
  BY <1>1 DEF TxInv, LocksExclude
<1>8. \A k \in Keys : RecordFollows(k)'
  BY <1>1, <1>2 DEF TxInv, RecordFollows, Target
<1>9. \A w \in Rows : OneEffect(w)'
  BY <1>1 DEF TxInv, OneEffect
<1> QED BY <1>3, <1>4, <1>5, <1>6, <1>7, <1>8, <1>9 DEF TxInv

\* Nobody else can be about to commit on the same row: it would hold it too.
LEMMA CommitKeeps ==
    ASSUME TxInv, NEW r \in Requests, Commit(r)
    PROVE  TxInv'
<1> DEFINE w == Target(r)
           Done == [by |-> r, status |-> "done"]
<1>1. /\ phase[r] = "commit"
      /\ done' = [done EXCEPT ![w] = @ \cup {r}]
      /\ record' = [k \in Keys |-> IF record[k].by = r THEN Done ELSE record[k]]
      /\ answer' = [answer EXCEPT ![r] = r]
      /\ held' = [held EXCEPT ![r] = 0]
      /\ phase' = [phase EXCEPT ![r] = "ended"]
      /\ ask' = ask
  BY DEF Commit, Goes
<1>2. w \in Rows /\ held[r] \in Nat \ {0} /\ done[w] = {}
  BY <1>1, TargetIsRow DEF TxInv, TxType, LocksHold
<1>3. /\ done'[w] = {r} /\ \A v \in Rows \ {w} : done'[v] = done[v]
      /\ held'[r] = 0 /\ \A q \in Requests \ {r} : held'[q] = held[q]
      /\ answer'[r] = r /\ \A q \in Requests \ {r} : answer'[q] = answer[q]
      /\ phase'[r] = "ended" /\ \A q \in Requests \ {r} : phase'[q] = phase[q]
  BY <1>1, <1>2 DEF TxInv, TxType
<1>4. /\ Working(r) /\ ~Working(r)'
      /\ \A q \in Requests \ {r} : Working(q)' <=> Working(q)
  BY <1>1, <1>3 DEF Working
<1>5. \A v \in Rows : done[v] \subseteq done'[v]
  BY <1>2, <1>3
<1>6. TxType'
  <2>1. done' \in [Rows -> SUBSET Requests]
    BY <1>1, <1>2 DEF TxInv, TxType
  <2>2. record' \in [Keys -> Records]
    BY <1>1 DEF TxInv, TxType, Records
  <2>3. /\ phase' \in [Requests -> TxPhases] /\ held' \in [Requests -> Nat]
        /\ answer' \in [Requests -> Answers]
    BY <1>1 DEF TxInv, TxType, TxPhases, Answers
  <2> QED BY <1>1, <2>1, <2>2, <2>3 DEF TxInv, TxType
<1>7. ASSUME NEW q \in Requests PROVE LocksHold(q)'
  <2>1. CASE q = r
    BY <1>1, <1>3, <2>1, TargetIsRow DEF TxInv, LocksHold
  <2>2. CASE q # r
    <3>1. phase[q] = "commit" => Target(q) # w
      <4> SUFFICES ASSUME phase[q] = "commit", Target(q) = w PROVE FALSE
        OBVIOUS
      <4>1. held[q] \in Nat \ {0}
        BY DEF TxInv, TxType, LocksHold
      <4>2. 1 \in 1..held[q] /\ 1 \in 1..held[r]
        BY <1>2, <4>1
      <4>3. ask[q].rows[1] = ask[r].rows[1]
        BY DEF Target
      <4> QED BY <2>2, <4>2, <4>3 DEF TxInv, LocksExclude
    <3>2. Target(q)' = Target(q) /\ Target(q) \in Rows
      BY <1>1, TargetIsRow DEF TxInv, Target
    <3> QED BY <1>1, <1>3, <1>4, <2>2, <3>1, <3>2 DEF TxInv, LocksHold
  <2> QED BY <2>1, <2>2
<1>8. ASSUME NEW q \in Requests PROVE KeyFollows(q)'
  <2>1. ask[q].key \in Keys \cup {NoKey}
    BY DEF TxInv, TxType, Asking
  <2>2. KeyFollows(q)
    BY DEF TxInv
  <2>3. CASE q = r
    <3>1. ask[q].key # NoKey => record'[ask[q].key] = Done
      BY <1>1, <1>4, <2>1, <2>2, <2>3 DEF KeyFollows
    <3> QED BY <1>1, <1>4, <2>3, <3>1 DEF KeyFollows
  <2>4. CASE q # r
    <3>1. ask[q].key # NoKey /\ record[ask[q].key].by = q =>
             record'[ask[q].key] = record[ask[q].key]
      BY <1>1, <2>1, <2>4
    <3> QED BY <1>1, <1>3, <1>4, <2>2, <2>4, <3>1 DEF KeyFollows
  <2> QED BY <2>3, <2>4
<1>9. ASSUME NEW k \in Keys PROVE RecordFollows(k)'
  <2>1. CASE record[k].by = r
    <3>1. record'[k] = Done /\ Target(r)' = w
      BY <1>1, <2>1 DEF Target
    <3> QED BY <1>3, <3>1 DEF RecordFollows
  <2>2. CASE record[k].by # r
    <3>1. record'[k] = record[k]
      BY <1>1, <2>2
    <3>2. record[k].by \in Requests =>
             Target(record[k].by)' = Target(record[k].by) /\ Target(record[k].by) \in Rows
      BY <1>1, TargetIsRow DEF TxInv, Target
    <3> QED BY <1>1, <1>3, <1>4, <1>5, <2>2, <3>1, <3>2 DEF TxInv, RecordFollows
  <2> QED BY <2>1, <2>2
<1>10. ASSUME NEW q \in Requests PROVE AnswerTrue(q)'
  <2>1. \A p \in Requests : Target(p)' = Target(p) /\ Target(p) \in Rows
    BY <1>1, TargetIsRow DEF TxInv, Target
  <2>2. CASE q = r
    BY <1>3, <2>1, <2>2 DEF AnswerTrue
  <2>3. CASE q # r
    BY <1>3, <1>5, <2>1, <2>3 DEF TxInv, AnswerTrue
  <2> QED BY <2>2, <2>3
<1>11. \A q, p \in Requests : LocksExclude(q, p)'
  BY <1>1, <1>3 DEF TxInv, LocksExclude
<1>12. \A v \in Rows : OneEffect(v)'
  BY <1>3 DEF TxInv, OneEffect
<1> QED BY <1>6, <1>7, <1>8, <1>9, <1>10, <1>11, <1>12 DEF TxInv

\* Of what a transaction wrote nothing stays: not the record of its key either.
LEMMA RollbackKeeps ==
    ASSUME TxInv, NEW r \in Requests, phase[r] \in {"key", "rows"},
           NEW next \in {"new", "ended"}, NEW said \in {"none", "refused", "failed"},
           Rollback(r, next, said)
    PROVE  TxInv'
<1>1. /\ record' = RolledBack({r})
      /\ held' = [held EXCEPT ![r] = 0]
      /\ answer' = [answer EXCEPT ![r] = said]
      /\ phase' = [phase EXCEPT ![r] = next]
      /\ UNCHANGED <<ask, done>>
  BY DEF Rollback, Goes
<1>2. /\ held'[r] = 0 /\ \A q \in Requests \ {r} : held'[q] = held[q]
      /\ answer'[r] = said /\ \A q \in Requests \ {r} : answer'[q] = answer[q]
      /\ phase'[r] = next /\ \A q \in Requests \ {r} : phase'[q] = phase[q]
      /\ said \notin Requests
  BY <1>1, TransactionsAssumption DEF TxInv, TxType
<1>3. ~Working(r)' /\ \A q \in Requests \ {r} : Working(q)' <=> Working(q)
  BY <1>2 DEF Working
<1>4. \A k \in Keys :
         record'[k] = IF record[k].by = r /\ record[k].status = "processing" THEN NoRecord
                      ELSE record[k]
  BY <1>1 DEF RolledBack
<1>5. TxType'
  <2>1. record' \in [Keys -> Records]
    BY <1>1 DEF TxInv, TxType, RolledBack, Records, NoRecord
  <2>2. /\ phase' \in [Requests -> TxPhases] /\ held' \in [Requests -> Nat]
        /\ answer' \in [Requests -> Answers]
    BY <1>1 DEF TxInv, TxType, TxPhases, Answers
  <2> QED BY <1>1, <2>1, <2>2 DEF TxInv, TxType
<1>6. ASSUME NEW q \in Requests PROVE LocksHold(q)'
  <2>1. CASE q = r
    BY <1>1, <1>2, <2>1, TargetIsRow DEF TxInv, LocksHold
  <2>2. CASE q # r
    BY <1>1, <1>2, <1>3, <2>2 DEF TxInv, LocksHold, Target
  <2> QED BY <2>1, <2>2
<1>7. ASSUME NEW q \in Requests PROVE KeyFollows(q)'
  <2>1. CASE q = r
    BY <1>2, <1>3, <2>1 DEF KeyFollows
  <2>2. CASE q # r
    <3>1. ask[q].key \in Keys \cup {NoKey}
      BY DEF TxInv, TxType, Asking
    <3>2. KeyFollows(q)
      BY DEF TxInv
    <3>3. ask[q].key # NoKey /\ record[ask[q].key].by = q =>
             record'[ask[q].key] = record[ask[q].key]
      BY <1>4, <2>2, <3>1
    <3> QED BY <1>1, <1>2, <1>3, <2>2, <3>2, <3>3 DEF KeyFollows
  <2> QED BY <2>1, <2>2
<1>8. ASSUME NEW k \in Keys PROVE RecordFollows(k)'
  <2>1. CASE record[k].by = r /\ record[k].status = "processing"
    BY <1>4, <2>1 DEF RecordFollows, NoRecord
  <2>2. CASE record[k].by # r
    <3>1. record'[k] = record[k]
      BY <1>4, <2>2
    <3>2. \A q \in Requests : Target(q)' = Target(q)
      BY <1>1 DEF Target
    <3>3. RecordFollows(k)
      BY DEF TxInv
    <3> QED BY <1>1, <1>2, <1>3, <2>2, <3>1, <3>2, <3>3 DEF RecordFollows
  <2>3. CASE record[k].by = r /\ record[k].status # "processing"
    <3>1. record[k].status \in {"absent", "processing", "done"}
      BY DEF TxInv, TxType, Records
    <3>2. FALSE
      BY <2>3, <3>1, RequestsAreNoWords DEF TxInv, RecordFollows
    <3> QED BY <3>2
  <2> QED BY <2>1, <2>2, <2>3
<1>9. \A q \in Requests : AnswerTrue(q)'
  BY <1>1, <1>2 DEF TxInv, AnswerTrue, Target
<1>10. \A q, p \in Requests : LocksExclude(q, p)'
  BY <1>1, <1>2 DEF TxInv, LocksExclude
<1>11. \A w \in Rows : OneEffect(w)'
  BY <1>1 DEF TxInv, OneEffect
<1> QED BY <1>5, <1>6, <1>7, <1>8, <1>9, <1>10, <1>11 DEF TxInv

\* When the process goes down the same happens to all that was under way.
LEMMA FallKeeps ==
    ASSUME TxInv, Fall
    PROVE  TxInv'
<1> DEFINE Gone == {r \in Requests : InTx(r)}
<1>1. /\ record' = RolledBack(Gone)
      /\ phase' = [r \in Requests |-> IF InTx(r) THEN "ended" ELSE phase[r]]
      /\ answer' = [r \in Requests |-> IF InTx(r) THEN "lost" ELSE answer[r]]
      /\ held' = [r \in Requests |-> 0]
      /\ UNCHANGED <<ask, done>>
  BY DEF Fall
<1>2. \A q \in Requests :
         /\ held'[q] = 0 /\ ~Working(q)' /\ phase'[q] # "commit"
         /\ answer'[q] = "lost" \/ (answer'[q] = answer[q] /\ ~InTx(q))
         /\ phase[q] = "ended" => phase'[q] = "ended"
  BY <1>1 DEF TxInv, TxType, TxPhases, Working, InTx
<1>3. \A k \in Keys :
         record'[k] = IF record[k].by \in Gone /\ record[k].status = "processing" THEN NoRecord
                      ELSE record[k]
  BY <1>1 DEF RolledBack
<1>4. TxType'
  <2>1. record' \in [Keys -> Records]
    BY <1>1 DEF TxInv, TxType, RolledBack, Records, NoRecord
  <2>2. phase' \in [Requests -> TxPhases]
    BY <1>1 DEF TxInv, TxType, TxPhases
  <2>3. held' \in [Requests -> Nat] /\ answer' \in [Requests -> Answers]
    BY <1>1 DEF TxInv, TxType, Answers
  <2> QED BY <1>1, <2>1, <2>2, <2>3 DEF TxInv, TxType
<1>5. \A q \in Requests : LocksHold(q)'
  BY <1>1, <1>2, TargetIsRow DEF TxInv, LocksHold
<1>6. ASSUME NEW q \in Requests PROVE KeyFollows(q)'
  <2>1. ask[q].key \in Keys \cup {NoKey}
    BY DEF TxInv, TxType, Asking
  <2>2. KeyFollows(q)
    BY DEF TxInv
  <2>3. answer'[q] = q => answer[q] = q
    BY <1>2, RequestsAreNoWords
  <2>4. ask[q].key # NoKey /\ answer[q] = q => record'[ask[q].key] = record[ask[q].key]
    BY <1>3, <2>1, <2>2 DEF KeyFollows
  <2> QED BY <1>1, <1>2, <2>2, <2>3, <2>4 DEF KeyFollows
<1>7. ASSUME NEW k \in Keys PROVE RecordFollows(k)'
  <2>1. CASE record[k].status = "processing"
    <3>1. record[k].by \in Gone
      BY <2>1 DEF TxInv, RecordFollows, Working, InTx
    <3> QED BY <1>3, <2>1, <3>1 DEF RecordFollows, NoRecord
  <2>2. CASE record[k].status # "processing"
    BY <1>1, <1>2, <1>3, <2>2 DEF TxInv, RecordFollows, Target
  <2> QED BY <2>1, <2>2
<1>8. ASSUME NEW q \in Requests PROVE AnswerTrue(q)'
  <2>1. answer'[q] \in Requests => answer'[q] = answer[q]
    BY <1>2, RequestsAreNoWords
  <2> QED BY <1>1, <2>1 DEF TxInv, AnswerTrue, Target
<1>9. \A q, p \in Requests : LocksExclude(q, p)'
  BY <1>2 DEF LocksExclude
<1>10. \A w \in Rows : OneEffect(w)'
  BY <1>1 DEF TxInv, OneEffect
<1> QED BY <1>4, <1>5, <1>6, <1>7, <1>8, <1>9, <1>10 DEF TxInv

LEMMA TxStep ==
    ASSUME TxInv, [Next]_vars
    PROVE  TxInv'
<1>1. TxNext \/ UNCHANGED txVars
  BY DEF Next, vars
<1>2. CASE Fall
  BY <1>2, FallKeeps
<1>3. ASSUME NEW r \in Requests, Steps(r) PROVE TxInv'
  <2>1. CASE GetConnection(r)
    BY <2>1, GetConnectionKeeps
  <2>2. CASE TakeKey(r)
    BY <2>2, TakeKeyKeeps
  <2>3. CASE Replay(r)
    BY <2>3, ReplayKeeps
  <2>4. CASE LockRow(r)
    BY <2>4, LockRowKeeps
  <2>5. CASE ReadInside(r)
    BY <2>5, ReadInsideKeeps
  <2>6. CASE Commit(r)
    BY <2>6, CommitKeeps
  <2>7. CASE Refuse(r)
    BY <2>7, RollbackKeeps DEF Refuse
  <2>8. CASE RetryOrFail(r)
    <3>1. phase[r] \in {"key", "rows"}
      BY <2>8 DEF RetryOrFail, WaitsFor
    <3> QED BY <2>8, <3>1, RollbackKeeps DEF RetryOrFail
  <2> QED BY <1>3, <2>1, <2>2, <2>3, <2>4, <2>5, <2>6, <2>7, <2>8 DEF Steps
<1>4. CASE UNCHANGED txVars
  BY <1>4 DEF txVars, TxInv, TxType, LocksHold, KeyFollows, AnswerTrue, LocksExclude,
              RecordFollows, OneEffect, Working, Target
<1> QED BY <1>1, <1>2, <1>3, <1>4 DEF TxNext

\* A set whose elements are all equal has at most one.
LEMMA AtMostOne ==
    ASSUME NEW S, \A x, y \in S : x = y
    PROVE  Cardinality(S) <= 1
<1>1. CASE S = {}
  BY <1>1, FS_EmptySet
<1>2. CASE S # {}
  <2>1. PICK x \in S : S = {x}
    BY <1>2
  <2> QED BY <2>1, FS_Singleton
<1> QED BY <1>1, <1>2

\* Whatever is retried, repeated, rolled back or lost with the process, of the requests
\* with one idempotency key one takes effect, of those for one row too; who is told of
\* success is told of an effect that is committed; and a key is only in use while its
\* request is under way (withIdempotency, withTransaction).
THEOREM KeysServeOnceAlways == FairSpec => []KeysServeOnce
<1>1. Init => TxInv
  BY NobodyHasFinishedAtFirst DEF Init
<1>2. TxInv /\ [Next]_vars => TxInv'
  BY TxStep
<1>3. TxInv => KeysServeOnce
  <2> SUFFICES ASSUME TxInv PROVE KeysServeOnce
    OBVIOUS
  <2>1. ASSUME NEW k \in Keys
        PROVE  Cardinality({r \in Requests : ask[r].key = k /\ answer[r] = r}) <= 1
    <3> DEFINE S == {r \in Requests : ask[r].key = k /\ answer[r] = r}
    <3>1. k # NoKey
      BY TransactionsAssumption
    <3>2. ASSUME NEW r \in S PROVE record[k].by = r
      <4>1. KeyFollows(r)
        BY DEF TxInv
      <4>2. record[k] = [by |-> r, status |-> "done"]
        BY <3>1, <4>1 DEF KeyFollows
      <4> QED BY <4>2
    <3> QED BY <3>2, AtMostOne
  <2>2. \A w \in Rows : Cardinality(done[w]) <= 1
    BY AtMostOne DEF TxInv, OneEffect
  <2>3. AnswersAreTrue
    BY DEF TxInv, AnswerTrue, AnswersAreTrue
  <2>4. KeysAreFreed
    BY DEF TxInv, RecordFollows, Working, InTx, KeysAreFreed
  <2> QED BY <2>1, <2>2, <2>3, <2>4 DEF KeysServeOnce, EffectOnce
<1> QED BY <1>1, <1>2, <1>3, PTL DEF FairSpec
-----------------------------------------------------------------------------
(* Migrations *)

Script == [at : {"off", "run"}, known : SUBSET Elements(Files), ran : Nat]

Whole(f) == \A k \in DOMAIN Creates[f] : Creates[f][k] \subseteq tables

\* What a script has run of its file is there: nobody drops the database under it.
RanIsThere(s) ==
    scripts[s].at = "run" => \A k \in 1..scripts[s].ran : Creates[File(s)][k] \subseteq tables

MigrationInv ==
    /\ scripts \in [Scripts -> Script]
    /\ versions \subseteq Elements(Files)
    /\ \A f \in versions : Whole(f)
    /\ \A s \in Scripts : RanIsThere(s)
-----------------------------------------------------------------------------

\* A script that knows of files it has not applied works on one of them.
LEMMA FileIsListed ==
    ASSUME NEW s \in Scripts, Pending(s) # {}
    PROVE  File(s) \in Elements(Files)
<1>1. Pending(s) \subseteq DOMAIN Files /\ DOMAIN Files \subseteq Nat
  <2>1. DOMAIN Files = 1..Len(Files) /\ Len(Files) \in Nat
    BY SetupAssumption
  <2> QED BY <2>1 DEF Pending
<1>2. \E i \in Pending(s) : \A j \in Pending(s) : i <= j
  <2>1. IsWellFoundedOn(OpToRel(<, Nat), Nat)
    BY NatLessThanWellFounded
  <2>2. PICK i \in Pending(s) : \A j \in Pending(s) : <<j, i>> \notin OpToRel(<, Nat)
    BY <1>1, <2>1, WFMin
  <2>3. \A j \in Pending(s) : ~(j < i)
    BY <1>1, <2>2 DEF OpToRel
  <2> QED BY <1>1, <2>3
<1> DEFINE i == CHOOSE i \in Pending(s) : \A j \in Pending(s) : i <= j
<1>3. i \in Pending(s)
  BY <1>2
<1> QED BY <1>1, <1>3 DEF File, Elements

\* A step that drops no table, records no file and starts or stops no script.
LEMMA TablesGrow ==
    ASSUME MigrationInv, tables \subseteq tables', UNCHANGED <<versions, scripts>>
    PROVE  MigrationInv'
<1>1. \A s \in Scripts : Pending(s)' = Pending(s) /\ File(s)' = File(s)
  BY DEF Pending, File
<1> QED BY <1>1 DEF MigrationInv, Whole, RanIsThere

\* A script ends, or begins with what is recorded.
LEMMA ScriptsChange ==
    ASSUME MigrationInv, tables \subseteq tables', versions' = versions,
           NEW s \in Scripts, NEW row \in Script, row.ran = 0,
           scripts' = [scripts EXCEPT ![s] = row]
    PROVE  MigrationInv'
<1>1. scripts' \in [Scripts -> Script]
  BY DEF MigrationInv
<1>2. ASSUME NEW q \in Scripts PROVE RanIsThere(q)'
  <2>1. CASE q = s
    <3>1. scripts'[q].ran = 0
      BY <2>1 DEF MigrationInv
    <3> QED BY <3>1 DEF RanIsThere
  <2>2. CASE q # s
    <3>1. scripts'[q] = scripts[q]
      BY <2>2 DEF MigrationInv
    <3>2. File(q)' = File(q)
      BY <3>1 DEF File, Pending
    <3> QED BY <3>1, <3>2 DEF MigrationInv, RanIsThere
  <2> QED BY <2>1, <2>2
<1> QED BY <1>1, <1>2 DEF MigrationInv, Whole

\* A statement creates its tables and is counted.
LEMMA RunStatementKeeps ==
    ASSUME MigrationInv, NEW s \in Scripts, RunStatement(s)
    PROVE  MigrationInv'
<1> DEFINE n == scripts[s].ran
<1>1. n \in Nat /\ scripts[s] \in Script
  BY DEF MigrationInv, Script
<1>2. scripts' = [scripts EXCEPT ![s].ran = n + 1]
  BY DEF RunStatement
<1>3. scripts' \in [Scripts -> Script]
  BY <1>1, <1>2 DEF MigrationInv, Script
<1>4. tables \subseteq tables' /\ versions' = versions
  BY DEF RunStatement
<1>5. ASSUME NEW q \in Scripts PROVE RanIsThere(q)'
  <2>1. scripts'[q].known = scripts[q].known /\ scripts'[q].at = scripts[q].at
    BY <1>2 DEF MigrationInv, Script
  <2>2. File(q)' = File(q)
    BY <2>1 DEF File, Pending
  <2>3. CASE q = s
    <3>1. scripts'[q].ran = n + 1
      BY <1>2, <2>3 DEF MigrationInv, Script
    <3>2. Creates[File(s)][n + 1] \subseteq tables'
      BY DEF RunStatement
    <3>3. \A k \in 1..n : scripts[s].at = "run" => Creates[File(s)][k] \subseteq tables'
      BY <1>4 DEF MigrationInv, RanIsThere
    <3>4. \A k \in 1..(n + 1) : k = n + 1 \/ k \in 1..n
      BY <1>1
    <3> QED BY <2>1, <2>2, <2>3, <3>1, <3>2, <3>3, <3>4 DEF RanIsThere
  <2>4. CASE q # s
    <3>1. scripts'[q].ran = scripts[q].ran
      BY <1>2, <2>4 DEF MigrationInv
    <3> QED BY <1>4, <2>1, <2>2, <3>1 DEF MigrationInv, RanIsThere
  <2> QED BY <2>3, <2>4
<1> QED BY <1>3, <1>4, <1>5 DEF MigrationInv, Whole

\* The file is recorded after its last statement.
LEMMA RecordVersionKeeps ==
    ASSUME MigrationInv, NEW s \in Scripts, RecordVersion(s)
    PROVE  MigrationInv'
<1> DEFINE f == File(s)
<1>1. f \in Elements(Files)
  BY FileIsListed DEF RecordVersion
<1>2. CASE f \in versions
  <2>1. scripts' = [scripts EXCEPT ![s] = Off] /\ UNCHANGED <<versions, tables>>
    BY <1>2 DEF RecordVersion
  <2>2. Off \in Script /\ Off.ran = 0
    BY DEF Off, Script
  <2> QED BY <2>1, <2>2, ScriptsChange
<1>3. CASE f \notin versions
  <2>1. /\ versions' = versions \cup {f}
        /\ scripts' = [scripts EXCEPT ![s].known = @ \cup {f}, ![s].ran = 0]
        /\ tables' = tables
    BY <1>3 DEF RecordVersion
  <2>2. Whole(f)
    <3>1. scripts[s].at = "run" /\ scripts[s].ran = Len(Creates[f])
      BY DEF RecordVersion, Ran
    <3>2. DOMAIN Creates[f] = 1..Len(Creates[f])
      BY <1>1, SetupAssumption
    <3> QED BY <3>1, <3>2 DEF MigrationInv, RanIsThere, Whole
  <2>3. scripts' \in [Scripts -> Script]
    BY <1>1, <2>1 DEF MigrationInv, Script
  <2>4. ASSUME NEW q \in Scripts PROVE RanIsThere(q)'
    <3>1. CASE q = s
      <4>1. scripts'[q].ran = 0
        BY <2>1, <3>1 DEF MigrationInv, Script
      <4> QED BY <4>1 DEF RanIsThere
    <3>2. CASE q # s
      <4>1. scripts'[q] = scripts[q]
        BY <2>1, <3>2 DEF MigrationInv
      <4>2. File(q)' = File(q)
        BY <4>1 DEF File, Pending
      <4> QED BY <2>1, <4>1, <4>2 DEF MigrationInv, RanIsThere
    <3> QED BY <3>1, <3>2
  <2> QED BY <1>1, <2>1, <2>2, <2>3, <2>4 DEF MigrationInv, Whole
<1> QED BY <1>2, <1>3

\* The database is dropped while no script runs.
LEMMA DropDatabaseKeeps ==
    ASSUME MigrationInv, DropDatabase
    PROVE  MigrationInv'
<1>1. scripts' = scripts /\ versions' = {} /\ \A s \in Scripts : scripts[s].at = "off"
  BY DEF DropDatabase, NoScript
<1>2. \A s \in Scripts : RanIsThere(s)'
  BY <1>1 DEF RanIsThere
<1> QED BY <1>1, <1>2 DEF MigrationInv

LEMMA MigrationStep ==
    ASSUME MigrationInv, [Next]_vars
    PROVE  MigrationInv'
<1> SUFFICES ASSUME SetupNext \/ UNCHANGED setupVars PROVE MigrationInv'
  BY DEF Next, vars
<1>off. Off \in Script /\ Off.ran = 0
  BY DEF Off, Script
<1>1. CASE DropDatabase
  BY <1>1, DropDatabaseKeeps
<1>2. CASE \/ BeginSeed \/ Truncate \/ FillUsers \/ WriteLedgerRow \/ AggregateWallets
           \/ EndSeed \/ SeedDies \/ Start \/ Stop \/ Register
           \/ (\E t \in Elements(Filled) \ ({"users"} \cup Elements(MoneyTables)) : FillTable(t))
           \/ (\E u \in Ids : Recharge(u))
  <2>1. UNCHANGED <<tables, versions, scripts>>
    BY <1>2 DEF BeginSeed, Truncate, FillUsers, WriteLedgerRow, AggregateWallets, EndSeed,
                SeedDies, Start, Stop, Register, FillTable, Recharge
  <2> QED BY <2>1, TablesGrow
<1>3. ASSUME NEW s \in Scripts, ReadApplied(s) PROVE MigrationInv'
  <2>1. [at |-> "run", known |-> versions, ran |-> 0] \in Script
    BY DEF MigrationInv, Script
  <2> QED BY <1>3, <2>1, ScriptsChange DEF ReadApplied
<1>4. ASSUME NEW s \in Scripts, RunStatement(s) PROVE MigrationInv'
  BY <1>4, RunStatementKeeps
<1>5. ASSUME NEW s \in Scripts, RecordVersion(s) PROVE MigrationInv'
  BY <1>5, RecordVersionKeeps
<1>6. ASSUME NEW s \in Scripts, EndMigration(s) \/ MigrationDies(s) PROVE MigrationInv'
  BY <1>6, <1>off, ScriptsChange DEF EndMigration, MigrationDies
<1>7. CASE UNCHANGED setupVars
  BY <1>7, TablesGrow DEF setupVars
<1> QED BY <1>1, <1>2, <1>3, <1>4, <1>5, <1>6, <1>7 DEF SetupNext

\* Whatever runs of migrate.js overlap, and wherever they die, a version that is in
\* schema_migrations stands for tables that are all there (migrate.js, main).
THEOREM MigrationsAreWhole == FairSpec => []RecordedMeansApplied
<1>1. Init => MigrationInv
  <2> SUFFICES ASSUME Init PROVE MigrationInv
    OBVIOUS
  <2>1. scripts = [s \in Scripts |-> Off] /\ versions = {}
    BY DEF Init, SetupInit
  <2>2. Off \in Script /\ Off.at = "off"
    BY DEF Off, Script
  <2> QED BY <2>1, <2>2 DEF MigrationInv, RanIsThere
<1>2. MigrationInv /\ [Next]_vars => MigrationInv'
  BY MigrationStep
<1>3. MigrationInv => RecordedMeansApplied
  BY DEF MigrationInv, Whole, RecordedMeansApplied
<1> QED BY <1>1, <1>2, <1>3, PTL DEF FairSpec
-----------------------------------------------------------------------------
(* What the caches of the configuration hold *)

Entries == [value : Values \cup {Missing}, until : Int]

\* A call under way: a load, a change, or the first hit of a window.
CallStates ==
    {Idle}
      \cup [at : {"redis", "school", "platform"}, by : Procs, level : Levels]
      \cup [at : {"fill", "keep"}, by : Procs, level : Levels, value : Values]
      \cup [at : {"version", "write"}, by : Procs, level : Levels, seen : Nat, insert : BOOLEAN]
      \cup [at : {"forget", "delete"}, by : Procs, level : Levels]
      \cup [at : {"window"}, by : Procs]

\* At time t or later v was the value of level l, or of the platform's.
Was(l, v, t) ==
    \E m \in {l, "platform"} : current[m][v] # Never /\ t <= current[m][v]

RowsHold ==
    /\ rows \in [Levels -> [value : Values \cup {Missing}, version : Nat]]
    /\ rows["platform"].value # Missing
    /\ current \in [Levels -> [Values -> Int]]
    /\ \A l \in Levels : current[l][Resolved(rows)[l]] = MaxTime
    /\ clock \in Nat /\ clock <= MaxTime /\ writes \in Nat

\* What was stored for a life was the value no longer before it was stored than age.
AgedEntry(l, entry, life, age) ==
    /\ entry \in Entries
    /\ entry.value # Missing =>
         /\ Was(l, entry.value, entry.until - life - age)
         /\ entry.until <= clock + life

StoreHolds == store \in [Levels -> Entries] /\ \A l \in Levels : AgedEntry(l, store[l], RedisTtl, 0)

MemoryHolds ==
    /\ memory \in [Procs -> [Levels -> Entries]]
    /\ \A p \in Procs, l \in Levels : AgedEntry(l, memory[p][l], MemoryTtl, RedisTtl - 1)

\* A value on its way into the caches is no older than what Redis gives away.
Carried(r) ==
    /\ r \in CallStates
    /\ r.at = "school" => r.level = "school"
    /\ r.at = "fill" => Was(r.level, r.value, clock)
    /\ r.at = "keep" => Was(r.level, r.value, clock - (RedisTtl - 1))
    /\ r.at \in {"version", "write"} => r.seen <= rows[r.level].version

CallsHold == work \in [Calls -> CallStates] /\ \A c \in Calls : Carried(work[c])

\* Each change made from a version is by a call that saw it, and no call does twice.
Writers(l, v) ==
    {c \in Calls : work[c].at = "write" /\ work[c].level = l /\ work[c].seen = v}

EditsOf(l, v) ==
    /\ rows[l].version <= v => edits[l][v] = 0
    /\ v < rows[l].version => edits[l][v] + Cardinality(Writers(l, v)) <= Cardinality(Calls)

EditsHold ==
    /\ edits \in [Levels -> [Values -> Nat]]
    /\ \A l \in Levels, v \in Values : EditsOf(l, v)

CountHolds ==
    /\ counter \in [n : Nat, until : Int]
    /\ CounterEnds

ConfigHolds == RowsHold /\ StoreHolds /\ MemoryHolds /\ CallsHold

ConfigInv == ConfigHolds /\ EditsHold /\ CountHolds /\ kills \in Nat
-----------------------------------------------------------------------------

LEMMA LivesAreLong ==
    /\ MemoryTtl \in Nat \ {0} /\ RedisTtl \in Nat \ {0} /\ Window \in Nat \ {0}
    /\ MaxTime \in Nat /\ MaxWrites \in Nat /\ Calls \subseteq Nat /\ IsFiniteSet(Calls)
    /\ Cardinality(Calls) \in Nat /\ Admins \subseteq Procs /\ Asked \subseteq Levels
<1>1. /\ {MemoryTtl, RedisTtl, Window} \subseteq Nat \ {0}
      /\ {MaxWrites, LoadWrites, MaxTime, MaxHits, MaxKills} \subseteq Nat
  BY ConfigAssumption
<1>2. /\ MemoryTtl \in Nat \ {0} /\ RedisTtl \in Nat \ {0} /\ Window \in Nat \ {0}
      /\ MaxTime \in Nat /\ MaxWrites \in Nat
  BY <1>1
<1>3. Cardinality(Calls) \in Nat
  BY ConfigAssumption, FS_CardinalityType
<1> QED BY <1>2, <1>3, ConfigAssumption DEF Levels

LEMMA WritersAreFew ==
    ASSUME NEW l, NEW v
    PROVE  /\ IsFiniteSet(Writers(l, v)) /\ Cardinality(Writers(l, v)) \in Nat
           /\ Cardinality(Writers(l, v)) <= Cardinality(Calls)
<1>1. Writers(l, v) \in SUBSET Calls
  BY DEF Writers
<1>2. IsFiniteSet(Writers(l, v)) /\ Cardinality(Writers(l, v)) <= Cardinality(Calls)
  BY <1>1, LivesAreLong, FS_Subset
<1> QED BY <1>2, FS_CardinalityType

\* The columns a school without a row of its own resolves to.
LEMMA ResolvedIsThere ==
    ASSUME RowsHold, NEW l \in Levels
    PROVE  /\ Resolved(rows)[l] \in Values
           /\ rows[l].value # Missing => Resolved(rows)[l] = rows[l].value
<1>1. "platform" \in Levels /\ rows[l].value \in Values \cup {Missing}
      /\ rows["platform"].value \in Values \cup {Missing}
  BY DEF RowsHold, Levels
<1> QED BY <1>1 DEF RowsHold, Resolved

\* The past stays as it is, and what is current is superseded now at the earliest.
PastStays ==
    \A l \in Levels, v \in Values :
      current[l][v] # Never => /\ current'[l][v] # Never
                               /\ current'[l][v] >= current[l][v] \/ current'[l][v] >= clock

LEMMA WasStays ==
    ASSUME RowsHold, PastStays, current' \in [Levels -> [Values -> Int]],
           NEW l \in Levels, NEW v \in Values, NEW t \in Int, t <= clock, Was(l, v, t)
    PROVE  Was(l, v, t)'
<1>1. PICK m \in {l, "platform"} : current[m][v] # Never /\ t <= current[m][v]
  BY DEF Was
<1>2. m \in Levels
  BY <1>1 DEF Levels
<1>3. current[m][v] \in Int /\ current'[m][v] \in Int /\ clock \in Int
  BY <1>2 DEF RowsHold
<1>4. current'[m][v] # Never /\ t <= current'[m][v]
  BY <1>1, <1>2, <1>3 DEF PastStays
<1> QED BY <1>1, <1>4 DEF Was

\* What lives was the value, at most its age before now.
LEMMA LiveWas ==
    ASSUME RowsHold, NEW l \in Levels, NEW entry, NEW life \in Nat \ {0}, NEW age \in Nat,
           AgedEntry(l, entry, life, age), Live(entry)
    PROVE  entry.value \in Values /\ Was(l, entry.value, clock - (life - 1) - age)
<1>1. entry.value \in Values /\ entry.until \in Int /\ entry.value # Missing
  BY DEF AgedEntry, Entries, Live
<1>2. PICK m \in {l, "platform"} : /\ current[m][entry.value] # Never
                                   /\ entry.until - life - age <= current[m][entry.value]
  BY <1>1 DEF AgedEntry, Was
<1>3. m \in Levels /\ current[m][entry.value] \in Int
  BY <1>1, <1>2 DEF Levels, RowsHold
<1>4. clock < entry.until /\ clock \in Int
  BY DEF Live, RowsHold
<1>5. clock - (life - 1) - age <= current[m][entry.value]
  BY <1>1, <1>2, <1>3, <1>4
<1> QED BY <1>1, <1>2, <1>5 DEF Was

LEMMA ConfigStart == ConfigInit => ConfigInv
<1> SUFFICES ASSUME ConfigInit PROVE ConfigInv
  OBVIOUS
<1>0. 1 \in Values /\ \A v \in Values : v \in Nat /\ v >= 1
  BY LivesAreLong DEF Values
<1>1. RowsHold
  <2>1. \A l \in Levels : Resolved(rows)[l] = 1
    BY DEF ConfigInit, Resolved, Levels, Missing
  <2>2. rows \in [Levels -> [value : Values \cup {Missing}, version : Nat]]
    BY <1>0 DEF ConfigInit
  <2>3. rows["platform"].value = 1
    BY DEF ConfigInit, Levels
  <2>4. current \in [Levels -> [Values -> Int]] /\ \A l \in Levels : current[l][1] = MaxTime
    BY <1>0, LivesAreLong DEF ConfigInit, Never
  <2> QED BY <2>1, <2>2, <2>3, <2>4, LivesAreLong DEF ConfigInit, RowsHold, Missing
<1>2. Empty \in Entries /\ Empty.value = Missing
  BY DEF Empty, Entries
<1>3. StoreHolds /\ MemoryHolds
  BY <1>2 DEF ConfigInit, StoreHolds, MemoryHolds, AgedEntry
<1>4. Idle \in CallStates /\ Idle.at = "idle"
  BY DEF Idle, CallStates
<1>5. CallsHold
  BY <1>4 DEF ConfigInit, CallsHold, Carried
<1>6. EditsHold
  <2>1. edits \in [Levels -> [Values -> Nat]]
    BY DEF ConfigInit
  <2>2. ASSUME NEW l \in Levels, NEW v \in Values PROVE EditsOf(l, v)
    <3>1. edits[l][v] = 0 /\ rows[l].version \in {0, 1}
      BY DEF ConfigInit
    <3>2. Cardinality(Writers(l, v)) \in Nat /\ Cardinality(Writers(l, v)) <= Cardinality(Calls)
      BY WritersAreFew
    <3> QED BY <3>1, <3>2, LivesAreLong DEF EditsOf
  <2> QED BY <2>1, <2>2 DEF EditsHold
<1>7. CountHolds /\ kills \in Nat
  BY DEF ConfigInit, CountHolds, CounterEnds, Never
<1> QED BY <1>1, <1>3, <1>5, <1>6, <1>7 DEF ConfigInv, ConfigHolds
-----------------------------------------------------------------------------
(* One step of one call *)

\* Calls that fit the rows and go on: a write only with the version that is there.
LEMMA CallsMove ==
    ASSUME RowsHold, CallsHold, EditsHold,
           work' \in [Calls -> CallStates],
           \A d \in Calls : work'[d] # work[d] =>
             /\ Carried(work'[d])
             /\ work'[d].at = "write" => work'[d].seen \in {0, rows[work'[d].level].version},
           UNCHANGED <<rows, clock, writes, current, edits>>
    PROVE  RowsHold' /\ CallsHold' /\ EditsHold'
<1>1. RowsHold'
  BY DEF RowsHold, Resolved
<1>2. CallsHold'
  <2>1. ASSUME NEW d \in Calls PROVE Carried(work[d])'
    <3>1. Carried(work'[d])
      BY DEF CallsHold
    <3>2. PICK q : q = work'[d]
      OBVIOUS
    <3>3. Carried(q)'
      BY <3>1, <3>2 DEF Carried, Was
    <3> QED BY <3>2, <3>3
  <2> QED BY <2>1 DEF CallsHold
<1>3. EditsHold'
  <2>1. edits' = edits /\ edits \in [Levels -> [Values -> Nat]] /\ rows' = rows
    BY DEF EditsHold
  <2>2. ASSUME NEW l \in Levels, NEW v \in Values PROVE EditsOf(l, v)'
    <3>1. edits[l][v] \in Nat /\ rows[l].version \in Nat /\ v \in Nat /\ v # 0
      BY <2>1, LivesAreLong DEF RowsHold, Values
    <3>2. ASSUME v < rows[l].version PROVE Writers(l, v)' \subseteq Writers(l, v)
      BY <3>1, <3>2 DEF Writers
    <3>3. ASSUME v < rows[l].version
          PROVE  /\ Cardinality(Writers(l, v)') \in Nat
                 /\ Cardinality(Writers(l, v)') <= Cardinality(Writers(l, v))
      <4>1. PICK W : W = Writers(l, v)'
        OBVIOUS
      <4>2. W \in SUBSET Writers(l, v)
        BY <3>2, <3>3, <4>1
      <4>3. IsFiniteSet(W) /\ Cardinality(W) <= Cardinality(Writers(l, v))
        BY <4>2, WritersAreFew, FS_Subset
      <4>4. Cardinality(W) \in Nat
        BY <4>3, FS_CardinalityType
      <4> QED BY <4>1, <4>3, <4>4
    <3>4. Cardinality(Writers(l, v)) \in Nat /\ Cardinality(Calls) \in Nat /\ EditsOf(l, v)
      BY WritersAreFew, LivesAreLong DEF EditsHold
    <3> QED BY <2>1, <3>1, <3>3, <3>4 DEF EditsOf
  <2> QED BY <2>1, <2>2 DEF EditsHold
<1> QED BY <1>1, <1>2, <1>3

LEMMA CallMoves ==
    ASSUME ConfigInv, NEW c \in Calls, NEW r, Carried(r),
           work' = [work EXCEPT ![c] = r],
           UNCHANGED <<rows, clock, writes, current, edits, counter, kills>>,
           work[c].at # "window",
           r.at = "write" => r.seen \in {0, rows[r.level].version}
    PROVE  RowsHold' /\ CallsHold' /\ EditsHold' /\ CountHolds' /\ kills' \in Nat
<1>1. work \in [Calls -> CallStates] /\ r \in CallStates
  BY DEF ConfigInv, ConfigHolds, CallsHold, Carried
<1>2. \A d \in Calls : work'[d] = IF d = c THEN r ELSE work[d]
  BY <1>1
<1>3. work' \in [Calls -> CallStates]
  BY <1>1
<1>4. RowsHold' /\ CallsHold' /\ EditsHold'
  BY <1>2, <1>3, CallsMove DEF ConfigInv, ConfigHolds
<1>5. CountHolds'
  BY <1>1, <1>2 DEF ConfigInv, CountHolds, CounterEnds, At
<1> QED BY <1>4, <1>5 DEF ConfigInv

\* The caches keep what they have while the columns and the clock do.
LEMMA StoreStays ==
    ASSUME StoreHolds, UNCHANGED <<store, clock, current>>
    PROVE  StoreHolds'
<1> QED BY DEF StoreHolds, AgedEntry, Was, Entries

LEMMA MemoryStays ==
    ASSUME MemoryHolds, UNCHANGED <<memory, clock, current>>
    PROVE  MemoryHolds'
<1> QED BY DEF MemoryHolds, AgedEntry, Was, Entries

LEMMA StoreSet ==
    ASSUME StoreHolds, NEW l \in Levels, NEW e, AgedEntry(l, e, RedisTtl, 0),
           store' = [store EXCEPT ![l] = e], UNCHANGED <<clock, current>>
    PROVE  StoreHolds'
<1>1. e \in Entries /\ store \in [Levels -> Entries]
  BY DEF StoreHolds, AgedEntry
<1>2. ASSUME NEW m \in Levels PROVE AgedEntry(m, store[m], RedisTtl, 0)'
  <2>1. PICK x : x = store'[m]
    OBVIOUS
  <2>2. AgedEntry(m, x, RedisTtl, 0)
    BY <1>1, <2>1 DEF StoreHolds
  <2>3. AgedEntry(m, x, RedisTtl, 0)'
    BY <2>2 DEF AgedEntry, Was, Entries
  <2> QED BY <2>1, <2>3
<1>3. store' \in [Levels -> Entries]
  BY <1>1
<1>4. Entries' = Entries
  BY DEF Entries
<1> QED BY <1>2, <1>3, <1>4 DEF StoreHolds

LEMMA MemorySet ==
    ASSUME MemoryHolds, NEW p \in Procs, NEW l \in Levels, NEW e,
           AgedEntry(l, e, MemoryTtl, RedisTtl - 1),
           memory' = [memory EXCEPT ![p][l] = e], UNCHANGED <<clock, current>>
    PROVE  MemoryHolds'
<1>1. e \in Entries /\ memory \in [Procs -> [Levels -> Entries]]
  BY DEF MemoryHolds, AgedEntry
<1>2. ASSUME NEW q \in Procs, NEW m \in Levels
      PROVE  AgedEntry(m, memory[q][m], MemoryTtl, RedisTtl - 1)'
  <2>1. PICK x : x = memory'[q][m]
    OBVIOUS
  <2>2. AgedEntry(m, x, MemoryTtl, RedisTtl - 1)
    BY <1>1, <2>1 DEF MemoryHolds
  <2>3. AgedEntry(m, x, MemoryTtl, RedisTtl - 1)'
    BY <2>2 DEF AgedEntry, Was, Entries
  <2> QED BY <2>1, <2>3
<1>3. memory' \in [Procs -> [Levels -> Entries]]
  BY <1>1
<1>4. Entries' = Entries
  BY DEF Entries
<1> QED BY <1>2, <1>3, <1>4 DEF MemoryHolds

LEMMA EmptyIsAged ==
    ASSUME NEW l, NEW life, NEW age
    PROVE  AgedEntry(l, Empty, life, age) /\ Empty \in Entries
<1> QED BY DEF AgedEntry, Empty, Entries

LEMMA GetKeeps ==
    ASSUME ConfigInv, NEW c \in Calls, NEW p \in Procs, NEW l \in Asked, Get(c, p, l)
    PROVE  ConfigInv'
<1>1. PICK r : r = [at |-> "redis", by |-> p, level |-> l]
  OBVIOUS
<1>2. Carried(r) /\ r.at = "redis"
  BY <1>1, LivesAreLong DEF Carried, CallStates
<1>3. RowsHold' /\ CallsHold' /\ EditsHold' /\ CountHolds' /\ kills' \in Nat
  BY <1>1, <1>2, CallMoves DEF Get, Now, Free, At
<1> QED BY <1>3, StoreStays, MemoryStays DEF Get, ConfigInv, ConfigHolds

LEMMA AskRedisKeeps ==
    ASSUME ConfigInv, NEW c \in Calls, AskRedis(c)
    PROVE  ConfigInv'
<1>1. PICK l : l = work[c].level
  OBVIOUS
<1>2. work[c] \in CallStates /\ work[c].at = "redis"
  BY DEF ConfigInv, ConfigHolds, CallsHold, AskRedis, At
<1>3. work[c] \in [at : {"redis"}, by : Procs, level : Levels] /\ l \in Levels
  BY <1>1, <1>2 DEF CallStates, Idle
<1>4. PICK r : r = IF Live(store[l])
                   THEN [at |-> "keep", by |-> work[c].by, level |-> l, value |-> store[l].value]
                   ELSE [work[c] EXCEPT !.at = l]
  OBVIOUS
<1>5. Carried(r) /\ r.at # "write"
  <2>1. CASE Live(store[l])
    <3>1. AgedEntry(l, store[l], RedisTtl, 0) /\ RowsHold
      BY <1>3 DEF ConfigInv, ConfigHolds, StoreHolds
    <3>2. store[l].value \in Values /\ Was(l, store[l].value, clock - (RedisTtl - 1) - 0)
      BY <1>3, <2>1, <3>1, LiveWas, LivesAreLong
    <3>3. clock - (RedisTtl - 1) - 0 = clock - (RedisTtl - 1)
      BY <3>1, LivesAreLong DEF RowsHold
    <3>4. r = [at |-> "keep", by |-> work[c].by, level |-> l, value |-> store[l].value]
      BY <1>4, <2>1
    <3>5. r \in CallStates
      BY <1>3, <3>2, <3>4 DEF CallStates
    <3> QED BY <3>2, <3>3, <3>4, <3>5 DEF Carried
  <2>2. CASE ~Live(store[l])
    <3>1. r = [work[c] EXCEPT !.at = l]
      BY <1>4, <2>2
    <3>2. r.at = l /\ r.level = l /\ r \in [at : Levels, by : Procs, level : Levels]
      BY <1>1, <1>3, <3>1
    <3>3. r \in CallStates /\ l \in {"school", "platform"}
      BY <1>3, <3>2 DEF CallStates, Levels
    <3> QED BY <3>2, <3>3 DEF Carried
  <2> QED BY <2>1, <2>2
<1>6. work' = [work EXCEPT ![c] = r]
  BY <1>1, <1>4 DEF AskRedis, Now
<1>7. RowsHold' /\ CallsHold' /\ EditsHold' /\ CountHolds' /\ kills' \in Nat
  BY <1>2, <1>5, <1>6, CallMoves DEF AskRedis
<1> QED BY <1>7, StoreStays, MemoryStays DEF AskRedis, ConfigInv, ConfigHolds

LEMMA QueryRowKeeps ==
    ASSUME ConfigInv, NEW c \in Calls, NEW l \in Levels, QueryRow(c, l)
    PROVE  ConfigInv'
<1>1. PICK v : v = rows[l].value
  OBVIOUS
<1>2. work[c] \in CallStates /\ work[c].at = l /\ Carried(work[c])
  BY DEF ConfigInv, ConfigHolds, CallsHold, QueryRow, At
<1>3. work[c] \in [at : {l}, by : Procs, level : Levels]
  BY <1>2 DEF CallStates, Idle, Levels
<1>4. PICK r : r = IF v = Missing THEN [work[c] EXCEPT !.at = "platform"]
                   ELSE [at |-> "fill", by |-> work[c].by, level |-> work[c].level, value |-> v]
  OBVIOUS
<1>5. Carried(r) /\ r.at # "write"
  <2>1. CASE v = Missing
    <3>1. r.at = "platform" /\ r \in [at : {"platform"}, by : Procs, level : Levels]
      BY <1>3, <1>4, <2>1
    <3>2. r \in CallStates
      BY <3>1 DEF CallStates
    <3> QED BY <3>1, <3>2 DEF Carried
  <2>2. CASE v # Missing
    <3>1. r = [at |-> "fill", by |-> work[c].by, level |-> work[c].level, value |-> v]
      BY <1>4, <2>2
    <3>2. RowsHold /\ Resolved(rows)[l] = v /\ v \in Values
      BY <1>1, <2>2, ResolvedIsThere DEF ConfigInv, ConfigHolds
    <3>3. current[l][v] = MaxTime /\ clock <= MaxTime
      BY <3>2 DEF RowsHold
    <3>4. l \in {work[c].level, "platform"}
      BY <1>2 DEF Carried, Levels
    <3>5. Was(work[c].level, v, clock)
      BY <3>3, <3>4, LivesAreLong DEF Was, Never
    <3>6. r \in CallStates
      BY <1>3, <3>1, <3>2 DEF CallStates
    <3> QED BY <3>1, <3>5, <3>6 DEF Carried
  <2> QED BY <2>1, <2>2
<1>6. work' = [work EXCEPT ![c] = r]
  BY <1>1, <1>4 DEF QueryRow, Now
<1>7. RowsHold' /\ CallsHold' /\ EditsHold' /\ CountHolds' /\ kills' \in Nat
  BY <1>2, <1>5, <1>6, CallMoves DEF QueryRow, Levels
<1> QED BY <1>7, StoreStays, MemoryStays DEF QueryRow, ConfigInv, ConfigHolds

\* What fill and keep put away is as old as what they carry.
LEMMA FillRedisKeeps ==
    ASSUME ConfigInv, NEW c \in Calls, FillRedis(c)
    PROVE  ConfigInv'
<1>1. work[c] \in CallStates /\ work[c].at = "fill" /\ Carried(work[c])
  BY DEF ConfigInv, ConfigHolds, CallsHold, FillRedis, At
<1>2. work[c] \in [at : {"fill"}, by : Procs, level : Levels, value : Values]
  BY <1>1 DEF CallStates, Idle
<1>3. PICK l, v : l = work[c].level /\ v = work[c].value
  OBVIOUS
<1>4. l \in Levels /\ v \in Values /\ Was(l, v, clock) /\ clock \in Nat /\ RedisTtl \in Nat
  BY <1>1, <1>2, <1>3, LivesAreLong DEF Carried, ConfigInv, ConfigHolds, RowsHold
<1>5. PICK e : e = [value |-> v, until |-> clock + RedisTtl]
  OBVIOUS
<1>6. AgedEntry(l, e, RedisTtl, 0)
  <2>1. e \in Entries /\ e.value = v /\ e.until - RedisTtl - 0 = clock
    BY <1>4, <1>5 DEF Entries
  <2> QED BY <1>4, <1>5, <2>1 DEF AgedEntry
<1>7. StoreHolds'
  BY <1>3, <1>4, <1>5, <1>6, StoreSet DEF FillRedis, ConfigInv, ConfigHolds
<1>8. PICK r : r = [work[c] EXCEPT !.at = "keep"]
  OBVIOUS
<1>9. Carried(r) /\ r.at # "write"
  <2>1. /\ r \in [at : {"keep"}, by : Procs, level : Levels, value : Values]
        /\ r.level = l /\ r.value = v /\ r.at = "keep"
    BY <1>2, <1>3, <1>8
  <2>2. r \in CallStates
    BY <2>1 DEF CallStates
  <2>3. Was(l, v, clock - (RedisTtl - 1))
    <3>1. PICK m \in {l, "platform"} : current[m][v] # Never /\ clock <= current[m][v]
      BY <1>4 DEF Was
    <3>2. current[m][v] \in Int
      BY <1>4, <3>1 DEF ConfigInv, ConfigHolds, RowsHold, Levels
    <3>3. clock - (RedisTtl - 1) <= current[m][v]
      BY <1>4, <3>1, <3>2, LivesAreLong
    <3> QED BY <3>1, <3>3 DEF Was
  <2> QED BY <2>1, <2>2, <2>3 DEF Carried
<1>10. RowsHold' /\ CallsHold' /\ EditsHold' /\ CountHolds' /\ kills' \in Nat
  BY <1>1, <1>8, <1>9, CallMoves DEF FillRedis, Now
<1> QED BY <1>7, <1>10, MemoryStays DEF FillRedis, ConfigInv, ConfigHolds

LEMMA IdleIsCarried == Carried(Idle) /\ Idle.at = "idle"
<1> QED BY DEF Carried, Idle, CallStates

LEMMA KeepMemoryKeeps ==
    ASSUME ConfigInv, NEW c \in Calls, KeepMemory(c)
    PROVE  ConfigInv'
<1>1. work[c] \in CallStates /\ work[c].at = "keep" /\ Carried(work[c])
  BY DEF ConfigInv, ConfigHolds, CallsHold, KeepMemory, At
<1>2. work[c] \in [at : {"keep"}, by : Procs, level : Levels, value : Values]
  BY <1>1 DEF CallStates, Idle
<1>3. PICK p, l, v : p = work[c].by /\ l = work[c].level /\ v = work[c].value
  OBVIOUS
<1>4. /\ p \in Procs /\ l \in Levels /\ v \in Values
      /\ Was(l, v, clock - (RedisTtl - 1)) /\ clock \in Nat
      /\ RedisTtl \in Nat /\ MemoryTtl \in Nat
  BY <1>1, <1>2, <1>3, LivesAreLong DEF Carried, ConfigInv, ConfigHolds, RowsHold
<1>5. PICK e : e = Kept(v)
  OBVIOUS
<1>6. AgedEntry(l, e, MemoryTtl, RedisTtl - 1)
  <2>1. /\ e \in Entries /\ e.value = v /\ e.until = clock + MemoryTtl
        /\ e.until - MemoryTtl - (RedisTtl - 1) = clock - (RedisTtl - 1)
    BY <1>4, <1>5 DEF Entries, Kept
  <2> QED BY <1>4, <2>1 DEF AgedEntry
<1>7. MemoryHolds'
  BY <1>3, <1>4, <1>5, <1>6, MemorySet DEF KeepMemory, ConfigInv, ConfigHolds
<1>8. RowsHold' /\ CallsHold' /\ EditsHold' /\ CountHolds' /\ kills' \in Nat
  BY <1>1, IdleIsCarried, CallMoves DEF KeepMemory, Now
<1> QED BY <1>7, <1>8, StoreStays DEF KeepMemory, ConfigInv, ConfigHolds

LEMMA AskSetKeeps ==
    ASSUME ConfigInv, NEW c \in Calls, NEW p \in Admins, NEW l \in Levels,
           NEW seen \in 0..rows[l].version, AskSet(c, p, l, seen)
    PROVE  ConfigInv'
<1>1. PICK r : r = [at |-> "version", by |-> p, level |-> l, seen |-> seen, insert |-> FALSE]
  OBVIOUS
<1>2. rows[l].version \in Nat /\ seen \in Nat /\ seen <= rows[l].version
  BY DEF ConfigInv, ConfigHolds, RowsHold
<1>3. Carried(r) /\ r.at = "version"
  BY <1>1, <1>2, LivesAreLong DEF Carried, CallStates
<1>4. RowsHold' /\ CallsHold' /\ EditsHold' /\ CountHolds' /\ kills' \in Nat
  BY <1>1, <1>3, CallMoves DEF AskSet, Now, Free, At
<1> QED BY <1>4, StoreStays, MemoryStays DEF AskSet, ConfigInv, ConfigHolds

\* The version is tested in one statement, and raised in another.
LEMMA CheckVersionKeeps ==
    ASSUME ConfigInv, NEW c \in Calls, CheckVersion(c)
    PROVE  ConfigInv'
<1>1. work[c] \in CallStates /\ work[c].at = "version" /\ Carried(work[c])
  BY DEF ConfigInv, ConfigHolds, CallsHold, CheckVersion, At
<1>2. work[c] \in [at : {"version"}, by : Procs, level : Levels, seen : Nat, insert : BOOLEAN]
  BY <1>1 DEF CallStates, Idle
<1>3. CASE SameVersion(work[c].seen, work[c].level)
  <2>1. PICK b : b = (rows[work[c].level].value = Missing)
    OBVIOUS
  <2>2. PICK r : r = [work[c] EXCEPT !.at = "write", !.insert = b]
    OBVIOUS
  <2>3. /\ r \in [at : {"write"}, by : Procs, level : Levels, seen : Nat, insert : BOOLEAN]
        /\ r.at = "write" /\ r.seen = work[c].seen /\ r.level = work[c].level
    BY <1>2, <2>1, <2>2
  <2>4. r \in CallStates
    BY <2>3 DEF CallStates
  <2>5. Carried(r) /\ r.seen \in {0, rows[r.level].version}
    BY <1>1, <1>3, <2>3, <2>4 DEF Carried, SameVersion
  <2>6. work' = [work EXCEPT ![c] = r]
    BY <1>3, <2>1, <2>2 DEF CheckVersion, Now
  <2>7. RowsHold' /\ CallsHold' /\ EditsHold' /\ CountHolds' /\ kills' \in Nat
    BY <1>1, <2>5, <2>6, CallMoves DEF CheckVersion
  <2> QED BY <2>7, StoreStays, MemoryStays DEF CheckVersion, ConfigInv, ConfigHolds
<1>4. CASE ~SameVersion(work[c].seen, work[c].level)
  <2>1. work' = [work EXCEPT ![c] = Idle]
    BY <1>4 DEF CheckVersion, Now
  <2>2. RowsHold' /\ CallsHold' /\ EditsHold' /\ CountHolds' /\ kills' \in Nat
    BY <1>1, <2>1, IdleIsCarried, CallMoves DEF CheckVersion
  <2> QED BY <2>2, StoreStays, MemoryStays DEF CheckVersion, ConfigInv, ConfigHolds
<1> QED BY <1>3, <1>4

LEMMA ForgetMemoryKeeps ==
    ASSUME ConfigInv, NEW c \in Calls, ForgetMemory(c)
    PROVE  ConfigInv'
<1>1. work[c] \in CallStates /\ work[c].at = "forget"
  BY DEF ConfigInv, ConfigHolds, CallsHold, ForgetMemory, At
<1>2. work[c] \in [at : {"forget"}, by : Procs, level : Levels]
  BY <1>1 DEF CallStates, Idle
<1>3. PICK r : r = [work[c] EXCEPT !.at = "delete"]
  OBVIOUS
<1>4. r \in [at : {"delete"}, by : Procs, level : Levels] /\ r.at = "delete"
  BY <1>2, <1>3
<1>5. Carried(r)
  BY <1>4 DEF Carried, CallStates
<1>6. RowsHold' /\ CallsHold' /\ EditsHold' /\ CountHolds' /\ kills' \in Nat
  BY <1>1, <1>3, <1>4, <1>5, CallMoves DEF ForgetMemory, Now
<1>7. PICK p, l : p = work[c].by /\ l = work[c].level
  OBVIOUS
<1>8. MemoryHolds'
  BY <1>2, <1>7, EmptyIsAged, MemorySet DEF ForgetMemory, ConfigInv, ConfigHolds
<1> QED BY <1>6, <1>8, StoreStays DEF ForgetMemory, ConfigInv, ConfigHolds

LEMMA ForgetRedisKeeps ==
    ASSUME ConfigInv, NEW c \in Calls, ForgetRedis(c)
    PROVE  ConfigInv'
<1>1. work[c] \in CallStates /\ work[c].at = "delete"
  BY DEF ConfigInv, ConfigHolds, CallsHold, ForgetRedis, At
<1>2. work[c] \in [at : {"delete"}, by : Procs, level : Levels]
  BY <1>1 DEF CallStates, Idle
<1>3. PICK l : l = work[c].level
  OBVIOUS
<1>4. PICK r : r = IF l = "school"
                   THEN [work[c] EXCEPT !.level = "platform", !.at = "forget"] ELSE Idle
  OBVIOUS
<1>5. Carried(r) /\ r.at # "write"
  <2>1. CASE l = "school"
    <3>1. r \in [at : {"forget"}, by : Procs, level : Levels] /\ r.at = "forget"
      BY <1>2, <1>4, <2>1 DEF Levels
    <3> QED BY <3>1 DEF Carried, CallStates
  <2>2. CASE l # "school"
    BY <1>4, <2>2, IdleIsCarried
  <2> QED BY <2>1, <2>2
<1>6. RowsHold' /\ CallsHold' /\ EditsHold' /\ CountHolds' /\ kills' \in Nat
  BY <1>1, <1>3, <1>4, <1>5, CallMoves DEF ForgetRedis, Now
<1>7. StoreHolds'
  BY <1>2, <1>3, EmptyIsAged, StoreSet DEF ForgetRedis, ConfigInv, ConfigHolds
<1> QED BY <1>6, <1>7, MemoryStays DEF ForgetRedis, ConfigInv, ConfigHolds
-----------------------------------------------------------------------------
(* A change *)

\* What was stored before the change stays as old as it is.
LEMMA CachesOutliveChange ==
    ASSUME RowsHold, PastStays, current' \in [Levels -> [Values -> Int]], clock' = clock,
           NEW l \in Levels, NEW entry, NEW life \in Nat, NEW age \in Nat,
           AgedEntry(l, entry, life, age)
    PROVE  /\ entry \in Entries
           /\ entry.value # Missing =>
                /\ Was(l, entry.value, entry.until - life - age)'
                /\ entry.until <= clock + life
<1> SUFFICES ASSUME entry.value # Missing
             PROVE  Was(l, entry.value, entry.until - life - age)'
  BY DEF AgedEntry
<1>1. entry.value \in Values /\ entry.until \in Int
  BY DEF AgedEntry, Entries
<1>2. PICK t : t = entry.until - life - age
  OBVIOUS
<1>3. t \in Int /\ t <= clock /\ Was(l, entry.value, t)
  BY <1>1, <1>2 DEF AgedEntry, RowsHold
<1>4. Was(l, entry.value, t)'
  BY <1>1, <1>3, WasStays
<1> QED BY <1>2, <1>4

\* The row that is written is current, and what was current before is so until now.
LEMMA RowWritten ==
    ASSUME ConfigInv, NEW l \in Levels, writes < MaxWrites, writes' = writes + 1,
           rows' = [rows EXCEPT ![l] = [value |-> writes + 2, version |-> @.version + 1]],
           current' = Superseded(Resolved(rows')), clock' = clock
    PROVE  /\ RowsHold' /\ PastStays /\ current' \in [Levels -> [Values -> Int]]
           /\ rows'[l].version = rows[l].version + 1
           /\ \A m \in Levels : m # l => rows'[m].version = rows[m].version
<1>1. /\ rows \in [Levels -> [value : Values \cup {Missing}, version : Nat]]
      /\ rows["platform"].value # Missing
      /\ current \in [Levels -> [Values -> Int]]
      /\ clock \in Nat /\ clock <= MaxTime /\ writes \in Nat /\ MaxTime \in Nat /\ MaxWrites \in Nat
  BY LivesAreLong DEF ConfigInv, ConfigHolds, RowsHold
<1>2. writes + 2 \in Values /\ writes + 2 # Missing
  BY <1>1 DEF Values, Missing
<1>3. rows[l].version \in Nat
  BY <1>1
<1>4. PICK fresh : fresh = [value |-> writes + 2, version |-> rows[l].version + 1]
  OBVIOUS
<1>5. rows' = [rows EXCEPT ![l] = fresh]
  BY <1>1, <1>4
<1>6. fresh \in [value : Values \cup {Missing}, version : Nat]
  BY <1>2, <1>3, <1>4
<1>7. rows' \in [Levels -> [value : Values \cup {Missing}, version : Nat]]
  BY <1>1, <1>5, <1>6
<1>8. \A m \in Levels : rows'[m] = IF m = l THEN fresh ELSE rows[m]
  BY <1>1, <1>5
<1>9. "platform" \in Levels /\ rows'["platform"].value # Missing
  BY <1>1, <1>2, <1>4, <1>8 DEF Levels
<1>10. PICK new : new = Resolved(rows')
  OBVIOUS
<1>11. new = Resolved(rows)' /\ \A m \in Levels : new[m] \in Values
  BY <1>7, <1>9, <1>10 DEF Resolved
<1>12. \A m \in Levels, v \in Values :
         current'[m][v] = IF v = new[m] THEN MaxTime
                          ELSE IF current[m][v] = MaxTime THEN clock ELSE current[m][v]
  BY <1>10 DEF Superseded
<1>13. current' \in [Levels -> [Values -> Int]]
  <2>1. ASSUME NEW m \in Levels, NEW v \in Values
        PROVE  (CASE v = new[m] -> MaxTime
                  [] v # new[m] /\ current[m][v] = MaxTime -> clock
                  [] OTHER -> current[m][v]) \in Int
    BY <1>1
  <2> QED BY <1>10, <2>1 DEF Superseded
<1>14. \A m \in Levels : current'[m][new[m]] = MaxTime
  BY <1>11, <1>12
<1>15. writes' \in Nat
  BY <1>1
<1>16. RowsHold'
  BY <1>1, <1>7, <1>9, <1>11, <1>13, <1>14, <1>15 DEF RowsHold
<1>17. PastStays
  <2> SUFFICES ASSUME NEW m \in Levels, NEW v \in Values, current[m][v] # Never
               PROVE  /\ current'[m][v] # Never
                      /\ current'[m][v] >= current[m][v] \/ current'[m][v] >= clock
    BY DEF PastStays
  <2>1. current[m][v] \in Int /\ new[m] \in Values
    BY <1>1, <1>11
  <2>2. CASE v = new[m]
    <3>1. current'[m][v] = MaxTime
      BY <1>12, <2>2
    <3> QED BY <1>1, <3>1 DEF Never
  <2>3. CASE v # new[m] /\ current[m][v] = MaxTime
    <3>1. current'[m][v] = clock
      BY <1>12, <2>3
    <3> QED BY <1>1, <3>1 DEF Never
  <2>4. CASE v # new[m] /\ current[m][v] # MaxTime
    <3>1. current'[m][v] = current[m][v]
      BY <1>12, <2>4
    <3> QED BY <2>1, <3>1
  <2> QED BY <2>2, <2>3, <2>4
<1>18. fresh.version = rows[l].version + 1
  BY <1>4
<1> QED BY <1>8, <1>13, <1>16, <1>17, <1>18

LEMMA WriteRowKeeps ==
    ASSUME ConfigInv, NEW c \in Calls, WriteRow(c)
    PROVE  ConfigInv'
<1>1. work[c] \in CallStates /\ work[c].at = "write" /\ Carried(work[c])
  BY DEF ConfigInv, ConfigHolds, CallsHold, WriteRow, At
<1>2. work[c] \in [at : {"write"}, by : Procs, level : Levels, seen : Nat, insert : BOOLEAN]
  BY <1>1 DEF CallStates, Idle
<1>3. CASE ~Writable(work[c])
  <2>1. work' = [work EXCEPT ![c] = Idle] /\ UNCHANGED <<writes, rows, current, edits>>
    BY <1>3 DEF WriteRow, Now
  <2>2. RowsHold' /\ CallsHold' /\ EditsHold' /\ CountHolds' /\ kills' \in Nat
    BY <1>1, <2>1, IdleIsCarried, CallMoves DEF WriteRow
  <2> QED BY <2>1, <2>2, StoreStays, MemoryStays DEF WriteRow, ConfigInv, ConfigHolds
<1>4. CASE Writable(work[c])
  <2>1. PICK l, seen : l = work[c].level /\ seen = work[c].seen
    OBVIOUS
  <2>2. /\ l \in Levels /\ writes < MaxWrites /\ writes' = writes + 1
        /\ rows' = [rows EXCEPT ![l] = [value |-> writes + 2, version |-> @.version + 1]]
        /\ current' = Superseded(Resolved(rows'))
        /\ UNCHANGED <<store, memory, clock, counter, hits, kills>>
    BY <1>2, <1>4, <2>1 DEF WriteRow
  <2>3. /\ RowsHold' /\ PastStays /\ current' \in [Levels -> [Values -> Int]]
        /\ rows'[l].version = rows[l].version + 1
        /\ \A m \in Levels : m # l => rows'[m].version = rows[m].version
    BY <2>2, RowWritten
  <2>4. PICK r : r = [at |-> "forget", by |-> work[c].by, level |-> l]
    OBVIOUS
  <2>5. work' = [work EXCEPT ![c] = r] /\ r \in CallStates /\ r.at = "forget"
    BY <1>2, <1>4, <2>1, <2>4 DEF WriteRow, Now, CallStates
  <2>6. work \in [Calls -> CallStates]
    BY DEF ConfigInv, ConfigHolds, CallsHold
  <2>7. \A d \in Calls : work'[d] = IF d = c THEN r ELSE work[d]
    BY <2>5, <2>6
  <2>8. \A m \in Levels : rows[m].version \in Nat /\ rows'[m].version \in Nat
                          /\ rows[m].version <= rows'[m].version
    BY <2>2, <2>3 DEF ConfigInv, ConfigHolds, RowsHold
  <2>9. RowsHold /\ RedisTtl \in Nat \ {0} /\ MemoryTtl \in Nat \ {0} /\ clock \in Nat
    BY LivesAreLong DEF ConfigInv, ConfigHolds, RowsHold
  <2>10. CallsHold'
    <3>1. ASSUME NEW d \in Calls PROVE Carried(work[d])'
      <4>1. PICK q : q = work'[d]
        OBVIOUS
      <4>2. CASE d = c
        BY <2>5, <2>7, <4>1, <4>2 DEF Carried
      <4>3. CASE d # c
        <5>1. q = work[d] /\ Carried(q) /\ q \in CallStates
          BY <2>7, <4>1, <4>3 DEF ConfigInv, ConfigHolds, CallsHold, Carried
        <5>2. ASSUME q.at \in {"fill", "keep"} PROVE q.level \in Levels /\ q.value \in Values
          BY <5>1, <5>2 DEF CallStates, Idle
        <5>3. q.at = "fill" => Was(q.level, q.value, clock)'
          <6> SUFFICES ASSUME q.at = "fill" PROVE Was(q.level, q.value, clock)'
            OBVIOUS
          <6>1. PICK t : t = clock
            OBVIOUS
          <6>2. t \in Int /\ t <= clock
            BY <2>9, <6>1
          <6>3. Was(q.level, q.value, t)'
            BY <2>3, <2>9, <5>1, <5>2, <6>1, <6>2, WasStays DEF Carried
          <6> QED BY <2>2, <6>1, <6>3
        <5>4. clock - (RedisTtl - 1) \in Int /\ clock - (RedisTtl - 1) <= clock
          BY <2>9
        <5>5. q.at = "keep" => Was(q.level, q.value, clock - (RedisTtl - 1))'
          <6> SUFFICES ASSUME q.at = "keep"
                       PROVE  Was(q.level, q.value, clock - (RedisTtl - 1))'
            OBVIOUS
          <6>1. PICK t : t = clock - (RedisTtl - 1)
            OBVIOUS
          <6>2. Was(q.level, q.value, t)'
            BY <2>3, <2>9, <5>1, <5>2, <5>4, <6>1, WasStays DEF Carried
          <6> QED BY <2>2, <6>1, <6>2
        <5>6. q.at \in {"version", "write"} => q.seen <= rows'[q.level].version
          <6>1. ASSUME q.at \in {"version", "write"}
                PROVE  q.seen \in Nat /\ q.level \in Levels
            BY <5>1, <6>1 DEF CallStates, Idle
          <6> QED BY <2>8, <5>1, <6>1 DEF Carried
        <5>7. Carried(q)'
          BY <2>2, <5>1, <5>3, <5>5, <5>6 DEF Carried
        <5> QED BY <4>1, <5>7
      <4> QED BY <4>2, <4>3
    <3>2. work' \in [Calls -> CallStates]
      BY <2>5, <2>6
    <3> QED BY <3>1, <3>2 DEF CallsHold
  <2>11. StoreHolds'
    <3>1. ASSUME NEW m \in Levels PROVE AgedEntry(m, store[m], RedisTtl, 0)'
      <4>1. PICK x : x = store[m]
        OBVIOUS
      <4>2. AgedEntry(m, x, RedisTtl, 0)
        BY <4>1 DEF ConfigInv, ConfigHolds, StoreHolds
      <4>3. /\ x \in Entries
            /\ x.value # Missing => /\ Was(m, x.value, x.until - RedisTtl - 0)'
                                    /\ x.until <= clock + RedisTtl
        BY <2>2, <2>3, <2>9, <4>2, CachesOutliveChange
      <4> QED BY <2>2, <4>1, <4>3 DEF AgedEntry, Entries
    <3> QED BY <2>2, <3>1 DEF ConfigInv, ConfigHolds, StoreHolds, Entries
  <2>12. MemoryHolds'
    <3>1. ASSUME NEW p \in Procs, NEW m \in Levels
          PROVE  AgedEntry(m, memory[p][m], MemoryTtl, RedisTtl - 1)'
      <4>1. PICK x : x = memory[p][m]
        OBVIOUS
      <4>2. AgedEntry(m, x, MemoryTtl, RedisTtl - 1) /\ RedisTtl - 1 \in Nat
        BY <2>9, <4>1 DEF ConfigInv, ConfigHolds, MemoryHolds
      <4>3. /\ x \in Entries
            /\ x.value # Missing => /\ Was(m, x.value, x.until - MemoryTtl - (RedisTtl - 1))'
                                    /\ x.until <= clock + MemoryTtl
        BY <2>2, <2>3, <2>9, <4>2, CachesOutliveChange
      <4> QED BY <2>2, <4>1, <4>3 DEF AgedEntry, Entries
    <3> QED BY <2>2, <3>1 DEF ConfigInv, ConfigHolds, MemoryHolds, Entries
  <2>13. EditsHold'
    <3>1. /\ edits \in [Levels -> [Values -> Nat]] /\ seen \in Nat /\ seen <= rows[l].version
          /\ edits' = IF seen = 0 THEN edits ELSE [edits EXCEPT ![l][seen] = @ + 1]
      BY <1>1, <1>2, <1>4, <2>1 DEF WriteRow, Carried, ConfigInv, EditsHold
    <3>2. edits' \in [Levels -> [Values -> Nat]]
      <4>1. PICK g : g = [edits[l] EXCEPT ![seen] = edits[l][seen] + 1]
        OBVIOUS
      <4>2. g \in [Values -> Nat] /\ edits[l] \in [Values -> Nat]
        <5>1. edits[l] \in [Values -> Nat]
          BY <2>2, <3>1
        <5>2. PICK h : h = edits[l]
          OBVIOUS
        <5>3. h \in [Values -> Nat] /\ g = [h EXCEPT ![seen] = h[seen] + 1]
          BY <4>1, <5>1, <5>2
        <5>4. \A v \in Values : h[v] \in Nat /\ h[v] + 1 \in Nat
          BY <5>3
        <5>5. g = [v \in Values |-> IF v = seen THEN h[v] + 1 ELSE h[v]]
          BY <5>3
        <5> QED BY <5>1, <5>4, <5>5
      <4>3. edits' = IF seen = 0 THEN edits ELSE [edits EXCEPT ![l] = g]
        BY <2>2, <3>1, <4>1
      <4> QED BY <3>1, <4>2, <4>3
    <3>3. ASSUME NEW m \in Levels, NEW v \in Values PROVE EditsOf(m, v)'
      <4>1. /\ edits[m][v] \in Nat /\ v \in Nat /\ v # 0 /\ EditsOf(m, v)
            /\ rows[m].version \in Nat /\ rows'[m].version \in Nat
            /\ Cardinality(Calls) \in Nat
        BY <2>8, <3>1, LivesAreLong DEF Values, ConfigInv, EditsHold
      <4>2. PICK W : W = Writers(m, v)'
        OBVIOUS
      <4>3. W = Writers(m, v) \ {c}
        BY <2>5, <2>7, <4>2 DEF Writers
      <4>4. c \in Writers(m, v) <=> m = l /\ v = seen
        BY <1>1, <2>1 DEF Writers
      <4>5. /\ Cardinality(Writers(m, v)) \in Nat
            /\ Cardinality(Writers(m, v)) <= Cardinality(Calls)
            /\ IsFiniteSet(Writers(m, v))
        BY WritersAreFew
      <4>6. Cardinality(W) = IF m = l /\ v = seen THEN Cardinality(Writers(m, v)) - 1
                             ELSE Cardinality(Writers(m, v))
        BY <4>3, <4>4, <4>5, FS_RemoveElement
      <4>7. edits'[m][v] = IF m = l /\ v = seen THEN edits[m][v] + 1 ELSE edits[m][v]
        BY <3>1, <4>1
      <4>8. CASE m = l /\ v = seen
        <5>1. /\ edits'[m][v] = edits[m][v] + 1 /\ Cardinality(W) = Cardinality(Writers(m, v)) - 1
              /\ v < rows'[m].version
          BY <2>3, <2>8, <3>1, <4>1, <4>6, <4>7, <4>8
        <5>2. edits[m][v] + Cardinality(Writers(m, v)) <= Cardinality(Calls)
          BY <4>1, <4>5 DEF EditsOf
        <5>3. edits'[m][v] + Cardinality(W) <= Cardinality(Calls)
          BY <4>1, <4>5, <5>1, <5>2
        <5> QED BY <4>1, <4>2, <5>1, <5>3 DEF EditsOf
      <4>9. CASE ~(m = l /\ v = seen)
        <5>1. edits'[m][v] = edits[m][v] /\ Cardinality(W) = Cardinality(Writers(m, v))
          BY <4>6, <4>7, <4>9
        <5>2. rows[m].version <= rows'[m].version
          BY <2>8
        <5>3. edits[m][v] + Cardinality(Writers(m, v)) <= Cardinality(Calls)
          BY <4>1, <4>5 DEF EditsOf
        <5>4. rows'[m].version <= v => edits[m][v] = 0
          BY <4>1, <5>2 DEF EditsOf
        <5> QED BY <4>2, <5>1, <5>3, <5>4 DEF EditsOf
      <4> QED BY <4>8, <4>9
    <3> QED BY <3>2, <3>3 DEF EditsHold
  <2>14. CountHolds' /\ kills' \in Nat
    <3>1. \A d \in Calls : work[d].at = "window" => work'[d].at = "window"
      BY <1>1, <2>7
    <3> QED BY <2>2, <3>1 DEF ConfigInv, CountHolds, CounterEnds, At
  <2> QED BY <2>3, <2>10, <2>11, <2>12, <2>13, <2>14 DEF ConfigInv, ConfigHolds
<1> QED BY <1>3, <1>4
-----------------------------------------------------------------------------
(* The rate limit, time, and processes that go down *)

LEMMA CountKeeps ==
    ASSUME ConfigInv, NEW c \in Calls, NEW p \in Procs, Count(c, p)
    PROVE  ConfigInv'
<1>1. work[c].at = "idle" /\ UNCHANGED <<rows, store, memory, clock, writes, kills, current, edits>>
  BY DEF Count, Free, At
<1>2. counter \in [n : Nat, until : Int] /\ CounterEnds /\ work \in [Calls -> CallStates]
  BY DEF ConfigInv, ConfigHolds, CountHolds, CallsHold
<1>3. /\ counter' \in [n : Nat, until : Int]
      /\ counter'.n = counter.n + 1 /\ counter'.until = counter.until
  BY <1>2 DEF Count
<1>4. PICK r : r = [at |-> "window", by |-> p]
  OBVIOUS
<1>5. Carried(r) /\ r.at = "window" /\ r \in CallStates
  BY <1>4 DEF Carried, CallStates
<1>6. CASE FirstHit(counter.n + 1)
  <2>1. work' = [work EXCEPT ![c] = r]
    BY <1>4, <1>6 DEF Count, Now
  <2>2. \A d \in Calls : work'[d] = IF d = c THEN r ELSE work[d]
    BY <1>2, <2>1
  <2>3. work' \in [Calls -> CallStates]
    BY <1>2, <1>5, <2>1
  <2>4. RowsHold' /\ CallsHold' /\ EditsHold'
    BY <1>1, <1>5, <2>2, <2>3, CallsMove DEF ConfigInv, ConfigHolds
  <2>5. CountHolds'
    BY <1>3, <1>5, <2>2 DEF CountHolds, CounterEnds, At
  <2> QED BY <1>1, <2>4, <2>5, StoreStays, MemoryStays DEF ConfigInv, ConfigHolds
<1>7. CASE ~FirstHit(counter.n + 1)
  <2>1. work' = work
    BY <1>7 DEF Count
  <2>2. RowsHold' /\ CallsHold' /\ EditsHold'
    BY <1>1, <1>2, <2>1, CallsMove DEF ConfigInv, ConfigHolds
  <2>3. counter.n > 0
    BY <1>2, <1>7 DEF FirstHit
  <2>4. CountHolds'
    BY <1>1, <1>2, <1>3, <2>1, <2>3 DEF CountHolds, CounterEnds, At
  <2> QED BY <1>1, <2>2, <2>4, StoreStays, MemoryStays DEF ConfigInv, ConfigHolds
<1> QED BY <1>6, <1>7

LEMMA SetWindowKeeps ==
    ASSUME ConfigInv, NEW c \in Calls, SetWindow(c)
    PROVE  ConfigInv'
<1>1. /\ work' = [work EXCEPT ![c] = Idle]
      /\ UNCHANGED <<rows, store, memory, clock, writes, kills, current, edits>>
  BY DEF SetWindow, Now
<1>2. work \in [Calls -> CallStates] /\ Idle \in CallStates
  BY IdleIsCarried DEF ConfigInv, ConfigHolds, CallsHold, Carried
<1>3. /\ work' \in [Calls -> CallStates]
      /\ \A d \in Calls : work'[d] = IF d = c THEN Idle ELSE work[d]
  BY <1>1, <1>2
<1>4. RowsHold' /\ CallsHold' /\ EditsHold'
  BY <1>1, <1>3, IdleIsCarried, CallsMove DEF ConfigInv, ConfigHolds
<1>5. clock \in Nat /\ Window \in Nat /\ counter \in [n : Nat, until : Int]
  BY LivesAreLong DEF ConfigInv, ConfigHolds, RowsHold, CountHolds
<1>6. counter' \in [n : Nat, until : Int] /\ counter'.until = clock + Window
  BY <1>5 DEF SetWindow
<1>7. CountHolds'
  BY <1>5, <1>6 DEF CountHolds, CounterEnds, Never
<1> QED BY <1>1, <1>4, <1>7, StoreStays, MemoryStays DEF ConfigInv, ConfigHolds

\* Time makes nothing older that still lives; it passes while no call is under way.
LEMMA LastingStays ==
    ASSUME RowsHold, clock' = clock + 1, current' = current, NEW l \in Levels,
           NEW entry, NEW life \in Nat, NEW age \in Nat, AgedEntry(l, entry, life, age),
           NEW x, x = Lasting(entry)
    PROVE  /\ x \in Entries
           /\ x.value # Missing => /\ Was(l, x.value, x.until - life - age)'
                                   /\ x.until <= clock' + life
<1>1. CASE clock + 1 < entry.until
  <2>1. x = entry /\ clock \in Nat
    BY <1>1 DEF Lasting, RowsHold
  <2>2. x.until \in Int /\ x \in Entries
    BY <2>1 DEF AgedEntry, Entries
  <2>3. x.value # Missing => x.until <= clock' + life
    BY <2>1, <2>2 DEF AgedEntry
  <2>4. x.value # Missing => Was(l, x.value, x.until - life - age)
    BY <2>1 DEF AgedEntry
  <2>5. x.value # Missing => Was(l, x.value, x.until - life - age)'
    BY <2>4 DEF Was
  <2> QED BY <2>2, <2>3, <2>5
<1>2. CASE ~(clock + 1 < entry.until)
  <2>1. x = Empty
    BY <1>2 DEF Lasting
  <2> QED BY <2>1 DEF Empty, Entries
<1> QED BY <1>1, <1>2

LEMMA PassTimeKeeps ==
    ASSUME ConfigInv, PassTime
    PROVE  ConfigInv'
<1>1. /\ \A c \in Calls : work[c].at = "idle"
      /\ clock < MaxTime /\ clock' = clock + 1
      /\ UNCHANGED <<rows, work, writes, hits, kills, current, edits>>
  BY DEF PassTime, At
<1>2. /\ RowsHold /\ RedisTtl \in Nat \ {0} /\ MemoryTtl \in Nat \ {0} /\ RedisTtl - 1 \in Nat
      /\ clock \in Nat /\ MaxTime \in Nat
  BY LivesAreLong DEF ConfigInv, ConfigHolds, RowsHold
<1>3. RowsHold'
  BY <1>1, <1>2 DEF RowsHold, Resolved
<1>4. CallsHold'
  <2>1. CallStates' = CallStates
    BY DEF CallStates
  <2> QED BY <1>1, <2>1 DEF ConfigInv, ConfigHolds, CallsHold, Carried
<1>5. StoreHolds'
  <2>1. ASSUME NEW m \in Levels PROVE AgedEntry(m, store[m], RedisTtl, 0)'
    <3>1. PICK e, x : e = store[m] /\ x = Lasting(e)
      OBVIOUS
    <3>2. AgedEntry(m, e, RedisTtl, 0) /\ store'[m] = x
      BY <3>1 DEF ConfigInv, ConfigHolds, StoreHolds, PassTime
    <3>3. /\ x \in Entries
          /\ x.value # Missing => /\ Was(m, x.value, x.until - RedisTtl - 0)'
                                  /\ x.until <= clock' + RedisTtl
      BY <1>1, <1>2, <3>1, <3>2, LastingStays
    <3> QED BY <3>2, <3>3 DEF AgedEntry, Entries
  <2> QED BY <2>1 DEF StoreHolds, AgedEntry, PassTime
<1>6. MemoryHolds'
  <2>1. ASSUME NEW p \in Procs, NEW m \in Levels
        PROVE  AgedEntry(m, memory[p][m], MemoryTtl, RedisTtl - 1)'
    <3>1. PICK e, x : e = memory[p][m] /\ x = Lasting(e)
      OBVIOUS
    <3>2. AgedEntry(m, e, MemoryTtl, RedisTtl - 1) /\ memory'[p][m] = x
      BY <3>1 DEF ConfigInv, ConfigHolds, MemoryHolds, PassTime
    <3>3. /\ x \in Entries
          /\ x.value # Missing => /\ Was(m, x.value, x.until - MemoryTtl - (RedisTtl - 1))'
                                  /\ x.until <= clock' + MemoryTtl
      BY <1>1, <1>2, <3>1, <3>2, LastingStays
    <3> QED BY <3>2, <3>3 DEF AgedEntry, Entries
  <2>2. PICK f : f = memory'
    OBVIOUS
  <2>3. f = [p \in Procs |-> [l \in Levels |-> Lasting(memory[p][l])]]
    BY <2>2 DEF PassTime
  <2>4. \A p \in Procs, l \in Levels : Lasting(memory[p][l]) \in Entries
    BY <2>1, <2>2, <2>3 DEF AgedEntry, Entries
  <2>5. memory' \in [Procs -> [Levels -> Entries]]
    BY <2>2, <2>3, <2>4
  <2>6. Entries' = Entries
    BY DEF Entries
  <2> QED BY <2>1, <2>5, <2>6 DEF MemoryHolds
<1>7. EditsHold'
  <2>1. edits \in [Levels -> [Values -> Nat]] /\ \A l \in Levels, v \in Values : EditsOf(l, v)
    BY DEF ConfigInv, EditsHold
  <2>2. \A l \in Levels, v \in Values : EditsOf(l, v)'
    BY <1>1, <2>1 DEF EditsOf, Writers
  <2> QED BY <1>1, <2>1, <2>2 DEF EditsHold
<1>8. CountHolds'
  <2>1. counter \in [n : Nat, until : Int] /\ (counter.n > 0 /\ counter.until = Never => kills # 0)
    BY <1>1 DEF ConfigInv, CountHolds, CounterEnds, At
  <2>2. counter' = IF counter.until = clock + 1 THEN [n |-> 0, until |-> Never] ELSE counter
    BY DEF PassTime
  <2>3. counter' \in [n : Nat, until : Int]
    BY <2>1, <2>2 DEF Never
  <2>4. counter'.n > 0 /\ counter'.until = Never => kills # 0
    BY <2>1, <2>2
  <2> QED BY <1>1, <2>3, <2>4 DEF CountHolds, CounterEnds
<1> QED BY <1>1, <1>3, <1>4, <1>5, <1>6, <1>7, <1>8 DEF ConfigInv, ConfigHolds

LEMMA KillKeeps ==
    ASSUME ConfigInv, NEW p \in Procs, Kill(p)
    PROVE  ConfigInv'
<1>1. /\ kills' = kills + 1 /\ kills \in Nat
      /\ memory' = [memory EXCEPT ![p] = [l \in Levels |-> Empty]]
      /\ UNCHANGED <<rows, store, clock, writes, counter, hits, current, edits>>
  BY DEF Kill, ConfigInv
<1>2. work \in [Calls -> CallStates]
  BY DEF ConfigInv, ConfigHolds, CallsHold
<1>3. \A d \in Calls : work'[d] = work[d] \/ work'[d] = Idle
  BY DEF Kill
<1>4. work' \in [Calls -> CallStates]
  <2>1. Idle \in CallStates
    BY IdleIsCarried DEF Carried
  <2> QED BY <1>2, <2>1 DEF Kill
<1>5. RowsHold' /\ CallsHold' /\ EditsHold'
  BY <1>1, <1>3, <1>4, IdleIsCarried, CallsMove DEF ConfigInv, ConfigHolds
<1>6. MemoryHolds'
  <2>1. memory \in [Procs -> [Levels -> Entries]]
    BY DEF ConfigInv, ConfigHolds, MemoryHolds
  <2>2. PICK f : f = [l \in Levels |-> Empty]
    OBVIOUS
  <2>3. f \in [Levels -> Entries] /\ memory' = [memory EXCEPT ![p] = f]
    BY <1>1, <2>2, EmptyIsAged
  <2>4. memory' \in [Procs -> [Levels -> Entries]]
    BY <2>1, <2>3
  <2>5. ASSUME NEW q \in Procs, NEW m \in Levels
        PROVE  AgedEntry(m, memory[q][m], MemoryTtl, RedisTtl - 1)'
    <3>1. PICK x : x = memory'[q][m]
      OBVIOUS
    <3>2. AgedEntry(m, x, MemoryTtl, RedisTtl - 1)
      <4>1. CASE q = p
        <5>1. x = Empty
          BY <2>1, <2>2, <2>3, <3>1, <4>1
        <5> QED BY <5>1, EmptyIsAged
      <4>2. CASE q # p
        <5>1. x = memory[q][m]
          BY <2>1, <2>3, <3>1, <4>2
        <5> QED BY <5>1 DEF ConfigInv, ConfigHolds, MemoryHolds
      <4> QED BY <4>1, <4>2
    <3>3. AgedEntry(m, x, MemoryTtl, RedisTtl - 1)'
      BY <1>1, <3>2 DEF AgedEntry, Was, Entries
    <3> QED BY <3>1, <3>3
  <2>6. Entries' = Entries
    BY DEF Entries
  <2> QED BY <2>4, <2>5, <2>6 DEF MemoryHolds
<1>7. CountHolds'
  <2>1. kills' # 0
    BY <1>1
  <2> QED BY <1>1, <2>1 DEF ConfigInv, CountHolds, CounterEnds
<1> QED BY <1>1, <1>5, <1>6, <1>7, StoreStays DEF ConfigInv, ConfigHolds

LEMMA ConfigStutters ==
    ASSUME ConfigInv, UNCHANGED configVars
    PROVE  ConfigInv'
<1>1. /\ work' = work
      /\ UNCHANGED <<rows, store, memory, clock, writes, counter, kills, current, edits>>
  BY DEF configVars
<1>2. RowsHold' /\ CallsHold' /\ EditsHold'
  BY <1>1, CallsMove DEF ConfigInv, ConfigHolds, CallsHold
<1>3. CountHolds'
  BY <1>1 DEF ConfigInv, CountHolds, CounterEnds, At
<1> QED BY <1>1, <1>2, <1>3, StoreStays, MemoryStays DEF ConfigInv, ConfigHolds

LEMMA ConfigStep ==
    ASSUME ConfigInv, [Next]_vars
    PROVE  ConfigInv'
<1> SUFFICES ASSUME LoadNext \/ ChangeNext \/ LimitNext \/ UNCHANGED configVars
             PROVE  ConfigInv'
  BY DEF Next, vars
<1>1. CASE LoadNext
  <2>1. CASE Changes(LoadWrites, LAMBDA l : {0})
    <3>1. \A l \in Levels : 0 \in 0..rows[l].version
      BY DEF ConfigInv, ConfigHolds, RowsHold
    <3> QED BY <2>1, <3>1, AskSetKeeps, CheckVersionKeeps, WriteRowKeeps, ForgetMemoryKeeps,
               ForgetRedisKeeps DEF Changes
  <2> QED BY <1>1, <2>1, GetKeeps, QueryRowKeeps, AskRedisKeeps, FillRedisKeeps,
             KeepMemoryKeeps, KillKeeps, PassTimeKeeps DEF LoadNext
<1>2. CASE ChangeNext
  BY <1>2, AskSetKeeps, CheckVersionKeeps, WriteRowKeeps, ForgetMemoryKeeps,
     ForgetRedisKeeps DEF ChangeNext, Changes
<1>3. CASE LimitNext
  BY <1>3, CountKeeps, SetWindowKeeps, KillKeeps, PassTimeKeeps DEF LimitNext
<1>4. CASE UNCHANGED configVars
  BY <1>4, ConfigStutters
<1> QED BY <1>1, <1>2, <1>3, <1>4

\* What lives in memory is bounded by what it was when it was read.
LEMMA LiveIsBounded ==
    ASSUME ConfigInv
    PROVE  StaleIsBounded
<1> SUFFICES ASSUME NEW p \in Procs, NEW l \in Levels, Live(memory[p][l])
             PROVE  \E m \in {l, "platform"} :
                      LET until == current[m][memory[p][l].value]
                      IN  until # Never /\ clock <= until + (RedisTtl - 1) + (MemoryTtl - 1)
  BY DEF StaleIsBounded
<1>1. /\ RowsHold /\ MemoryTtl \in Nat \ {0} /\ RedisTtl \in Nat \ {0} /\ RedisTtl - 1 \in Nat
      /\ clock \in Nat
  BY LivesAreLong DEF ConfigInv, ConfigHolds, RowsHold
<1>2. PICK v : v = memory[p][l].value
  OBVIOUS
<1>3. AgedEntry(l, memory[p][l], MemoryTtl, RedisTtl - 1)
  BY DEF ConfigInv, ConfigHolds, MemoryHolds
<1>4. v \in Values /\ Was(l, v, clock - (MemoryTtl - 1) - (RedisTtl - 1))
  BY <1>1, <1>2, <1>3, LiveWas
<1>5. PICK m \in {l, "platform"} :
        current[m][v] # Never /\ clock - (MemoryTtl - 1) - (RedisTtl - 1) <= current[m][v]
  BY <1>4 DEF Was
<1>6. current[m][v] \in Int
  BY <1>1, <1>4, <1>5 DEF RowsHold, Levels
<1>7. clock <= current[m][v] + (RedisTtl - 1) + (MemoryTtl - 1)
  BY <1>1, <1>5, <1>6
<1> QED BY <1>2, <1>5, <1>7

\* However loads, changes and invalidations cross and processes go down, no process
\* returns a value that was replaced longer ago than the lives of both caches, and the
\* count of a rate limit ends if no process went down on the way (config.service.js,
\* get, set, invalidate; rate-limit.js).
THEOREM CachesComeToAnEnd == FairSpec => []CachesEnd
<1>1. Init => ConfigInv
  BY ConfigStart DEF Init
<1>2. ConfigInv /\ [Next]_vars => ConfigInv'
  BY ConfigStep
<1>3. ConfigInv => CachesEnd
  BY LiveIsBounded DEF ConfigInv, CountHolds, CachesEnd
<1> QED BY <1>1, <1>2, <1>3, PTL DEF FairSpec

\* Changes made from one version of a row are at most as many as calls run at once,
\* however many administrators saw it (config.service.js, set).
THEOREM EditsAreFew == FairSpec => []EditsFromOneVersion
<1>1. Init => ConfigInv
  BY ConfigStart DEF Init
<1>2. ConfigInv /\ [Next]_vars => ConfigInv'
  BY ConfigStep
<1>3. ConfigInv => EditsFromOneVersion
  <2> SUFFICES ASSUME ConfigInv, NEW l \in Levels, NEW v \in Values
               PROVE  edits[l][v] <= Cardinality(Calls)
    BY DEF EditsFromOneVersion
  <2>1. /\ EditsOf(l, v) /\ edits[l][v] \in Nat /\ v \in Nat /\ rows[l].version \in Nat
        /\ Cardinality(Calls) \in Nat /\ Cardinality(Writers(l, v)) \in Nat
    BY LivesAreLong, WritersAreFew DEF ConfigInv, ConfigHolds, RowsHold, EditsHold, Values
  <2> QED BY <2>1 DEF EditsOf
<1> QED BY <1>1, <1>2, <1>3, PTL DEF FairSpec
-----------------------------------------------------------------------------
(* What the seed leaves behind *)

Amounts == [balance : Int, frozen : Int]

\* What the rows of an account freeze.
HeldIn(r) == IF r = NoRow THEN 0 ELSE r.frozen

\* What the rows written so far freeze: the price of order A from the fourth row on, that
\* of order B between the sixth and the seventh.
HeldSoFar(u) ==
    IF u = seed.base + BuyerA /\ seed.row > 4 THEN PriceA
    ELSE IF u = seed.base + BuyerB /\ seed.row = 7 THEN PriceB
    ELSE 0

SeedRuns  == [at : {"off", "truncate", "fill", "done", "failed"},
              k : Nat, row : 0..9, base : Nat]
Spendings == [seeds : Nat, deaths : Nat, posts : Nat, new : 0..MaxNew]

USE DEF SeedRuns, Spendings

SetupTypes ==
    /\ seed \in SeedRuns
    /\ full \in [Elements(Filled) -> Nat]
    /\ sums \in [Ids -> Amounts] /\ wallets \in [Ids -> Amounts]
    /\ people \in Nat
    /\ spent \in Spendings

AccountsHaveLedger == \A u \in Ids : wallets[u] # NoRow => sums[u] # NoRow

\* What the seed has emptied is empty, but for those who registered and recharged since.
EmptiedSoFar ==
    /\ seed.k \in 1..32 /\ seed.row = 1
    /\ \A j \in 1..32 : j < seed.k /\ Truncated[j] \in Elements(Filled) => full[Truncated[j]] = 0
    /\ seed.k > 12 => \A u \in Ids : HeldIn(sums[u]) = 0
    /\ seed.k > 14 => AccountsHaveLedger
    /\ seed.k > 26 => people <= spent.new

\* What the seed has filled was filled once.
FilledSoFar ==
    /\ seed.k \in 1..28 /\ seed.row \in 1..9
    /\ \A i \in 1..27 : full[Filled[i]] = IF i < seed.k THEN 1 ELSE 0
    /\ seed.k <= 3 => people <= spent.new
    /\ seed.k > 3 => seed.base <= MaxNew
    /\ seed.k < 15 => seed.row = 1
    /\ seed.k > 15 => seed.row = 9
    /\ \A u \in Ids : HeldIn(sums[u]) = HeldSoFar(u)
    /\ seed.k <= 16 => AccountsHaveLedger
    /\ seed.k > 16 => wallets = sums
    /\ seed.at = "done" => seed.k = 28

SeedInv ==
    /\ SetupTypes
    /\ seed.at = "truncate" => EmptiedSoFar
    /\ seed.at \in {"fill", "done"} => FilledSoFar
-----------------------------------------------------------------------------

LEMMA FilledIs ==
    /\ Len(Filled) = 27 /\ DOMAIN Filled = 1..27
    /\ Filled[3] = "users" /\ Filled[15] = "wallet_transactions" /\ Filled[16] = "wallet_accounts"
    /\ \A i, j \in 1..27 : Filled[i] = Filled[j] => i = j
    /\ \A i \in 1..27 : Filled[i] \in Elements(Filled)
<1>1. /\ Len(Filled) = 27 /\ DOMAIN Filled = 1..27
      /\ Filled[3] = "users" /\ Filled[15] = "wallet_transactions" /\ Filled[16] = "wallet_accounts"
      /\ \A i, j \in 1..27 : Filled[i] = Filled[j] => i = j
  BY DEF Filled, PeopleTables, ContentTables, MoneyTables, ServiceTables
<1> QED BY <1>1 DEF Elements

LEMMA TruncatedIs ==
    /\ Len(Truncated) = 32
    /\ Truncated[12] = "wallet_transactions" /\ Truncated[14] = "wallet_accounts"
    /\ Truncated[26] = "users"
    /\ \A i, j \in 1..32 : Truncated[i] = Truncated[j] => i = j
    /\ \A i \in 1..27 : \E j \in 1..32 : Truncated[j] = Filled[i]
<1>1. /\ Len(Truncated) = 32
      /\ Truncated[12] = "wallet_transactions" /\ Truncated[14] = "wallet_accounts"
      /\ Truncated[26] = "users"
      /\ \A i, j \in 1..32 : Truncated[i] = Truncated[j] => i = j
  BY DEF Truncated
<1>2. \A i \in 1..27 : \E j \in 1..32 : Truncated[j] = Filled[i]
  BY DEF Filled, PeopleTables, ContentTables, MoneyTables, ServiceTables, Truncated
<1> QED BY <1>1, <1>2

LEMMA MoneyTablesAre == Elements(MoneyTables) = {"wallet_transactions", "wallet_accounts"}
<1> QED BY DEF Elements, MoneyTables

LEMMA IdsAre == MaxNew \in Nat /\ Ids = 1..(4 + MaxNew) /\ Cardinality(SeedUsers) = 4
<1>1. {MaxSeeds, MaxDeaths, MaxPosts, MaxNew} \subseteq Nat
  BY SetupAssumption
<1>2. SeedUsers = 1..4
  BY DEF SeedUsers, BuyerA, BuyerB, SellerB, Platform
<1>3. Cardinality(1..4) = 4
  <2>1. 1 \in Int /\ 4 \in Int /\ (IF 1 > 4 THEN 0 ELSE 4 - 1 + 1) = 4
    OBVIOUS
  <2>2. Cardinality(1..4) = IF 1 > 4 THEN 0 ELSE 4 - 1 + 1
    BY <2>1, FS_Interval
  <2> QED BY <2>1, <2>2
<1> QED BY <1>1, <1>2, <1>3 DEF Ids

LEMMA RowsAre ==
    /\ NoRow \in Amounts /\ Nothing \in Amounts
    /\ HeldIn(NoRow) = 0 /\ HeldIn(Nothing) = 0
    /\ \A r \in Amounts : HeldIn(r) \in Int
    /\ \A r \in Amounts : HeldIn(r) # 0 => r # NoRow
<1> QED BY DEF NoRow, Nothing, Amounts, HeldIn

\* A row more on an account freezes what it says, and there is an account then.
LEMMA PlusAdds ==
    ASSUME NEW r \in Amounts, NEW account \in {"balance", "frozen"}, NEW n \in Int
    PROVE  /\ Plus(r, account, n) \in Amounts
           /\ HeldIn(r) + (IF account = "frozen" THEN n ELSE 0) \in Nat =>
                /\ Plus(r, account, n) # NoRow
                /\ HeldIn(Plus(r, account, n)) =
                     HeldIn(r) + (IF account = "frozen" THEN n ELSE 0)
<1>1. PICK row : row = IF r = NoRow THEN Nothing ELSE r
  OBVIOUS
<1>2. row \in Amounts /\ row.frozen = HeldIn(r)
  BY <1>1 DEF HeldIn, Nothing, Amounts
<1>3. PICK q : q = Plus(r, account, n)
  OBVIOUS
<1>4. q = [row EXCEPT ![account] = row[account] + n]
  BY <1>1, <1>3 DEF Plus
<1>5. CASE account = "balance"
  <2>1. q = [row EXCEPT !.balance = row.balance + n]
    BY <1>4, <1>5
  <2>2. q \in Amounts /\ q.frozen = row.frozen
    BY <1>2, <2>1 DEF Amounts
  <2> QED BY <1>2, <1>3, <1>5, <2>2 DEF HeldIn, NoRow, Amounts
<1>6. CASE account = "frozen"
  <2>1. q = [row EXCEPT !.frozen = row.frozen + n]
    BY <1>4, <1>6
  <2>2. q \in Amounts /\ q.frozen = row.frozen + n
    BY <1>2, <2>1 DEF Amounts
  <2> QED BY <1>2, <1>3, <1>6, <2>2 DEF HeldIn, NoRow, Amounts
<1> QED BY <1>5, <1>6

LEMMA SeedStart == SetupInit => SeedInv
<1> SUFFICES ASSUME SetupInit PROVE SeedInv
  OBVIOUS
<1>1. SetupTypes
  <2>1. seed = Unseeded /\ seed.at = "off"
    BY DEF SetupInit, Unseeded
  <2>2. seed \in SeedRuns
    BY <2>1 DEF Unseeded
  <2> QED BY <2>2, RowsAre, IdsAre DEF SetupInit, SetupTypes
<1> QED BY <1>1 DEF SeedInv, SetupInit, Unseeded

\* Nothing that the seed is about changes; or the run is over, or has not begun.
LEMMA SeedRests ==
    ASSUME SeedInv, UNCHANGED <<seed, full, people, sums, wallets>>,
           spent' \in Spendings,
           spent'.new = spent.new
    PROVE  SeedInv'
<1>1. SetupTypes'
  BY DEF SeedInv, SetupTypes, Amounts
<1>2. (seed.at = "truncate" => EmptiedSoFar)'
  BY DEF SeedInv, EmptiedSoFar, AccountsHaveLedger
<1>3. (seed.at \in {"fill", "done"} => FilledSoFar)'
  BY DEF SeedInv, FilledSoFar, AccountsHaveLedger, HeldSoFar
<1> QED BY <1>1, <1>2, <1>3 DEF SeedInv

LEMMA DropKeepsSeed ==
    ASSUME SeedInv, DropDatabase
    PROVE  SeedInv'
<1>1. /\ seed' = Unseeded /\ people' = 0 /\ spent' = spent
      /\ full' = [t \in Elements(Filled) |-> 0]
      /\ sums' = [u \in Ids |-> NoRow] /\ wallets' = [u \in Ids |-> NoRow]
  BY DEF DropDatabase
<1>2. seed' \in SeedRuns
      /\ seed'.at = "off"
  BY <1>1 DEF Unseeded
<1>3. SetupTypes'
  BY <1>1, <1>2, RowsAre DEF SeedInv, SetupTypes, Amounts
<1> QED BY <1>2, <1>3 DEF SeedInv

LEMMA BeginKeepsSeed ==
    ASSUME SeedInv, BeginSeed
    PROVE  SeedInv'
<1>1. /\ seed' = [at |-> "truncate", k |-> 1, row |-> 1, base |-> 0]
      /\ UNCHANGED <<full, people, sums, wallets>>
      /\ spent' = [spent EXCEPT !.seeds = @ + 1]
  BY DEF BeginSeed, Uses
<1>2. SetupTypes'
  BY <1>1 DEF SeedInv, SetupTypes, Amounts
<1>3. EmptiedSoFar'
  BY <1>1 DEF EmptiedSoFar
<1> QED BY <1>1, <1>2, <1>3 DEF SeedInv

LEMMA DeathKeepsSeed ==
    ASSUME SeedInv, SeedDies
    PROVE  SeedInv'
<1>1. /\ seed' = [seed EXCEPT !.at = "failed"]
      /\ UNCHANGED <<full, people, sums, wallets>>
      /\ spent' = [spent EXCEPT !.deaths = @ + 1]
  BY DEF SeedDies, Uses
<1>2. SetupTypes' /\ seed'.at = "failed"
  BY <1>1 DEF SeedInv, SetupTypes, Amounts
<1> QED BY <1>2 DEF SeedInv

LEMMA EndKeepsSeed ==
    ASSUME SeedInv, EndSeed
    PROVE  SeedInv'
<1>1. /\ seed.at = "fill" /\ seed.k > 27 /\ seed' = [seed EXCEPT !.at = "done"]
      /\ UNCHANGED <<full, people, sums, wallets, spent>>
  BY FilledIs DEF EndSeed
<1>2. /\ seed' \in SeedRuns
      /\ seed'.k = seed.k /\ seed'.row = seed.row /\ seed'.base = seed.base /\ seed'.at = "done"
      /\ FilledSoFar /\ seed.k = 28
  BY <1>1 DEF SeedInv, SetupTypes, FilledSoFar
<1>3. SetupTypes'
  BY <1>1, <1>2 DEF SeedInv, SetupTypes, Amounts
<1>4. FilledSoFar'
  BY <1>1, <1>2 DEF FilledSoFar, AccountsHaveLedger, HeldSoFar
<1> QED BY <1>2, <1>3, <1>4 DEF SeedInv

LEMMA RegisterKeepsSeed ==
    ASSUME SeedInv, Register
    PROVE  SeedInv'
<1>1. /\ people' = people + 1
      /\ spent' = [spent EXCEPT !.new = spent.new + 1] /\ spent.new < MaxNew
      /\ UNCHANGED <<seed, full, sums, wallets>>
  BY DEF Register, Uses
<1>0. spent \in Spendings /\ people \in Nat
  BY DEF SeedInv, SetupTypes
<1>new. spent.new \in 0..MaxNew /\ MaxNew \in Nat /\ spent.new \in Nat
  BY <1>0, IdsAre
<1>2. /\ spent' \in Spendings
      /\ spent'.new = spent.new + 1 /\ people' \in Nat
  <2>1. spent.new + 1 \in 0..MaxNew
    BY <1>1, <1>new
  <2> QED BY <1>0, <1>1, <2>1
<1>3. SetupTypes'
  BY <1>1, <1>2 DEF SeedInv, SetupTypes, Amounts
<1>4. people <= spent.new => people' <= spent'.new
  BY <1>0, <1>1, <1>2, <1>new
<1>5. (seed.at = "truncate" => EmptiedSoFar)'
  BY <1>1, <1>4 DEF SeedInv, EmptiedSoFar, AccountsHaveLedger
<1>6. (seed.at \in {"fill", "done"} => FilledSoFar)'
  BY <1>1, <1>4 DEF SeedInv, FilledSoFar, AccountsHaveLedger, HeldSoFar
<1> QED BY <1>3, <1>5, <1>6 DEF SeedInv

\* A recharge adds to the ledger and to the account, and freezes nothing.
LEMMA RechargeKeepsSeed ==
    ASSUME SeedInv, NEW u \in Ids, Recharge(u)
    PROVE  SeedInv'
<1>1. /\ sums' = [sums EXCEPT ![u] = Plus(sums[u], "balance", 1)]
      /\ wallets' = [wallets EXCEPT ![u] = Plus(wallets[u], "balance", 1)]
      /\ UNCHANGED <<seed, full, people>> /\ spent' = [spent EXCEPT !.posts = @ + 1]
  BY DEF Recharge, Uses
<1>2. /\ spent' \in Spendings
      /\ spent'.new = spent.new
  BY <1>1 DEF SeedInv, SetupTypes
<1>3. sums \in [Ids -> Amounts] /\ wallets \in [Ids -> Amounts]
  BY DEF SeedInv, SetupTypes
<1>4. PICK s, w : s = Plus(sums[u], "balance", 1) /\ w = Plus(wallets[u], "balance", 1)
  OBVIOUS
<1>5. /\ s \in Amounts /\ w \in Amounts
      /\ HeldIn(sums[u]) \in Nat => s # NoRow /\ HeldIn(s) = HeldIn(sums[u])
  <2>1. sums[u] \in Amounts /\ wallets[u] \in Amounts /\ HeldIn(sums[u]) + 0 = HeldIn(sums[u])
    BY <1>3, RowsAre
  <2> QED BY <1>4, <2>1, PlusAdds
<1>6. /\ \A x \in Ids : sums'[x] = IF x = u THEN s ELSE sums[x]
      /\ \A x \in Ids : wallets'[x] = IF x = u THEN w ELSE wallets[x]
      /\ sums' \in [Ids -> Amounts] /\ wallets' \in [Ids -> Amounts]
  BY <1>1, <1>3, <1>4, <1>5
<1>7. SetupTypes'
  BY <1>1, <1>2, <1>6 DEF SeedInv, SetupTypes, Amounts
<1>8. HeldIn(sums[u]) \in Nat => \A x \in Ids : HeldIn(sums'[x]) = HeldIn(sums[x])
  BY <1>5, <1>6
<1>9. HeldIn(sums[u]) \in Nat /\ AccountsHaveLedger => AccountsHaveLedger'
  BY <1>5, <1>6 DEF AccountsHaveLedger
<1>10. (seed.at = "truncate" => EmptiedSoFar)'
  <2> SUFFICES ASSUME seed.at = "truncate" PROVE EmptiedSoFar'
    BY <1>1
  <2>1. EmptiedSoFar /\ seed.k \in Nat
    BY DEF SeedInv, SetupTypes
  <2>2. seed.k > 12 => HeldIn(sums[u]) \in Nat
    BY <2>1 DEF EmptiedSoFar
  <2>3. seed.k > 12 => \A x \in Ids : HeldIn(sums'[x]) = 0
    BY <1>8, <2>1, <2>2 DEF EmptiedSoFar
  <2>4. seed.k > 14 => AccountsHaveLedger'
    BY <1>9, <2>1, <2>2 DEF EmptiedSoFar
  <2> QED BY <1>1, <1>2, <2>1, <2>3, <2>4 DEF EmptiedSoFar
<1>11. (seed.at \in {"fill", "done"} => FilledSoFar)'
  <2> SUFFICES ASSUME seed.at \in {"fill", "done"} PROVE FilledSoFar'
    BY <1>1
  <2>1. FilledSoFar
    BY DEF SeedInv
  <2>2. HeldIn(sums[u]) \in Nat
    BY <2>1 DEF FilledSoFar, HeldSoFar, PriceA, PriceB
  <2>3. \A x \in Ids : HeldIn(sums'[x]) = HeldSoFar(x)'
    BY <1>1, <1>8, <2>1, <2>2 DEF FilledSoFar, HeldSoFar
  <2>4. seed.k <= 16 => AccountsHaveLedger'
    BY <1>9, <2>1, <2>2 DEF FilledSoFar
  <2>5. seed.k > 16 => wallets' = sums'
    BY <1>1, <2>1 DEF FilledSoFar
  <2> QED BY <1>1, <1>2, <2>1, <2>3, <2>4, <2>5 DEF FilledSoFar
<1> QED BY <1>7, <1>10, <1>11 DEF SeedInv

LEMMA TruncateKeepsSeed ==
    ASSUME SeedInv, Truncate
    PROVE  SeedInv'
<1>1. /\ seed.at = "truncate" /\ EmptiedSoFar /\ SetupTypes /\ spent' = spent
      /\ seed.k \in 1..32 /\ seed.row = 1
  BY DEF Truncate, SeedInv, EmptiedSoFar
<1>2. PICK t, k : t = Truncated[seed.k] /\ k = seed.k
  OBVIOUS
<1>3. CASE t \notin tables
  <2>1. seed' = [seed EXCEPT !.at = "failed"] /\ UNCHANGED <<full, people, sums, wallets>>
    BY <1>2, <1>3 DEF Truncate
  <2>2. SetupTypes' /\ seed'.at = "failed"
    BY <1>1, <2>1 DEF SetupTypes, Amounts
  <2> QED BY <2>2 DEF SeedInv
<1>4. CASE t \in tables
  <2>1. /\ seed' = IF k < 32 THEN [seed EXCEPT !.k = k + 1]
                   ELSE [seed EXCEPT !.at = "fill", !.k = 1]
        /\ full' = IF t \in DOMAIN full THEN [full EXCEPT ![t] = 0] ELSE full
        /\ people' = IF t = "users" THEN 0 ELSE people
        /\ sums' = IF t = "wallet_transactions" THEN [u \in Ids |-> NoRow] ELSE sums
        /\ wallets' = IF t = "wallet_accounts" THEN [u \in Ids |-> NoRow] ELSE wallets
    BY <1>2, <1>4, TruncatedIs DEF Truncate
  <2>2. /\ full \in [Elements(Filled) -> Nat] /\ people \in Nat
        /\ sums \in [Ids -> Amounts] /\ wallets \in [Ids -> Amounts]
        /\ spent.new \in 0..MaxNew /\ MaxNew \in Nat
    BY <1>1, IdsAre DEF SetupTypes
  <2>3. /\ full' \in [Elements(Filled) -> Nat] /\ people' \in Nat
        /\ sums' \in [Ids -> Amounts] /\ wallets' \in [Ids -> Amounts]
    BY <2>1, <2>2, RowsAre
  <2>4. /\ seed' \in SeedRuns
        /\ seed'.row = 1 /\ seed'.base = seed.base
        /\ k < 32 => seed'.at = "truncate" /\ seed'.k = k + 1
        /\ k = 32 => seed'.at = "fill" /\ seed'.k = 1
    <3>1. seed \in SeedRuns
      BY <1>1 DEF SetupTypes
    <3>2. CASE k < 32
      <4>1. seed' = [seed EXCEPT !.k = k + 1] /\ k + 1 \in Nat
        BY <1>1, <1>2, <2>1, <3>2
      <4> QED BY <1>1, <1>2, <3>1, <3>2, <4>1
    <3>3. CASE k = 32
      <4>1. seed' = [seed EXCEPT !.at = "fill", !.k = 1]
        BY <2>1, <3>3
      <4>2. ~(k < 32)
        BY <3>3
      <4>3. /\ seed' \in SeedRuns
            /\ seed'.row = seed.row /\ seed'.base = seed.base /\ seed'.at = "fill" /\ seed'.k = 1
        BY <3>1, <4>1
      <4> QED BY <1>1, <4>2, <4>3
    <3>4. k < 32 \/ k = 32
      BY <1>1, <1>2
    <3> QED BY <3>2, <3>3, <3>4
  <2>5. SetupTypes'
    BY <1>1, <2>3, <2>4 DEF SetupTypes, Amounts
  <2>6. ASSUME NEW j \in 1..32, j < k + 1, Truncated[j] \in Elements(Filled)
        PROVE  full'[Truncated[j]] = 0
    <3>1. CASE j = k
      BY <1>2, <2>1, <2>2, <2>6, <3>1
    <3>2. CASE j < k
      <4>1. full[Truncated[j]] = 0
        BY <1>1, <1>2, <2>6, <3>2 DEF EmptiedSoFar
      <4> QED BY <2>1, <2>2, <2>6, <4>1
    <3> QED BY <1>1, <1>2, <2>6, <3>1, <3>2
  <2>7. k + 1 > 12 => \A u \in Ids : HeldIn(sums'[u]) = 0
    <3>1. t = "wallet_transactions" => \A u \in Ids : HeldIn(sums'[u]) = 0
      BY <2>1, RowsAre
    <3>2. k = 12 => t = "wallet_transactions"
      BY <1>2, TruncatedIs
    <3>3. k > 12 => \A u \in Ids : HeldIn(sums[u]) = 0
      BY <1>1, <1>2 DEF EmptiedSoFar
    <3> QED BY <1>1, <1>2, <2>1, <3>1, <3>2, <3>3
  <2>8. k + 1 > 14 => AccountsHaveLedger'
    <3>1. t = "wallet_accounts" => AccountsHaveLedger'
      BY <2>1 DEF AccountsHaveLedger
    <3>2. k = 14 => t = "wallet_accounts"
      BY <1>2, TruncatedIs
    <3>3. k > 14 => t # "wallet_transactions" /\ AccountsHaveLedger
      <4>1. k > 14 => Truncated[k] # Truncated[12]
        BY <1>1, <1>2, TruncatedIs
      <4> QED BY <1>1, <1>2, <4>1, TruncatedIs DEF EmptiedSoFar
    <3>4. k > 14 /\ t # "wallet_accounts" => sums' = sums /\ wallets' = wallets
      BY <2>1, <3>3
    <3> QED BY <1>1, <1>2, <3>1, <3>2, <3>3, <3>4 DEF AccountsHaveLedger
  <2>9. k + 1 > 26 => people' <= spent'.new
    <3>1. k = 26 => t = "users"
      BY <1>2, TruncatedIs
    <3>2. k > 26 => people <= spent.new
      BY <1>1, <1>2 DEF EmptiedSoFar
    <3> QED BY <1>1, <1>2, <2>1, <2>2, <3>1, <3>2
  <2>10. CASE k < 32
    <3>1. EmptiedSoFar'
      BY <1>1, <1>2, <2>4, <2>6, <2>7, <2>8, <2>9, <2>10 DEF EmptiedSoFar
    <3> QED BY <2>4, <2>5, <2>10, <3>1 DEF SeedInv
  <2>11. CASE k = 32
    <3>1. seed'.at = "fill" /\ seed'.k = 1 /\ seed'.row = 1
      BY <2>4, <2>11
    <3>2. \A i \in 1..27 : full'[Filled[i]] = 0
      <4> SUFFICES ASSUME NEW i \in 1..27 PROVE full'[Filled[i]] = 0
        OBVIOUS
      <4>1. PICK j \in 1..32 : Truncated[j] = Filled[i]
        BY TruncatedIs
      <4>2. Truncated[j] \in Elements(Filled) /\ j < k + 1
        BY <2>11, <4>1, FilledIs
      <4> QED BY <2>6, <4>1, <4>2
    <3>3. \A u \in Ids : HeldIn(sums'[u]) = HeldSoFar(u)'
      BY <2>7, <2>11, <3>1 DEF HeldSoFar
    <3>4. AccountsHaveLedger' /\ people' <= spent'.new
      BY <2>8, <2>9, <2>11
    <3>5. FilledSoFar'
      BY <3>1, <3>2, <3>3, <3>4 DEF FilledSoFar
    <3> QED BY <2>5, <3>1, <3>5 DEF SeedInv
  <2> QED BY <1>1, <1>2, <2>10, <2>11
<1> QED BY <1>3, <1>4

\* A table that is filled is the next one of the list.
LEMMA FillingIs ==
    ASSUME SeedInv, NEW t, Filling(t)
    PROVE  /\ seed.k \in 1..27 /\ t = Filled[seed.k] /\ t \in Elements(Filled)
           /\ FilledSoFar /\ seed.at = "fill"
           /\ t = "users" <=> seed.k = 3
           /\ t = "wallet_transactions" <=> seed.k = 15
           /\ t = "wallet_accounts" <=> seed.k = 16
<1>1. /\ seed.at = "fill" /\ seed.k <= 27 /\ t = Filled[seed.k]
      /\ seed.k \in 1..28 /\ FilledSoFar
  BY FilledIs DEF Filling, SeedInv, FilledSoFar
<1>2. seed.k \in 1..27
  BY <1>1
<1> QED BY <1>1, <1>2, FilledIs

LEMMA FullOnceMore ==
    ASSUME SeedInv, NEW t, Filling(t), Fills(t)
    PROVE  /\ full' \in [Elements(Filled) -> Nat]
           /\ \A i \in 1..27 : full'[Filled[i]] = IF i < seed.k + 1 THEN 1 ELSE 0
<1>1. /\ seed.k \in 1..27 /\ t = Filled[seed.k] /\ t \in Elements(Filled) /\ FilledSoFar
  BY FillingIs
<1>2. full \in [Elements(Filled) -> Nat] /\ full' = [full EXCEPT ![t] = full[t] + 1]
  BY DEF SeedInv, SetupTypes, Fills
<1>3. ASSUME NEW i \in 1..27 PROVE full'[Filled[i]] = IF i < seed.k + 1 THEN 1 ELSE 0
  <2>1. full[Filled[i]] = (IF i < seed.k THEN 1 ELSE 0) /\ Filled[i] \in Elements(Filled)
    BY <1>1, FilledIs DEF FilledSoFar
  <2>2. CASE i = seed.k
    BY <1>1, <1>2, <2>1, <2>2
  <2>3. CASE i # seed.k
    <3>1. Filled[i] # t
      BY <1>1, <2>3, FilledIs
    <3>2. full'[Filled[i]] = full[Filled[i]]
      BY <1>2, <2>1, <3>1
    <3> QED BY <1>1, <2>1, <2>3, <3>2
  <2> QED BY <2>2, <2>3
<1>4. full' \in [Elements(Filled) -> Nat]
  BY <1>1, <1>2
<1> QED BY <1>3, <1>4

LEMMA SeedAdvances ==
    ASSUME SeedInv, NEW t, Filling(t), NEW s, s = Advance
    PROVE  /\ s \in SeedRuns
           /\ s.at = "fill" /\ s.k = seed.k + 1 /\ s.row = seed.row /\ s.base = seed.base
<1> QED BY FillingIs DEF SeedInv, SetupTypes, Advance

LEMMA FillUsersKeepsSeed ==
    ASSUME SeedInv, FillUsers
    PROVE  SeedInv'
<1>1. /\ Filling("users") /\ Fills("users") /\ UNCHANGED <<sums, wallets, spent>>
      /\ people' = people + 4
  BY IdsAre DEF FillUsers
<1>2. /\ seed.k = 3 /\ FilledSoFar /\ people \in Nat /\ people <= spent.new
      /\ spent.new \in 0..MaxNew /\ MaxNew \in Nat /\ seed.row = 1
  <2>1. seed.k = 3 /\ FilledSoFar
    BY <1>1, FillingIs
  <2>2. people \in Nat /\ spent.new \in 0..MaxNew /\ MaxNew \in Nat
    BY IdsAre DEF SeedInv, SetupTypes
  <2> QED BY <2>1, <2>2 DEF FilledSoFar
<1>3. PICK s : s = Advance
  OBVIOUS
<1>4. /\ s \in SeedRuns
      /\ s.at = "fill" /\ s.k = 4 /\ s.row = 1
      /\ seed' = [s EXCEPT !.base = people]
  BY <1>1, <1>2, <1>3, SeedAdvances DEF FillUsers
<1>5. /\ seed' \in SeedRuns
      /\ seed'.at = "fill" /\ seed'.k = 4 /\ seed'.row = 1 /\ seed'.base = people
  BY <1>2, <1>4
<1>6. full' \in [Elements(Filled) -> Nat]
      /\ \A i \in 1..27 : full'[Filled[i]] = IF i < 4 THEN 1 ELSE 0
  BY <1>1, <1>2, FullOnceMore
<1>7. SetupTypes'
  BY <1>1, <1>2, <1>5, <1>6 DEF SeedInv, SetupTypes, Amounts
<1>8. \A u \in Ids : HeldIn(sums'[u]) = HeldSoFar(u)'
  BY <1>1, <1>2, <1>5 DEF FilledSoFar, HeldSoFar
<1>9. people <= MaxNew
  BY <1>2
<1>10. FilledSoFar'
  BY <1>1, <1>2, <1>5, <1>6, <1>8, <1>9 DEF FilledSoFar, AccountsHaveLedger
<1> QED BY <1>5, <1>7, <1>10 DEF SeedInv

LEMMA FillTableKeepsSeed ==
    ASSUME SeedInv, NEW t \in Elements(Filled) \ ({"users"} \cup Elements(MoneyTables)),
           FillTable(t)
    PROVE  SeedInv'
<1>1. /\ Filling(t) /\ Fills(t) /\ seed' = Advance
      /\ UNCHANGED <<people, sums, wallets, spent>>
  BY DEF FillTable
<1>2. /\ seed.k \in 1..27 /\ seed.k \notin {3, 15, 16} /\ FilledSoFar
  BY <1>1, FillingIs, MoneyTablesAre
<1>3. /\ seed' \in SeedRuns
      /\ seed'.at = "fill" /\ seed'.k = seed.k + 1 /\ seed'.row = seed.row /\ seed'.base = seed.base
  BY <1>1, SeedAdvances
<1>4. full' \in [Elements(Filled) -> Nat]
      /\ \A i \in 1..27 : full'[Filled[i]] = IF i < seed'.k THEN 1 ELSE 0
  BY <1>1, <1>3, FullOnceMore
<1>5. SetupTypes'
  BY <1>1, <1>3, <1>4 DEF SeedInv, SetupTypes, Amounts
<1>6. \A u \in Ids : HeldIn(sums'[u]) = HeldSoFar(u)'
  BY <1>1, <1>2, <1>3 DEF FilledSoFar, HeldSoFar
<1>7. /\ seed'.k \in 1..28 /\ seed'.row \in 1..9
      /\ seed'.k <= 3 => people' <= spent'.new
      /\ seed'.k > 3 => seed'.base <= MaxNew
      /\ seed'.k < 15 => seed'.row = 1
      /\ seed'.k > 15 => seed'.row = 9
      /\ seed'.k <= 16 => AccountsHaveLedger'
      /\ seed'.k > 16 => wallets' = sums'
  BY <1>1, <1>2, <1>3 DEF FilledSoFar, AccountsHaveLedger
<1>8. FilledSoFar'
  BY <1>3, <1>4, <1>6, <1>7 DEF FilledSoFar
<1> QED BY <1>3, <1>5, <1>8 DEF SeedInv

LEMMA LedgerIs ==
    /\ Len(SeedLedger) = 9
    /\ \A j \in 1..9 :
         /\ SeedLedger[j].user \in 1..4 /\ SeedLedger[j].account \in {"balance", "frozen"}
         /\ SeedLedger[j].amount \in Int
         /\ SeedLedger[j].account = "frozen" <=> j \in {4, 6, 7}
    /\ SeedLedger[4].user = BuyerA /\ SeedLedger[4].amount = PriceA
    /\ SeedLedger[6].user = BuyerB /\ SeedLedger[6].amount = PriceB
    /\ SeedLedger[7].user = BuyerB /\ SeedLedger[7].amount = -PriceB
<1>1. PriceA \in Int /\ PriceB \in Int /\ FeeB \in Int
  BY DEF PriceA, PriceB, FeeB
<1>2. Len(SeedLedger) = 9
  BY DEF SeedLedger
<1>3. ASSUME NEW j \in 1..9
      PROVE  /\ SeedLedger[j].user \in 1..4 /\ SeedLedger[j].account \in {"balance", "frozen"}
             /\ SeedLedger[j].amount \in Int
             /\ SeedLedger[j].account = "frozen" <=> j \in {4, 6, 7}
  BY <1>1 DEF SeedLedger, BuyerA, BuyerB, SellerB, Platform
<1>4. /\ SeedLedger[4].user = BuyerA /\ SeedLedger[4].amount = PriceA
      /\ SeedLedger[6].user = BuyerB /\ SeedLedger[6].amount = PriceB
      /\ SeedLedger[7].user = BuyerB /\ SeedLedger[7].amount = -PriceB
  BY DEF SeedLedger
<1> QED BY <1>2, <1>3, <1>4

\* What is frozen after a row of the ledger more.
HeldAfter(u, row) ==
    IF u = seed.base + BuyerA /\ row > 4 THEN PriceA
    ELSE IF u = seed.base + BuyerB /\ row = 7 THEN PriceB
    ELSE 0

LEMMA RowFreezes ==
    ASSUME SeedInv, seed.base \in Nat, NEW j \in 1..9, NEW u, u = seed.base + SeedLedger[j].user
    PROVE  /\ HeldAfter(u, IF j < 9 THEN j + 1 ELSE j) =
                HeldAfter(u, j) + (IF SeedLedger[j].account = "frozen"
                                   THEN SeedLedger[j].amount ELSE 0)
           /\ \A x : x # u => HeldAfter(x, IF j < 9 THEN j + 1 ELSE j) = HeldAfter(x, j)
           /\ HeldAfter(u, IF j < 9 THEN j + 1 ELSE j) \in Nat
<1>1. SeedLedger[j].user \in Nat /\ (SeedLedger[j].account = "frozen" <=> j \in {4, 6, 7})
  BY LedgerIs
<1>2. CASE j = 4
  BY <1>1, <1>2, LedgerIs DEF HeldAfter, PriceA, PriceB, BuyerA, BuyerB
<1>3. CASE j = 6
  BY <1>1, <1>3, LedgerIs DEF HeldAfter, PriceA, PriceB, BuyerA, BuyerB
<1>4. CASE j = 7
  BY <1>1, <1>4, LedgerIs DEF HeldAfter, PriceA, PriceB, BuyerA, BuyerB
<1>5. CASE j \notin {4, 6, 7}
  <2>1. \A x : HeldAfter(x, IF j < 9 THEN j + 1 ELSE j) = HeldAfter(x, j)
    BY <1>5 DEF HeldAfter
  <2>2. HeldAfter(u, j) \in Nat
    BY DEF HeldAfter, PriceA, PriceB
  <2> QED BY <1>1, <1>5, <2>1, <2>2
<1> QED BY <1>2, <1>3, <1>4, <1>5

LEMMA LedgerKeepsSeed ==
    ASSUME SeedInv, WriteLedgerRow
    PROVE  SeedInv'
<1>1. /\ Filling("wallet_transactions") /\ UNCHANGED <<people, wallets, spent>>
      /\ seed.k = 15 /\ FilledSoFar /\ seed.at = "fill"
  BY FillingIs DEF WriteLedgerRow
<1>2. PICK j, r : j = seed.row /\ r = SeedLedger[seed.row]
  OBVIOUS
<1>3. PICK u : u = seed.base + r.user
  OBVIOUS
<1>4. /\ j \in 1..9 /\ seed.base \in Nat /\ seed.base <= MaxNew /\ MaxNew \in Nat
      /\ sums \in [Ids -> Amounts]
  <2>1. seed.base \in Nat /\ MaxNew \in Nat /\ sums \in [Ids -> Amounts]
    BY IdsAre DEF SeedInv, SetupTypes
  <2> QED BY <1>1, <1>2, <2>1 DEF FilledSoFar
<1>5. r.user \in 1..4 /\ r.account \in {"balance", "frozen"} /\ r.amount \in Int
  BY <1>2, <1>4, LedgerIs
<1>6. u \in Ids
  BY <1>3, <1>4, <1>5, IdsAre
<1>7. PICK n : n = IF r.account = "frozen" THEN r.amount ELSE 0
  OBVIOUS
<1>8. PICK next : next = IF j < 9 THEN j + 1 ELSE j
  OBVIOUS
<1>9. /\ HeldAfter(u, next) = HeldAfter(u, j) + n
      /\ HeldAfter(u, next) \in Nat
      /\ \A x : x # u => HeldAfter(x, next) = HeldAfter(x, j)
  BY <1>2, <1>3, <1>4, <1>7, <1>8, RowFreezes
<1>10. \A x \in Ids : HeldIn(sums[x]) = HeldAfter(x, j)
  BY <1>1, <1>2 DEF FilledSoFar, HeldSoFar, HeldAfter
<1>11. PICK q : q = Plus(sums[u], r.account, r.amount)
  OBVIOUS
<1>12. q \in Amounts /\ q # NoRow /\ HeldIn(q) = HeldAfter(u, next)
  <2>1. sums[u] \in Amounts /\ HeldIn(sums[u]) + n \in Nat
    BY <1>4, <1>6, <1>9, <1>10
  <2> QED BY <1>5, <1>6, <1>7, <1>9, <1>10, <1>11, <2>1, PlusAdds
<1>13. sums' = [sums EXCEPT ![u] = q]
  BY <1>2, <1>3, <1>11 DEF WriteLedgerRow
<1>14. /\ sums' \in [Ids -> Amounts]
       /\ \A x \in Ids : sums'[x] = IF x = u THEN q ELSE sums[x]
  BY <1>4, <1>12, <1>13
<1>15. \A x \in Ids : HeldIn(sums'[x]) = HeldAfter(x, next)
  BY <1>9, <1>10, <1>12, <1>14
<1>16. /\ seed' \in SeedRuns
       /\ seed'.at = "fill" /\ seed'.row = next /\ seed'.base = seed.base
       /\ seed'.k = IF j < 9 THEN 15 ELSE 16
       /\ full' \in [Elements(Filled) -> Nat]
       /\ \A i \in 1..27 : full'[Filled[i]] = IF i < seed'.k THEN 1 ELSE 0
  <2>1. CASE j < 9
    <3>1. seed' = [seed EXCEPT !.row = j + 1] /\ full' = full
      BY <1>2, <2>1, LedgerIs DEF WriteLedgerRow
    <3>2. /\ seed \in SeedRuns
          /\ full \in [Elements(Filled) -> Nat]
      BY DEF SeedInv, SetupTypes
    <3>3. j + 1 \in 0..9
      BY <1>4, <2>1
    <3>4. \A i \in 1..27 : full[Filled[i]] = IF i < 15 THEN 1 ELSE 0
      BY <1>1 DEF FilledSoFar
    <3> QED BY <1>1, <1>8, <2>1, <3>1, <3>2, <3>3, <3>4
  <2>2. CASE j = 9
    <3>1. seed' = Advance /\ Fills("wallet_transactions")
      BY <1>2, <2>2, LedgerIs DEF WriteLedgerRow
    <3>2. /\ seed' \in SeedRuns
          /\ seed'.at = "fill" /\ seed'.k = 16 /\ seed'.row = seed.row /\ seed'.base = seed.base
      BY <1>1, <3>1, SeedAdvances
    <3>3. /\ full' \in [Elements(Filled) -> Nat]
          /\ \A i \in 1..27 : full'[Filled[i]] = IF i < 15 + 1 THEN 1 ELSE 0
      BY <1>1, <3>1, FullOnceMore
    <3>4. \A i \in 1..27 : full'[Filled[i]] = IF i < seed'.k THEN 1 ELSE 0
      <4>1. 15 + 1 = seed'.k
        BY <3>2
      <4> QED BY <3>3, <4>1
    <3>5. seed'.row = next /\ seed'.k = IF j < 9 THEN 15 ELSE 16
      <4>1. ~(j < 9)
        BY <2>2
      <4> QED BY <1>2, <1>8, <3>2, <4>1
    <3> QED BY <3>2, <3>3, <3>4, <3>5
  <2> QED BY <1>4, <2>1, <2>2
<1>17. SetupTypes'
  BY <1>1, <1>14, <1>16 DEF SeedInv, SetupTypes, Amounts
<1>18. \A x \in Ids : HeldIn(sums'[x]) = HeldSoFar(x)'
  BY <1>15, <1>16 DEF HeldSoFar, HeldAfter
<1>19. AccountsHaveLedger'
  BY <1>1, <1>12, <1>14 DEF FilledSoFar, AccountsHaveLedger
<1>20. next \in 1..9 /\ (j = 9 => next = 9)
  BY <1>4, <1>8
<1>21. FilledSoFar'
  BY <1>1, <1>4, <1>16, <1>18, <1>19, <1>20 DEF FilledSoFar
<1> QED BY <1>16, <1>17, <1>21 DEF SeedInv

\* Only if nobody in the ledger has an account yet; then the accounts are the ledger.
LEMMA AggregateKeepsSeed ==
    ASSUME SeedInv, AggregateWallets
    PROVE  SeedInv'
<1>1. /\ Filling("wallet_accounts") /\ UNCHANGED <<people, sums, spent>>
      /\ seed.k = 16 /\ FilledSoFar /\ seed.at = "fill"
      /\ sums \in [Ids -> Amounts] /\ wallets \in [Ids -> Amounts]
  BY FillingIs DEF AggregateWallets, SeedInv, SetupTypes
<1>2. CASE Conflicts
  <2>1. seed' = [seed EXCEPT !.at = "failed"] /\ UNCHANGED <<wallets, full>>
    BY <1>2 DEF AggregateWallets
  <2>2. SetupTypes' /\ seed'.at = "failed"
    BY <1>1, <2>1 DEF SeedInv, SetupTypes, Amounts
  <2> QED BY <2>2 DEF SeedInv
<1>3. CASE ~Conflicts
  <2>1. /\ seed' = Advance /\ Fills("wallet_accounts")
        /\ wallets' = [u \in Ids |-> IF wallets[u] = NoRow THEN sums[u] ELSE wallets[u]]
    BY <1>3 DEF AggregateWallets
  <2>2. \A u \in Ids : wallets[u] = NoRow
    BY <1>1, <1>3 DEF Conflicts, HasLedger, FilledSoFar, AccountsHaveLedger
  <2>3. wallets' = sums
    BY <1>1, <2>1, <2>2
  <2>4. /\ seed' \in SeedRuns
        /\ seed'.at = "fill" /\ seed'.k = 17 /\ seed'.row = seed.row /\ seed'.base = seed.base
    BY <1>1, <2>1, SeedAdvances
  <2>5. /\ full' \in [Elements(Filled) -> Nat]
        /\ \A i \in 1..27 : full'[Filled[i]] = IF i < 16 + 1 THEN 1 ELSE 0
    BY <1>1, <2>1, FullOnceMore
  <2>6. SetupTypes'
    BY <1>1, <2>3, <2>4, <2>5 DEF SeedInv, SetupTypes, Amounts
  <2>7. \A x \in Ids : HeldIn(sums'[x]) = HeldSoFar(x)'
    BY <1>1, <2>4 DEF FilledSoFar, HeldSoFar
  <2>8. FilledSoFar'
    BY <1>1, <2>3, <2>4, <2>5, <2>7 DEF FilledSoFar
  <2> QED BY <2>4, <2>6, <2>8 DEF SeedInv
<1> QED BY <1>2, <1>3

LEMMA SeedStep ==
    ASSUME SeedInv, [Next]_vars
    PROVE  SeedInv'
<1> SUFFICES ASSUME SetupNext \/ UNCHANGED setupVars PROVE SeedInv'
  BY DEF Next, vars
<1>1. CASE DropDatabase \/ BeginSeed \/ Truncate \/ FillUsers \/ WriteLedgerRow
           \/ AggregateWallets \/ EndSeed \/ SeedDies \/ Register
  BY <1>1, DropKeepsSeed, BeginKeepsSeed, TruncateKeepsSeed, FillUsersKeepsSeed, LedgerKeepsSeed,
     AggregateKeepsSeed, EndKeepsSeed, DeathKeepsSeed, RegisterKeepsSeed
<1>2. CASE \E t \in Elements(Filled) \ ({"users"} \cup Elements(MoneyTables)) : FillTable(t)
  BY <1>2, FillTableKeepsSeed
<1>3. CASE \E u \in Ids : Recharge(u)
  BY <1>3, RechargeKeepsSeed
<1>spent. spent \in Spendings
  BY DEF SeedInv, SetupTypes
<1>4. CASE Start \/ Stop \/ UNCHANGED setupVars
           \/ (\E s \in Scripts : ReadApplied(s) \/ RunStatement(s) \/ RecordVersion(s)
                                   \/ EndMigration(s))
  <2>1. UNCHANGED <<seed, full, people, sums, wallets, spent>>
    BY <1>4 DEF Start, Stop, setupVars, ReadApplied, RunStatement, RecordVersion, EndMigration
  <2> QED BY <1>spent, <2>1, SeedRests
<1>5. CASE \E s \in Scripts : MigrationDies(s)
  <2>1. /\ UNCHANGED <<seed, full, people, sums, wallets>>
        /\ spent' = [spent EXCEPT !.deaths = @ + 1]
    BY <1>5 DEF MigrationDies, Uses
  <2>2. /\ spent' \in Spendings
        /\ spent'.new = spent.new
    BY <1>spent, <2>1
  <2> QED BY <2>1, <2>2, SeedRests
<1> QED BY <1>1, <1>2, <1>3, <1>4, <1>5 DEF SetupNext

\* A seed that said it succeeded has filled every table once, its accounts are its
\* ledger, and only the price of the held order is frozen, wherever earlier runs died
\* and whoever registered and recharged beside it (seed.js, main).
THEOREM SeedsAreWhole == FairSpec => []SeededMeansWhole
<1>1. Init => SeedInv
  BY SeedStart DEF Init
<1>2. SeedInv /\ [Next]_vars => SeedInv'
  BY SeedStep
<1>3. SeedInv => SeededMeansWhole
  <2> SUFFICES ASSUME SeedInv, seed.at = "done" PROVE SeededMeansWhole
    BY DEF SeededMeansWhole
  <2>1. FilledSoFar /\ seed.k = 28
    BY DEF SeedInv, FilledSoFar
  <2>2. \A t \in DOMAIN full : full[t] = 1
    <3>1. DOMAIN full = Elements(Filled)
      BY DEF SeedInv, SetupTypes
    <3>2. ASSUME NEW t \in Elements(Filled) PROVE \E i \in 1..27 : t = Filled[i]
      BY FilledIs DEF Elements
    <3> QED BY <2>1, <3>1, <3>2 DEF FilledSoFar
  <2>3. wallets = sums /\ seed.row = 9
    BY <2>1 DEF FilledSoFar
  <2>4. ASSUME NEW u \in HasLedger
        PROVE  wallets[u].frozen = IF u = seed.base + BuyerA THEN PriceA ELSE 0
    <3>1. u \in Ids /\ sums[u] # NoRow
      BY DEF HasLedger
    <3>2. HeldIn(sums[u]) = IF u = seed.base + BuyerA THEN PriceA ELSE 0
      BY <2>1, <2>3, <3>1 DEF FilledSoFar, HeldSoFar
    <3> QED BY <2>3, <3>1, <3>2 DEF HeldIn
  <2> QED BY <2>2, <2>3, <2>4 DEF SeededMeansWhole
<1> QED BY <1>1, <1>2, <1>3, PTL DEF FairSpec
-----------------------------------------------------------------------------
(* The lock of a job: no two processes have a covered run of it at once.   *)

\* What changing one run leaves behind.
LEMMA SetRunChanges ==
    ASSUME LockTypeOK, NEW p \in Processes, NEW s \in Slots, NEW run,
           SetRun(p, s, run)
    PROVE  /\ runs'[p][s] = run
           /\ \A q \in Processes, t \in Slots :
                 <<q, t>> # <<p, s>> => runs'[q][t] = runs[q][t]
<1> QED BY DEF SetRun, LockTypeOK

LEMMA SetRunType ==
    ASSUME LockTypeOK, NEW p \in Processes, NEW s \in Slots,
           NEW run \in RunStates, SetRun(p, s, run)
    PROVE  runs' \in [Processes -> [Slots -> RunStates]]
<1> QED BY DEF SetRun, LockTypeOK

\* What is left of the lock and the age of a run never leave their ranges:
\* taking the lock again starts its term anew instead of adding to it
\* (acquireLock's second assignment).
THEOREM LockTypeCorrect == LockSpec => []LockTypeOK
<1>1. LockInit => LockTypeOK
  BY IntervalAssumption, TtlAssumption DEF LockInit, LockTypeOK, NoRun, RunStates, Phases, Others
<1>2. LockTypeOK /\ [LockNext]_lockVars => LockTypeOK'
  <2> SUFFICES ASSUME LockTypeOK, [LockNext]_lockVars PROVE LockTypeOK'
    OBVIOUS
  <2> USE IntervalAssumption, TtlAssumption
  <2>r. /\ NoRun \in RunStates
        /\ \A run \in RunStates, ph \in Phases :
              [run EXCEPT !.phase = ph] \in RunStates
        /\ "asked" \in Phases /\ "running" \in Phases /\ "done" \in Phases
        /\ \A p \in Processes, s \in Slots : runs[p][s] \in RunStates
    <3>1. NoRun \in RunStates
      BY DEF NoRun, RunStates, Phases
    <3>2. ASSUME NEW run \in RunStates, NEW ph \in Phases
          PROVE  [run EXCEPT !.phase = ph] \in RunStates
      BY DEF RunStates
    <3> QED BY <3>1, <3>2 DEF Phases, LockTypeOK
  <2>1. CASE Tick
    <3>1. ASSUME NEW p \in Processes, NEW s \in Slots
          PROVE  Aged(runs[p][s]) \in RunStates
      <4>1. runs[p][s] \in RunStates
        BY DEF LockTypeOK
      <4>2. runs[p][s].age # Ttl => runs[p][s].age + 1 \in 0..Ttl
        BY <4>1 DEF RunStates
      <4> QED BY <4>1, <4>2 DEF Aged, RunStates
    <3>2. runs' \in [Processes -> [Slots -> RunStates]]
      BY <2>1, <3>1 DEF Tick
    <3>3. \A n \in Nat : \A m \in 0..n : Less(m) \in 0..n
      BY DEF Less
    <3>4. lock' \in [by : Processes \cup Others, left : 0..Ttl]
      BY <2>1, <3>3 DEF Tick, LockTypeOK
    <3>5. rest' \in [Processes -> 0..Interval]
      BY <2>1, <3>3 DEF Tick, LockTypeOK
    <3> QED BY <3>2, <3>4, <3>5 DEF LockTypeOK
  <2>2. ASSUME NEW p \in Processes, Crash(p) PROVE LockTypeOK'
    <3>1. lock' \in [by : Processes \cup Others, left : 0..Ttl]
      BY <2>2 DEF Crash, LockTypeOK, Others
    <3>2. runs' \in [Processes -> [Slots -> RunStates]]
      BY <2>2, <2>r DEF Crash, LockTypeOK
    <3>3. rest' \in [Processes -> 0..Interval]
      BY <2>2 DEF Crash, LockTypeOK
    <3> QED BY <3>1, <3>2, <3>3 DEF LockTypeOK
  <2>3. ASSUME NEW p \in Processes, NEW s \in Slots, Ask(p, s) PROVE LockTypeOK'
    BY <2>3, <2>r, SetRunType DEF Ask, Taken, LockTypeOK
  <2>4. ASSUME NEW p \in Processes, NEW s \in Slots,
               Acquire(p, s) \/ Skip(p, s) \/ AskFails(p, s)
        PROVE  LockTypeOK'
    BY <2>4, <2>r, SetRunType DEF Acquire, Skip, AskFails, LockTypeOK
  <2>5. ASSUME NEW p \in Processes, NEW s \in Slots, HandlerEnds(p, s)
        PROVE  LockTypeOK'
    <3>1. runs' \in [Processes -> [Slots -> RunStates]]
      BY <2>5, <2>r, SetRunType DEF HandlerEnds
    <3>2. rest' \in [Processes -> 0..Interval]
      BY <2>5 DEF HandlerEnds, LockTypeOK
    <3> QED BY <2>5, <3>1, <3>2 DEF HandlerEnds, LockTypeOK
  <2>6. ASSUME NEW p \in Processes, NEW s \in Slots, Release(p, s)
        PROVE  LockTypeOK'
    <3>1. runs' \in [Processes -> [Slots -> RunStates]]
      <4>1. CASE SetRun(p, s, NoRun)
        BY <2>r, <4>1, SetRunType
      <4>2. CASE runs' = [runs EXCEPT ![p] = GaveBack(p, s)]
        <5>1. GaveBack(p, s) \in [Slots -> RunStates]
          BY <2>r DEF GaveBack, RunStates
        <5> QED BY <4>2, <5>1 DEF LockTypeOK
      <4> QED BY <2>6, <4>1, <4>2 DEF Release
    <3>2. lock' \in [by : Processes \cup Others, left : 0..Ttl]
      BY <2>6 DEF Release, Released, LockTypeOK
    <3> QED BY <2>6, <3>1, <3>2 DEF Release, LockTypeOK
  <2>7. CASE UNCHANGED lockVars
    BY <2>7 DEF lockVars, LockTypeOK
  <2> QED BY <2>1, <2>2, <2>3, <2>4, <2>5, <2>6, <2>7 DEF LockNext
<1> QED
  BY <1>1, <1>2, PTL DEF LockSpec
-----------------------------------------------------------------------------
\* A run that counts on the lock: it has been told that it has it, or will be.
Counts(p, s) ==
    \/ runs[p][s].phase \in {"running", "done"}
    \/ runs[p][s].phase = "asked" /\ lock.by = p

\* As long as such a run is covered, the lock is its process's and does not
\* end before one term after the run asked for it; a later run of the same
\* process may have prolonged it.
Leased(p, s) ==
    Counts(p, s) /\ Covered(p, s) =>
        lock.by = p /\ lock.left + runs[p][s].age >= Ttl

LeaseInv == \A p \in Processes, s \in Slots : Leased(p, s)

LEMMA LeaseStep ==
    ASSUME LockTypeOK, LeaseInv, [LockNext]_lockVars
    PROVE  LeaseInv'
<1> SUFFICES ASSUME NEW q \in Processes, NEW t \in Slots PROVE Leased(q, t)'
  BY DEF LeaseInv
<1> USE IntervalAssumption, TtlAssumption
<1>0. /\ Leased(q, t)
      /\ runs[q][t] \in RunStates
      /\ lock \in [by : Processes \cup Others, left : 0..Ttl]
  BY DEF LeaseInv, LockTypeOK
<1>r. /\ runs[q][t].age \in 0..Ttl /\ runs[q][t].freed \in BOOLEAN
      /\ lock.left \in 0..Ttl
  BY <1>0 DEF RunStates
<1>1. CASE Tick
  <2>1. runs'[q][t] = Aged(runs[q][t])
    BY <1>1 DEF Tick
  <2>2. lock'.by = lock.by /\ lock'.left = Less(lock.left)
    BY <1>0, <1>1 DEF Tick
  <2>3. CASE runs[q][t].phase = "idle" \/ runs[q][t].age = Ttl
    BY <1>r, <2>1, <2>3 DEF Leased, Counts, Covered, Aged
  <2>4. CASE runs[q][t].phase # "idle" /\ runs[q][t].age # Ttl
    <3>1. /\ runs'[q][t].phase = runs[q][t].phase
          /\ runs'[q][t].age = runs[q][t].age + 1
          /\ runs'[q][t].freed = runs[q][t].freed
      BY <1>0, <2>1, <2>4 DEF Aged, RunStates
    <3>2. lock.left # 0 => lock'.left = lock.left - 1
      BY <1>r, <2>2 DEF Less
    <3> QED BY <1>0, <1>r, <2>2, <3>1, <3>2 DEF Leased, Counts, Covered
  <2> QED BY <2>3, <2>4
<1>2. ASSUME NEW p \in Processes, Crash(p) PROVE Leased(q, t)'
  <2>1. CASE q = p
    <3>1. runs'[q][t].phase = "idle"
      BY <1>2, <2>1 DEF Crash, NoRun, LockTypeOK
    <3> QED BY <3>1 DEF Leased, Counts
  <2>2. CASE q # p
    <3>1. runs'[q][t] = runs[q][t]
      BY <1>2, <2>2 DEF Crash, LockTypeOK
    <3>2. lock' = lock \/ (lock.by = p /\ lock'.by = "stranger")
      BY <1>0, <1>2 DEF Crash
    <3> QED BY <1>0, <2>2, <3>1, <3>2, OthersAssumption
            DEF Others, Leased, Counts, Covered
  <2> QED BY <2>1, <2>2
<1>3. ASSUME NEW p \in Processes, NEW s \in Slots, Ask(p, s)
      PROVE  Leased(q, t)'
  <2>1. lock' = [by |-> p, left |-> Ttl]
        \/ (lock' = lock /\ lock.left # 0 /\ lock.by # p)
    BY <1>3 DEF Ask, Taken
  <2>2. lock' # lock => lock.left = 0 \/ lock.by = p
    BY <1>3 DEF Ask, Taken
  <2>3. CASE q = p /\ t = s
    <3>1. runs'[q][t] = [NoRun EXCEPT !.phase = "asked"]
      <4>1. \A run : SetRun(p, s, run) => runs'[p][s] = run
        BY SetRunChanges
      <4> QED BY <1>3, <2>3, <4>1 DEF Ask
    <3>2. runs'[q][t].phase = "asked" /\ runs'[q][t].age = 0
      BY <3>1 DEF NoRun
    <3>3. lock'.by = q => lock'.left = Ttl
      BY <2>1, <2>3
    <3>4. lock'.by = q => lock'.left + runs'[q][t].age >= Ttl
      BY <3>2, <3>3
    <3> QED BY <3>2, <3>4 DEF Leased, Counts
  <2>4. CASE <<q, t>> # <<p, s>>
    <3>1. runs'[q][t] = runs[q][t]
      BY <1>3, <2>4, SetRunChanges DEF Ask
    <3>2. CASE q = p
      BY <1>0, <1>r, <2>1, <3>1, <3>2 DEF Leased, Counts, Covered
    <3>3. CASE q # p
      BY <1>0, <1>r, <2>1, <2>2, <3>1, <3>3 DEF Leased, Counts, Covered
    <3> QED BY <3>2, <3>3
  <2> QED BY <2>3, <2>4
<1>4. ASSUME NEW p \in Processes, NEW s \in Slots,
             \/ Acquire(p, s) \/ Skip(p, s) \/ AskFails(p, s)
             \/ HandlerEnds(p, s)
      PROVE  Leased(q, t)'
  <2>1. lock' = lock
    BY <1>4 DEF Acquire, Skip, AskFails, HandlerEnds
  <2>2. CASE <<q, t>> = <<p, s>>
    <3>1. CASE Skip(p, s) \/ AskFails(p, s)
      <4>1. runs'[q][t].phase = "idle"
        BY <2>2, <3>1, SetRunChanges DEF Skip, AskFails, NoRun
      <4> QED BY <4>1 DEF Leased, Counts
    <3>2. CASE Acquire(p, s) \/ HandlerEnds(p, s)
      <4>1. Counts(q, t)
        BY <2>2, <3>2 DEF Acquire, HandlerEnds, Counts
      <4>2. \E ph \in Phases : runs'[q][t] = [runs[q][t] EXCEPT !.phase = ph]
        BY <2>2, <3>2, SetRunChanges DEF Acquire, HandlerEnds, Phases
      <4>3. /\ runs'[q][t].age = runs[q][t].age
            /\ runs'[q][t].freed = runs[q][t].freed
        BY <1>0, <4>2 DEF RunStates
      <4> QED BY <1>0, <2>1, <4>1, <4>3 DEF Leased, Covered
    <3> QED BY <1>4, <3>1, <3>2
  <2>3. CASE <<q, t>> # <<p, s>>
    <3>1. runs'[q][t] = runs[q][t]
      BY <1>4, <2>3, SetRunChanges DEF Acquire, Skip, AskFails, HandlerEnds
    <3> QED BY <1>0, <2>1, <3>1 DEF Leased, Counts, Covered
  <2> QED BY <2>2, <2>3
<1>5. ASSUME NEW p \in Processes, NEW s \in Slots, Release(p, s)
      PROVE  Leased(q, t)'
  <2>1. CASE UNCHANGED lock /\ SetRun(p, s, NoRun)
    <3>1. runs'[q][t].phase = "idle" \/ runs'[q][t] = runs[q][t]
      BY <2>1, SetRunChanges DEF NoRun
    <3> QED BY <1>0, <2>1, <3>1 DEF Leased, Counts, Covered
  <2>2. CASE lock' = Released(p) /\ runs' = [runs EXCEPT ![p] = GaveBack(p, s)]
    <3>1. CASE q # p
      <4>1. runs'[q][t] = runs[q][t]
        BY <2>2, <3>1 DEF LockTypeOK
      <4>2. lock' = lock \/ (lock.by = p /\ lock'.by = p)
        BY <1>0, <2>2 DEF Released
      <4> QED BY <1>0, <3>1, <4>1, <4>2 DEF Leased, Counts, Covered
    <3>2. CASE q = p
      <4>1. runs'[q][t] = GaveBack(p, s)[t]
        BY <2>2, <3>2 DEF LockTypeOK
      <4>2. CASE t = s \/ runs[q][t].phase = "idle"
        <5>1. runs'[q][t].phase = "idle"
          BY <1>0, <3>2, <4>1, <4>2 DEF GaveBack, NoRun, RunStates
        <5> QED BY <5>1 DEF Leased, Counts
      <4>3. CASE t # s /\ runs[q][t].phase # "idle" /\ lock.by = p
        <5>1. runs'[q][t].freed
          BY <1>0, <3>2, <4>1, <4>3 DEF GaveBack, RunStates
        <5> QED BY <5>1 DEF Leased, Covered
      <4>4. CASE t # s /\ lock.by # p
        <5>1. runs'[q][t] = runs[q][t] /\ lock' = lock
          BY <1>0, <2>2, <3>2, <4>1, <4>4 DEF GaveBack, Released, RunStates
        <5> QED BY <1>0, <5>1 DEF Leased, Counts, Covered
      <4> QED BY <4>2, <4>3, <4>4
    <3> QED BY <3>1, <3>2
  <2> QED BY <1>5, <2>1, <2>2 DEF Release
<1>6. CASE UNCHANGED lockVars
  BY <1>0, <1>6 DEF lockVars, Leased, Counts, Covered
<1> QED BY <1>1, <1>2, <1>3, <1>4, <1>5, <1>6 DEF LockNext

\* However many runs a process has in flight, two processes share the job
\* safely: whatever crashes, fails or comes late, they are never both in a
\* covered run, whose lock's term is not over and has not been given back by
\* another run of the same process (acquireLock, releaseLock, runJob).
THEOREM LeaseExcludes == LockSpec => []OneCoveredProcess
<1>1. LockInit => LeaseInv
  BY DEF LockInit, LeaseInv, Leased, Counts, NoRun
<1>2. LockTypeOK /\ LeaseInv /\ [LockNext]_lockVars => LeaseInv'
  BY LeaseStep
<1>3. LeaseInv => OneCoveredProcess
  <2> SUFFICES ASSUME LeaseInv,
                      NEW p \in Processes, NEW q \in Processes,
                      NEW s \in Slots, NEW t \in Slots,
                      Running(p, s), Running(q, t), Covered(p, s), Covered(q, t)
               PROVE  p = q
    BY DEF OneCoveredProcess
  <2>1. lock.by = p /\ lock.by = q
    BY DEF LeaseInv, Leased, Counts, Running
  <2> QED BY <2>1
<1> QED
  BY <1>1, <1>2, <1>3, LockTypeCorrect, PTL DEF LockSpec
=============================================================================
