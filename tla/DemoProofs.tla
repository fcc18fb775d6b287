----------------------------- MODULE DemoProofs -----------------------------
(***************************************************************************)
(* The three properties of the demo backend, for any number of tabs,       *)
(* users, books and requests.                                              *)
(*                                                                         *)
(* DemoInv says that every copy of the data, in a tab or in storage, is    *)
(* sound.  What a handler throws away is not undone, so it must not only   *)
(* lead from sound data to sound data: whatever it has written when it     *)
(* throws is sound as well (Good).  The lemmas go from what one helper     *)
(* writes (Elsewhere, PeopleStep, Settles) to what it keeps (Fine), and    *)
(* have one lemma for each request.                                        *)
(***************************************************************************)
EXTENDS DemoBackend, Sums, SequenceTheorems

\* Every other table is as it was.
Elsewhere(d, e, tables) ==
    /\ DOMAIN e = DOMAIN d
    /\ \A c \in Tables \ tables : e[c] = d[c]

LEMMA MoneyStays ==
    ASSUME NEW d, Tables \subseteq DOMAIN d, MoneySound(d), NEW e, NEW S, Elsewhere(d, e, S),
           S \cap {"balance", "frozen", "recharged", "keys", "strays", "orders"} = {}
    PROVE  MoneySound(e)
<1>1. /\ e.balance = d.balance /\ e.frozen = d.frozen /\ e.recharged = d.recharged
      /\ e.keys = d.keys /\ e.strays = d.strays /\ e.orders = d.orders
  BY DEF Elsewhere, Tables
<1> QED BY <1>1 DEF MoneySound, MoneyTables, RowsTogether, MoneyAddsUp, StatusHasRows

LEMMA PeopleStay ==
    ASSUME NEW d, Tables \subseteq DOMAIN d, PeopleSound(d), NEW e, NEW S, Elsewhere(d, e, S),
           S \cap {"user", "penalty", "credit"} = {}
    PROVE  PeopleSound(e)
<1>1. e.user = d.user /\ e.penalty = d.penalty /\ e.credit = d.credit
  BY DEF Elsewhere, Tables
<1> QED BY <1>1 DEF PeopleSound, PeopleTables, BansHaveRows, Standing

LEMMA ShopStays ==
    ASSUME NEW d, Tables \subseteq DOMAIN d, ShopTables(d), NEW e, NEW S, Elsewhere(d, e, S),
           S \cap {"books", "feeBps"} = {}
    PROVE  ShopTables(e)
<1>1. e.books = d.books /\ e.feeBps = d.feeBps
  BY DEF Elsewhere, Tables
<1> QED BY <1>1 DEF ShopTables

-----------------------------------------------------------------------------
LEMMA OwnRange ==
    ASSUME NEW n \in Nat, NEW q, q = [i \in 1..n |-> q[i]]
    PROVE  q \in Seq(Range(q))
<1>1. q \in [1..n -> Range(q)]
  BY DEF Range
<1> QED BY <1>1, SeqDef

LEMMA RowAppended ==
    ASSUME NEW q, q \in Seq(Range(q)), NEW row, NEW r, r = Append(q, row)
    PROVE  /\ r \in Seq(Range(r))
           /\ Range(r) = Range(q) \cup {row}
           /\ Len(q) + 1 \in DOMAIN r /\ DOMAIN q \subseteq DOMAIN r
           /\ r[Len(q) + 1] = row
           /\ \A j \in DOMAIN q : r[j] = q[j]
<1> DEFINE S == Range(q) \cup {row}
<1>1. q \in Seq(S) /\ row \in S
  BY SeqDef
<1>2. /\ r \in Seq(S) /\ Len(r) = Len(q) + 1
      /\ \A j \in 1..Len(q) : r[j] = q[j]
      /\ r[Len(q) + 1] = row
  BY <1>1, AppendProperties
<1>3. Len(q) \in Nat /\ DOMAIN q = 1..Len(q) /\ DOMAIN r = 1..(Len(q) + 1)
  BY <1>1, <1>2, LenProperties
<1>4. r = [i \in 1..(Len(q) + 1) |-> r[i]]
  <2>1. r \in [1..Len(r) -> S]
    BY <1>2, LenProperties
  <2> QED BY <1>2, <2>1
<1>5. r \in Seq(Range(r))
  BY <1>3, <1>4, OwnRange
<1>6. Range(r) = Range(q) \cup {row}
  BY <1>2, <1>3 DEF Range
<1> QED BY <1>2, <1>3, <1>5, <1>6

LEMMA RowChanged ==
    ASSUME NEW q, q \in Seq(Range(q)), NEW r, DOMAIN r = DOMAIN q, r = [i \in DOMAIN r |-> r[i]]
    PROVE  r \in Seq(Range(r))
<1>1. Len(q) \in Nat /\ DOMAIN q = 1..Len(q)
  BY LenProperties
<1> QED BY <1>1, OwnRange
-----------------------------------------------------------------------------
(* Credit and penalties *)

Fields == Switches \cup {"permanent"}

\* The switches and the penalties are as they were.
SameSwitches(d, e) ==
    /\ e.penalty = d.penalty /\ e.credit \in Seq(Range(e.credit))
    /\ DOMAIN e.user = DOMAIN d.user
    /\ \A u \in Users : /\ DOMAIN e.user[u] = DOMAIN d.user[u]
                        /\ \A k \in Fields : e.user[u][k] = d.user[u][k]

LEMMA SwitchesSound ==
    ASSUME NEW d, PeopleSound(d), NEW e, SameSwitches(d, e)
    PROVE  PeopleSound(e)
<1>1. \A u \in Users : SwitchedOn(e.user[u]) = SwitchedOn(d.user[u])
  BY DEF SameSwitches, SwitchedOn, Fields
<1>2. \A u \in Users : Standing(e, u) = Standing(d, u)
  BY DEF SameSwitches, Standing
<1>3. BansHaveRows(e)
  BY <1>1, <1>2 DEF PeopleSound, BansHaveRows, SameSwitches
<1>4. PeopleTables(e)
  BY DEF PeopleSound, PeopleTables, SameSwitches, Fields
<1> QED BY <1>3, <1>4 DEF PeopleSound

LEMMA CreditChanges ==
    ASSUME NEW d, Tables \subseteq DOMAIN d, PeopleTables(d),
           NEW u, NEW delta, NEW key, NEW ref,
           NEW e, e = CreditDelta(d, u, delta, key, ref)
    PROVE  Elsewhere(d, e, {"user", "credit"}) /\ SameSwitches(d, e)
<1>0. PICK next, row :
        e = [d EXCEPT !.user[u].score = next, !.credit = Append(@, row)]
  BY Zenon DEF CreditDelta
<1>1. Elsewhere(d, e, {"user", "credit"})
  BY <1>0 DEF Elsewhere, Tables
<1>2. e.user = [d.user EXCEPT ![u].score = next]
  BY <1>0 DEF Tables
<1>3. e.penalty = d.penalty /\ e.credit \in Seq(Range(e.credit))
  <2>1. e.penalty = d.penalty /\ e.credit = Append(d.credit, row)
    BY <1>0 DEF Tables
  <2>2. d.credit \in Seq(Range(d.credit))
    BY DEF PeopleTables
  <2>3. ASSUME NEW q, NEW r, q = d.credit, r = e.credit PROVE r \in Seq(Range(r))
    <3>1. q \in Seq(Range(q)) /\ r = Append(q, row)
      BY <2>1, <2>2, <2>3
    <3> QED BY <3>1, RowAppended
  <2> QED BY <2>1, <2>3
<1>4. DOMAIN e.user = DOMAIN d.user
  BY <1>2
<1>5. ASSUME NEW v \in Users
      PROVE  /\ DOMAIN e.user[v] = DOMAIN d.user[v]
             /\ \A k \in Fields : e.user[v][k] = d.user[v][k]
  <2>1. v \in DOMAIN d.user
    BY DEF PeopleTables
  <2>2. e.user[v] = IF v = u THEN [d.user[v] EXCEPT !.score = next] ELSE d.user[v]
    BY <1>2, <2>1
  <2>3. Fields \subseteq DOMAIN d.user[v]
    BY DEF PeopleTables, Fields
  <2> QED BY <2>2, <2>3 DEF Fields, Switches
<1> QED BY <1>1, <1>3, <1>4, <1>5 DEF SameSwitches
LEMMA PenaltyApplied ==
    ASSUME NEW d, Tables \subseteq DOMAIN d, PeopleSound(d),
           NEW u, NEW type \in PenaltyTypes, NEW days, NEW count,
           NEW e, e = ApplyPenalty(d, u, type, days, count)
    PROVE  Elsewhere(d, e, {"user", "penalty"}) /\ PeopleSound(e)
<1>0. PICK row, next :
        /\ row = [user |-> u, type |-> type, start |-> now, status |-> "active",
                  appeal |-> "none", count |-> count]
        /\ next = (CASE type = "permanent_ban" ->
                          [d.user[u] EXCEPT !.permanent = TRUE, !.login_ban = 0]
                     [] type = "warning" -> d.user[u]
                     [] OTHER -> [d.user[u] EXCEPT ![type] = now + days])
        /\ e = [d EXCEPT !.penalty = Append(@, row), !.user[u] = next]
  BY Zenon DEF ApplyPenalty
<1>1. /\ e.penalty = Append(d.penalty, row)
      /\ e.user = [d.user EXCEPT ![u] = next]
  BY <1>0 DEF Tables
<1>2. Elsewhere(d, e, {"user", "penalty"})
  BY <1>0 DEF Elsewhere, Tables
<1> DEFINE n == Len(d.penalty) + 1
<1>9. e.credit = d.credit
  BY <1>0 DEF Tables
<1>3. /\ e.penalty \in Seq(Range(e.penalty))
      /\ Range(e.penalty) = Range(d.penalty) \cup {row}
      /\ n \in DOMAIN e.penalty /\ DOMAIN d.penalty \subseteq DOMAIN e.penalty
      /\ e.penalty[n] = row
      /\ \A j \in DOMAIN d.penalty : e.penalty[j] = d.penalty[j]
  <2>1. d.penalty \in Seq(Range(d.penalty))
    BY DEF PeopleSound, PeopleTables
  <2>2. ASSUME NEW q, NEW r, q = d.penalty, r = e.penalty
        PROVE  /\ r \in Seq(Range(r)) /\ Range(r) = Range(q) \cup {row}
               /\ Len(q) + 1 \in DOMAIN r /\ DOMAIN q \subseteq DOMAIN r
               /\ r[Len(q) + 1] = row /\ \A j \in DOMAIN q : r[j] = q[j]
    <3>1. q \in Seq(Range(q)) /\ r = Append(q, row)
      BY <1>1, <2>1, <2>2
    <3>2. r \in Seq(Range(r)) /\ Range(r) = Range(q) \cup {row}
      BY <3>1, RowAppended
    <3>3. DOMAIN q \subseteq DOMAIN r
      BY <3>1, RowAppended
    <3>4. Len(q) + 1 \in DOMAIN r /\ r[Len(q) + 1] = row
      BY <3>1, RowAppended
    <3>5. \A j \in DOMAIN q : r[j] = q[j]
      BY <3>1, RowAppended
    <3> QED BY <3>2, <3>3, <3>4, <3>5
  <2> QED BY <2>2
<1>4. {"user", "type", "status"} \subseteq DOMAIN row
      /\ row.user = u /\ row.type = type /\ row.status = "active"
  BY <1>0
<1>5. DOMAIN e.user = DOMAIN d.user
  BY <1>1
<1>6. ASSUME NEW v \in Users
      PROVE  /\ DOMAIN e.user[v] = DOMAIN d.user[v]
             /\ e.user[v].permanent \in BOOLEAN
             /\ \A k \in SwitchedOn(e.user[v]) :
                   k \in SwitchedOn(d.user[v]) \/ (v = u /\ k = type)
  <2>1. v \in DOMAIN d.user /\ Fields \subseteq DOMAIN d.user[v] /\ d.user[v].permanent \in BOOLEAN
    BY DEF PeopleSound, PeopleTables, Fields
  <2>2. e.user[v] = IF v = u THEN next ELSE d.user[v]
    BY <1>1, <2>1
  <2>3. CASE v # u
    BY <2>1, <2>2, <2>3
  <2>4. CASE v = u /\ type = "permanent_ban"
    <3>1. e.user[v] = [d.user[v] EXCEPT !.permanent = TRUE, !.login_ban = 0]
      BY <1>0, <2>2, <2>4
    <3> QED BY <2>1, <2>4, <3>1 DEF SwitchedOn, Fields, Switches
  <2>5. CASE v = u /\ type = "warning"
    BY <1>0, <2>1, <2>2, <2>5
  <2>6. CASE v = u /\ type \in Switches
    <3>1. e.user[v] = [d.user[v] EXCEPT ![type] = now + days]
      BY <1>0, <2>2, <2>6 DEF Switches
    <3> QED BY <2>1, <2>6, <3>1 DEF SwitchedOn, Fields, Switches
  <2> QED BY <2>3, <2>4, <2>5, <2>6 DEF PenaltyTypes, Switches
<1>7. PeopleTables(e)
  BY <1>3, <1>4, <1>5, <1>6, <1>9 DEF PeopleSound, PeopleTables
<1>8. BansHaveRows(e)
  <2> SUFFICES ASSUME NEW v \in Users, NEW k \in SwitchedOn(e.user[v])
               PROVE  \E p \in Standing(e, v) : e.penalty[p].type = k
    BY DEF BansHaveRows
  <2>1. CASE k \in SwitchedOn(d.user[v])
    <3>1. PICK p \in Standing(d, v) : d.penalty[p].type = k
      BY <2>1 DEF PeopleSound, BansHaveRows
    <3> QED BY <1>3, <3>1 DEF Standing
  <2>2. CASE v = u /\ k = type
    BY <1>3, <1>4, <2>2 DEF Standing
  <2> QED BY <1>6, <2>1, <2>2
<1> QED BY <1>2, <1>7, <1>8 DEF PeopleSound
\* One thing after another.
LEMMA ElsewhereAgain ==
    ASSUME NEW d, NEW e, NEW f, NEW S, NEW T, Elsewhere(d, e, S), Elsewhere(e, f, T)
    PROVE  Elsewhere(d, f, S \cup T)
BY DEF Elsewhere

LEMMA SwitchesAgain ==
    ASSUME NEW d, NEW e, NEW f, SameSwitches(d, e), SameSwitches(e, f)
    PROVE  SameSwitches(d, f)
BY DEF SameSwitches

\* What a handler may do to users: their tables alone are written, and stay sound.
People == {"user", "penalty", "credit"}

PeopleStep(d, e) == Elsewhere(d, e, People) /\ PeopleSound(e)

LEMMA PeopleStepAgain ==
    ASSUME NEW d, NEW e, NEW f, PeopleStep(d, e), PeopleStep(e, f)
    PROVE  PeopleStep(d, f)
BY DEF PeopleStep, Elsewhere

LEMMA CreditStep ==
    ASSUME NEW d, Tables \subseteq DOMAIN d, PeopleSound(d),
           NEW u, NEW delta, NEW key, NEW ref,
           NEW e, e = CreditDelta(d, u, delta, key, ref)
    PROVE  PeopleStep(d, e)
<1>1. Elsewhere(d, e, {"user", "credit"}) /\ SameSwitches(d, e)
  BY CreditChanges DEF PeopleSound
<1> QED BY <1>1, SwitchesSound DEF PeopleStep, Elsewhere, People

LEMMA PenaltyStep ==
    ASSUME NEW d, Tables \subseteq DOMAIN d, PeopleSound(d),
           NEW u, NEW type \in PenaltyTypes, NEW days, NEW count,
           NEW e, e = ApplyPenalty(d, u, type, days, count)
    PROVE  PeopleStep(d, e)
<1>1. Elsewhere(d, e, {"user", "penalty"}) /\ PeopleSound(e)
  BY PenaltyApplied
<1> QED BY <1>1 DEF PeopleStep, Elsewhere, People

\* The ladder of hits.
LEMMA EscalationStep ==
    ASSUME NEW d, Tables \subseteq DOMAIN d, PeopleSound(d), NEW u,
           NEW e, e = ApplyEscalation(d, u)
    PROVE  PeopleStep(d, e)
<1>0. PICK l1, l23, m :
        /\ m = (IF l1 > 0 /\ l1 % HintLimit = 0
                THEN ApplyPenalty(d, u, "mute", MuteDays.hint, l1) ELSE d)
        /\ \/ e = ApplyPenalty(m, u, "mute", MuteDays.post_ban, l23)
           \/ e = ApplyPenalty(m, u, "mute", MuteDays.serious, l23)
           \/ e = m
  BY Zenon DEF ApplyEscalation
<1>1. PeopleStep(d, m)
  <2>1. PeopleStep(d, d)
    BY DEF PeopleStep, Elsewhere
  <2> QED BY <1>0, <2>1, PenaltyStep DEF PenaltyTypes
<1>2. Tables \subseteq DOMAIN m /\ PeopleSound(m)
  BY <1>1 DEF PeopleStep, Elsewhere
<1>3. PeopleStep(m, e)
  <2>1. PeopleStep(m, m)
    BY <1>2 DEF PeopleStep, Elsewhere
  <2> QED BY <1>0, <1>2, <2>1, PenaltyStep DEF PenaltyTypes
<1> QED BY <1>1, <1>3, PeopleStepAgain
\* What a text does to its author.
LEMMA EnforceStep ==
    ASSUME NEW d, Tables \subseteq DOMAIN d, PeopleSound(d), NEW u, NEW text,
           NEW e, e = Enforce(d, u, text)
    PROVE  PeopleStep(d, e)
<1> DEFINE hit == [d EXCEPT !.hits = Append(@, [user |-> u, level |-> Level(d, text), at |-> now])]
           tickets == InsertTicket(hit, "content", u, TRUE, FALSE)
           after == CASE Level(d, text) = 3 -> CreditDelta(hit, u, -Debit, "banned_word", text)
                      [] Level(d, text) = 4 -> ApplyPenalty(tickets, u, "permanent_ban", 0, 1)
                      [] OTHER -> hit
<1>0. e = d \/ e = ApplyEscalation(after, u)
  BY DEF Enforce
<1>1. PeopleStep(d, hit) /\ PeopleStep(d, tickets)
  <2>1. Elsewhere(d, hit, {}) /\ Elsewhere(hit, tickets, {})
    BY DEF Elsewhere, Tables, InsertTicket
  <2> HIDE DEF hit, tickets
  <2>2. Elsewhere(d, tickets, {})
    BY <2>1 DEF Elsewhere
  <2>3. PeopleSound(hit) /\ PeopleSound(tickets)
    BY <2>1, <2>2, PeopleStay
  <2> QED BY <2>1, <2>2, <2>3 DEF PeopleStep, Elsewhere
<1>a. /\ Level(d, text) = 3 => after = CreditDelta(hit, u, -Debit, "banned_word", text)
      /\ Level(d, text) = 4 => after = ApplyPenalty(tickets, u, "permanent_ban", 0, 1)
      /\ Level(d, text) \notin {3, 4} => after = hit
  <2> HIDE DEF hit, tickets
  <2> QED OBVIOUS
<1> HIDE DEF hit, tickets, after
<1>2. /\ Tables \subseteq DOMAIN hit /\ PeopleSound(hit)
      /\ Tables \subseteq DOMAIN tickets /\ PeopleSound(tickets)
  BY <1>1 DEF PeopleStep, Elsewhere
<1>3. PeopleStep(d, after)
  <2>1. CASE Level(d, text) = 3
    BY <1>1, <1>2, <1>a, <2>1, CreditStep, PeopleStepAgain
  <2>2. CASE Level(d, text) = 4
    BY <1>1, <1>2, <1>a, <2>2, PenaltyStep, PeopleStepAgain DEF PenaltyTypes
  <2> QED BY <1>1, <1>a, <2>1, <2>2
<1>4. CASE e = ApplyEscalation(after, u)
  <2>1. Tables \subseteq DOMAIN after /\ PeopleSound(after)
    BY <1>3 DEF PeopleStep, Elsewhere
  <2> QED BY <1>3, <1>4, <2>1, EscalationStep, PeopleStepAgain
<1>5. CASE e = d
  BY <1>5 DEF PeopleStep, Elsewhere
<1> QED BY <1>0, <1>4, <1>5
-----------------------------------------------------------------------------
(* The wallet *)

Funds(d) == SumFunction(d.balance) + SumFunction(d.frozen)

Purses(d) == d.balance \in [Users -> Int] /\ d.frozen \in [Users -> Int]

LEMMA FundsType ==
    ASSUME NEW d, Purses(d)
    PROVE  SumFunction(d.balance) \in Int /\ SumFunction(d.frozen) \in Int /\ Funds(d) \in Int
<1>1. SumFunction(d.balance) \in Int /\ SumFunction(d.frozen) \in Int
  BY UsersAssumption, SumType DEF Purses
<1> QED BY <1>1 DEF Funds

\* A row is posted once under its key.
Posted(d, e, account, amount, key) ==
    /\ Elsewhere(d, e, {account, "keys"})
    /\ Purses(e)
    /\ e.keys = IF key \in d.keys \/ key = NoKey THEN d.keys ELSE d.keys \cup {key}
    /\ Funds(e) = IF key \in d.keys THEN Funds(d) ELSE Funds(d) + amount

LEMMA RowPosted ==
    ASSUME NEW d, Tables \subseteq DOMAIN d, Purses(d), NEW u \in Users,
           NEW account \in {"balance", "frozen"}, NEW amount \in Int, NEW key,
           NEW e, e = WalletRecord(d, u, account, amount, key)
    PROVE  Posted(d, e, account, amount, key)
<1> SUFFICES /\ Elsewhere(d, e, {account, "keys"}) /\ Purses(e)
             /\ e.keys = IF key \in d.keys \/ key = NoKey THEN d.keys ELSE d.keys \cup {key}
             /\ Funds(e) = IF key \in d.keys THEN Funds(d) ELSE Funds(d) + amount
  BY DEF Posted
<1>1. CASE key \in d.keys
  <2>1. e = d
    BY <1>1 DEF WalletRecord
  <2> QED BY <1>1, <2>1 DEF Elsewhere
<1>2. CASE key \notin d.keys
  <2>0. PICK keys : /\ keys = IF key = NoKey THEN d.keys ELSE d.keys \cup {key}
                    /\ e = [d EXCEPT ![account][u] = @ + amount, !.keys = keys]
    BY <1>2, Zenon DEF WalletRecord
  <2>1. Elsewhere(d, e, {account, "keys"})
    BY <2>0 DEF Elsewhere, Tables
  <2>2. e.keys = keys
    BY <2>0 DEF Tables
  <2>3. CASE account = "balance"
    <3>1. e.balance = [d.balance EXCEPT ![u] = @ + amount] /\ e.frozen = d.frozen
      BY <2>0, <2>3 DEF Tables
    <3>2. e.balance \in [Users -> Int]
      BY <3>1 DEF Purses
    <3>3. SumFunction(e.balance) = SumFunction(d.balance) + (e.balance[u] - d.balance[u])
      BY <3>1, <3>2, SumMoves, UsersAssumption DEF Purses
    <3>4. e.balance[u] - d.balance[u] = amount
      BY <3>1 DEF Purses
    <3>5. Funds(e) = Funds(d) + amount
      BY <3>1, <3>3, <3>4, FundsType DEF Funds
    <3> QED BY <1>2, <2>0, <2>1, <2>2, <3>1, <3>2, <3>5 DEF Purses
  <2>4. CASE account = "frozen"
    <3>1. e.frozen = [d.frozen EXCEPT ![u] = @ + amount] /\ e.balance = d.balance
      BY <2>0, <2>4 DEF Tables
    <3>2. e.frozen \in [Users -> Int]
      BY <3>1 DEF Purses
    <3>3. SumFunction(e.frozen) = SumFunction(d.frozen) + (e.frozen[u] - d.frozen[u])
      BY <3>1, <3>2, SumMoves, UsersAssumption DEF Purses
    <3>4. e.frozen[u] - d.frozen[u] = amount
      BY <3>1 DEF Purses
    <3>5. Funds(e) = Funds(d) + amount
      BY <3>1, <3>3, <3>4, FundsType DEF Funds
    <3> QED BY <1>2, <2>0, <2>1, <2>2, <3>1, <3>2, <3>5 DEF Purses
  <2> QED BY <2>3, <2>4
<1> QED BY <1>1, <1>2
\* Some rows of an order are posted, which leave the money as it is: what escrowHold,
\* escrowRelease and escrowRefund do.
Settles(d, e, o, G) ==
    /\ Elsewhere(d, e, {"balance", "frozen", "keys"})
    /\ Purses(e)
    /\ Funds(e) = Funds(d)
    /\ e.keys = d.keys \cup {<<o, n>> : n \in G}

\* No key of another order came.
OthersKeep(d, e, o) == \A i, n : i # o /\ <<i, n>> \in e.keys => <<i, n>> \in d.keys

\* What holds while the rows are posted and the status does not say so yet.
LEMMA SettlesSound ==
    ASSUME NEW d, Tables \subseteq DOMAIN d, MoneySound(d), NEW e, NEW o \in DOMAIN d.orders,
           NEW G \in RowGroups, Settles(d, e, o, G)
    PROVE  /\ MoneyTables(e) /\ MoneyAddsUp(e) /\ RowsTogether(e)
           /\ e.orders = d.orders /\ e.strays = d.strays
           /\ d.keys \subseteq e.keys
           /\ OthersKeep(d, e, o)
<1>1. e.recharged = d.recharged /\ e.orders = d.orders /\ e.strays = d.strays
  BY DEF Settles, Elsewhere, Tables
<1>2. e.keys = d.keys \cup {<<o, n>> : n \in G}
  BY DEF Settles
<1>3. /\ NoKey \notin e.keys
      /\ \A k \in e.keys : k[1] \in DOMAIN e.orders \cup {0}
  <2>1. \A n : NoKey # <<o, n>>
    BY DEF NoKey
  <2>2. \A k \in d.keys : k[1] \in DOMAIN d.orders \cup {0}
    BY DEF MoneySound, MoneyTables
  <2>3. NoKey \notin d.keys
    BY DEF MoneySound, MoneyTables
  <2> QED BY <1>1, <1>2, <2>1, <2>2, <2>3
<1>4. MoneyTables(e)
  BY <1>1, <1>3 DEF MoneySound, MoneyTables, Settles, Purses
<1>5. MoneyAddsUp(e)
  BY <1>1 DEF MoneySound, MoneyAddsUp, Settles, Funds
<1>6. OthersKeep(d, e, o)
  BY <1>2 DEF OthersKeep
<1>7. RowsTogether(e)
  <2> SUFFICES ASSUME NEW k \in e.keys, NEW H \in RowGroups, k[2] \in H, NEW n \in H
               PROVE  <<k[1], n>> \in e.keys
    BY DEF RowsTogether
  <2>1. CASE k \in d.keys
    BY <1>2, <2>1 DEF MoneySound, RowsTogether
  <2>2. CASE \E m \in G : k = <<o, m>>
    <3>1. H = G
      BY <2>2 DEF RowGroups
    <3> QED BY <1>2, <2>2, <3>1
  <2> QED BY <1>2, <2>1, <2>2
<1> QED BY <1>1, <1>2, <1>4, <1>5, <1>6, <1>7

\* The rows of one settlement are all there or none is.
LEMMA AllOrNone ==
    ASSUME NEW d, RowsTogether(d), NEW G \in RowGroups, NEW o, NEW n \in G, NEW m \in G
    PROVE  <<o, n>> \in d.keys <=> <<o, m>> \in d.keys
BY DEF RowsTogether

LEMMA OrderTypes ==
    ASSUME NEW d, MoneySound(d), NEW o \in DOMAIN d.orders
    PROVE  /\ o \in Nat /\ d.orders[o] \in OrderRows
           /\ d.orders[o].buyer \in Users /\ d.orders[o].seller \in Users
           /\ d.orders[o].amount \in Int /\ d.orders[o].fee \in Int
           /\ d.orders[o].status \in DOMAIN Machine
<1>1. d.orders \in Seq(OrderRows)
  BY DEF MoneySound, MoneyTables
<1>2. o \in Nat /\ d.orders[o] \in OrderRows
  BY <1>1, LenProperties, ElementOfSeq
<1> QED BY <1>2 DEF OrderRows

LEMMA HoldSettles ==
    ASSUME NEW d, Tables \subseteq DOMAIN d, MoneySound(d), NEW o \in DOMAIN d.orders,
           NEW e, e = EscrowHold(d, o)
    PROVE  Settles(d, e, o, {"pay:balance", "pay:frozen"})
<1>0. PICK r, f : /\ r = d.orders[o]
                  /\ f = WalletRecord(d, r.buyer, "balance", -r.amount, <<o, "pay:balance">>)
                  /\ e = WalletRecord(f, r.buyer, "frozen", r.amount, <<o, "pay:frozen">>)
  BY Zenon DEF EscrowHold
<1>1. r.buyer \in Users /\ r.amount \in Int /\ -r.amount \in Int
  BY <1>0, OrderTypes
<1>2. Purses(d) /\ Funds(d) \in Int
  BY FundsType DEF MoneySound, MoneyTables, Purses
<1>3. <<o, "pay:balance">> # NoKey /\ <<o, "pay:frozen">> # NoKey
      /\ <<o, "pay:balance">> # <<o, "pay:frozen">>
  BY DEF NoKey
<1>4. /\ Elsewhere(d, f, {"balance", "keys"}) /\ Purses(f)
      /\ f.keys = d.keys \cup {<<o, "pay:balance">>}
      /\ Funds(f) = IF <<o, "pay:balance">> \in d.keys THEN Funds(d) ELSE Funds(d) + (-r.amount)
  <2>1. Posted(d, f, "balance", (-r.amount), <<o, "pay:balance">>)
    BY <1>0, <1>1, <1>2, <1>3, RowPosted
  <2> QED BY <1>3, <2>1 DEF Posted
<1>5. Tables \subseteq DOMAIN f
  BY <1>4 DEF Elsewhere
<1>6. /\ Elsewhere(f, e, {"frozen", "keys"}) /\ Purses(e)
      /\ e.keys = f.keys \cup {<<o, "pay:frozen">>}
      /\ Funds(e) = IF <<o, "pay:frozen">> \in f.keys THEN Funds(f) ELSE Funds(f) + r.amount
  <2>1. Posted(f, e, "frozen", r.amount, <<o, "pay:frozen">>)
    BY <1>0, <1>1, <1>3, <1>4, <1>5, RowPosted
  <2> QED BY <1>3, <2>1 DEF Posted
<1>7. <<o, "pay:frozen">> \in f.keys <=> <<o, "pay:balance">> \in d.keys
  BY <1>3, <1>4, AllOrNone DEF MoneySound, RowGroups
<1>8. Funds(e) = Funds(d)
  BY <1>1, <1>2, <1>4, <1>6, <1>7
<1>9. Elsewhere(d, e, {"balance", "frozen", "keys"})
  BY <1>4, <1>6 DEF Elsewhere
<1>10. e.keys = d.keys \cup {<<o, n>> : n \in {"pay:balance", "pay:frozen"}}
  BY <1>4, <1>6
<1> QED BY <1>6, <1>8, <1>9, <1>10 DEF Settles

LEMMA RefundSettles ==
    ASSUME NEW d, Tables \subseteq DOMAIN d, MoneySound(d), NEW o \in DOMAIN d.orders,
           NEW e, e = EscrowRefund(d, o)
    PROVE  Settles(d, e, o, {"refund:frozen", "refund:balance"})
<1>0. PICK r, f : /\ r = d.orders[o]
                  /\ f = WalletRecord(d, r.buyer, "frozen", -r.amount, <<o, "refund:frozen">>)
                  /\ e = WalletRecord(f, r.buyer, "balance", r.amount, <<o, "refund:balance">>)
  BY Zenon DEF EscrowRefund
<1>1. r.buyer \in Users /\ r.amount \in Int /\ -r.amount \in Int
  BY <1>0, OrderTypes
<1>2. Purses(d) /\ Funds(d) \in Int
  BY FundsType DEF MoneySound, MoneyTables, Purses
<1>3. <<o, "refund:frozen">> # NoKey /\ <<o, "refund:balance">> # NoKey
      /\ <<o, "refund:frozen">> # <<o, "refund:balance">>
  BY DEF NoKey
<1>4. /\ Elsewhere(d, f, {"frozen", "keys"}) /\ Purses(f)
      /\ f.keys = d.keys \cup {<<o, "refund:frozen">>}
      /\ Funds(f) = IF <<o, "refund:frozen">> \in d.keys THEN Funds(d) ELSE Funds(d) + (-r.amount)
  <2>1. Posted(d, f, "frozen", (-r.amount), <<o, "refund:frozen">>)
    BY <1>0, <1>1, <1>2, <1>3, RowPosted
  <2> QED BY <1>3, <2>1 DEF Posted
<1>5. Tables \subseteq DOMAIN f
  BY <1>4 DEF Elsewhere
<1>6. /\ Elsewhere(f, e, {"balance", "keys"}) /\ Purses(e)
      /\ e.keys = f.keys \cup {<<o, "refund:balance">>}
      /\ Funds(e) = IF <<o, "refund:balance">> \in f.keys THEN Funds(f) ELSE Funds(f) + r.amount
  <2>1. Posted(f, e, "balance", r.amount, <<o, "refund:balance">>)
    BY <1>0, <1>1, <1>3, <1>4, <1>5, RowPosted
  <2> QED BY <1>3, <2>1 DEF Posted
<1>7. <<o, "refund:balance">> \in f.keys <=> <<o, "refund:frozen">> \in d.keys
  BY <1>3, <1>4, AllOrNone DEF MoneySound, RowGroups
<1>8. Funds(e) = Funds(d)
  BY <1>1, <1>2, <1>4, <1>6, <1>7
<1>9. Elsewhere(d, e, {"balance", "frozen", "keys"})
  BY <1>4, <1>6 DEF Elsewhere
<1>10. e.keys = d.keys \cup {<<o, n>> : n \in {"refund:frozen", "refund:balance"}}
  BY <1>4, <1>6
<1> QED BY <1>6, <1>8, <1>9, <1>10 DEF Settles

LEMMA ReleaseSettles ==
    ASSUME NEW d, Tables \subseteq DOMAIN d, MoneySound(d), NEW o \in DOMAIN d.orders,
           NEW e, e = EscrowRelease(d, o)
    PROVE  Settles(d, e, o, {"release:buyer-frozen", "release:seller", "release:fee"})
<1>0. PICK r, f, g :
        /\ r = d.orders[o]
        /\ f = WalletRecord(d, r.buyer, "frozen", -r.amount, <<o, "release:buyer-frozen">>)
        /\ g = WalletRecord(f, r.seller, "balance", r.amount - r.fee, <<o, "release:seller">>)
        /\ e = WalletRecord(g, Platform, "balance", r.fee, <<o, "release:fee">>)
  BY Zenon DEF EscrowRelease
<1>1. /\ r.buyer \in Users /\ r.seller \in Users /\ Platform \in Users
      /\ r.amount \in Int /\ r.fee \in Int /\ -r.amount \in Int /\ r.amount - r.fee \in Int
  BY <1>0, OrderTypes DEF Users
<1>2. Purses(d) /\ Funds(d) \in Int
  BY FundsType DEF MoneySound, MoneyTables, Purses
<1>3. /\ \A n : <<o, n>> # NoKey
      /\ \A n, m : n # m => <<o, n>> # <<o, m>>
  BY DEF NoKey
<1>4. /\ Elsewhere(d, f, {"frozen", "keys"}) /\ Purses(f)
      /\ f.keys = d.keys \cup {<<o, "release:buyer-frozen">>}
      /\ Funds(f) = IF <<o, "release:buyer-frozen">> \in d.keys THEN Funds(d) ELSE Funds(d) + (-r.amount)
  <2>1. Posted(d, f, "frozen", (-r.amount), <<o, "release:buyer-frozen">>)
    BY <1>0, <1>1, <1>2, <1>3, RowPosted
  <2> QED BY <1>3, <2>1 DEF Posted
<1>5. Tables \subseteq DOMAIN f
  BY <1>4 DEF Elsewhere
<1>6. /\ Elsewhere(f, g, {"balance", "keys"}) /\ Purses(g)
      /\ g.keys = f.keys \cup {<<o, "release:seller">>}
      /\ Funds(g) = IF <<o, "release:seller">> \in f.keys THEN Funds(f) ELSE Funds(f) + (r.amount - r.fee)
  <2>1. Posted(f, g, "balance", (r.amount - r.fee), <<o, "release:seller">>)
    BY <1>0, <1>1, <1>3, <1>4, <1>5, RowPosted
  <2> QED BY <1>3, <2>1 DEF Posted
<1>7. Tables \subseteq DOMAIN g
  BY <1>5, <1>6 DEF Elsewhere
<1>8. /\ Elsewhere(g, e, {"balance", "keys"}) /\ Purses(e)
      /\ e.keys = g.keys \cup {<<o, "release:fee">>}
      /\ Funds(e) = IF <<o, "release:fee">> \in g.keys THEN Funds(g) ELSE Funds(g) + r.fee
  <2>1. Posted(g, e, "balance", r.fee, <<o, "release:fee">>)
    BY <1>0, <1>1, <1>3, <1>6, <1>7, RowPosted
  <2> QED BY <1>3, <2>1 DEF Posted
<1>9. /\ <<o, "release:seller">> \in f.keys <=> <<o, "release:buyer-frozen">> \in d.keys
      /\ <<o, "release:fee">> \in g.keys <=> <<o, "release:buyer-frozen">> \in d.keys
  <2>1. /\ <<o, "release:seller">> \in d.keys <=> <<o, "release:buyer-frozen">> \in d.keys
        /\ <<o, "release:fee">> \in d.keys <=> <<o, "release:buyer-frozen">> \in d.keys
    BY AllOrNone DEF MoneySound, RowGroups
  <2> QED BY <1>3, <1>4, <1>6, <2>1
<1>10. Funds(e) = Funds(d)
  BY <1>1, <1>2, <1>4, <1>6, <1>8, <1>9
<1>11. Elsewhere(d, e, {"balance", "frozen", "keys"})
  BY <1>4, <1>6, <1>8 DEF Elsewhere
<1>12. e.keys = d.keys \cup {<<o, n>> : n \in {"release:buyer-frozen", "release:seller", "release:fee"}}
  BY <1>4, <1>6, <1>8
<1> QED BY <1>8, <1>10, <1>11, <1>12 DEF Settles
-----------------------------------------------------------------------------
(* Data sets stay sound *)

\* As sound as before, and not yet counted as answered.
Fine(d, e) == Sound(e) /\ e.writes = d.writes /\ e.images = d.images

LEMMA FineAgain ==
    ASSUME NEW d, NEW e, NEW f, Fine(d, e), Fine(e, f)
    PROVE  Fine(d, f)
BY DEF Fine

\* Tables that no property is about are written.
LEMMA Unrelated ==
    ASSUME NEW d, Sound(d), NEW e, Elsewhere(d, e, {})
    PROVE  Fine(d, e)
<1>1. Tables \subseteq DOMAIN e
  BY DEF Sound, Elsewhere
<1>2. MoneySound(e) /\ PeopleSound(e) /\ ShopTables(e)
  BY MoneyStays, PeopleStay, ShopStays DEF Sound
<1>3. e.writes = d.writes /\ e.images = d.images
  BY DEF Elsewhere, Tables
<1> QED BY <1>1, <1>2, <1>3 DEF Sound, Fine

LEMMA PeopleFine ==
    ASSUME NEW d, Sound(d), NEW e, PeopleStep(d, e)
    PROVE  Fine(d, e)
<1>1. Tables \subseteq DOMAIN e /\ PeopleSound(e) /\ Elsewhere(d, e, People)
  BY DEF Sound, PeopleStep, Elsewhere
<1>2. MoneySound(e) /\ ShopTables(e)
  BY <1>1, MoneyStays, ShopStays DEF Sound, People
<1>3. e.writes = d.writes /\ e.images = d.images
  BY <1>1 DEF Elsewhere, Tables, People
<1> QED BY <1>1, <1>2, <1>3 DEF Sound, Fine

Purse == {"balance", "frozen", "recharged", "keys", "strays", "orders"}

LEMMA MoneyFine ==
    ASSUME NEW d, Sound(d), NEW e, Elsewhere(d, e, Purse), MoneySound(e)
    PROVE  Fine(d, e)
<1>1. Tables \subseteq DOMAIN e
  BY DEF Sound, Elsewhere
<1>2. PeopleSound(e) /\ ShopTables(e)
  BY PeopleStay, ShopStays DEF Sound, Purse
<1>3. e.writes = d.writes /\ e.images = d.images
  BY DEF Elsewhere, Tables, Purse
<1> QED BY <1>1, <1>2, <1>3 DEF Sound, Fine

LEMMA ShopFine ==
    ASSUME NEW d, Sound(d), NEW e, Elsewhere(d, e, {"books", "feeBps"}), ShopTables(e)
    PROVE  Fine(d, e)
<1>1. Tables \subseteq DOMAIN e
  BY DEF Sound, Elsewhere
<1>2. PeopleSound(e) /\ MoneySound(e)
  BY PeopleStay, MoneyStays DEF Sound
<1>3. e.writes = d.writes /\ e.images = d.images
  BY DEF Elsewhere, Tables
<1> QED BY <1>1, <1>2, <1>3 DEF Sound, Fine

\* The rows stay although the request threw: they are strays from now on.
LEMMA StrandedFine ==
    ASSUME NEW d, Sound(d), NEW f, NEW o \in DOMAIN d.orders, NEW G \in RowGroups,
           Settles(d, f, o, G), NEW e, e = Stranded(d, f)
    PROVE  Fine(d, e)
<1>1. /\ MoneyTables(f) /\ MoneyAddsUp(f) /\ RowsTogether(f)
      /\ f.orders = d.orders /\ f.strays = d.strays /\ d.keys \subseteq f.keys
  BY SettlesSound DEF Sound
<1>2. Elsewhere(d, f, {"balance", "frozen", "keys"}) /\ Tables \subseteq DOMAIN f
  BY DEF Settles, Elsewhere, Sound
<1>3. Elsewhere(f, e, {"strays"}) /\ e.strays = f.strays \cup (f.keys \ d.keys)
  BY <1>2 DEF Stranded, Elsewhere, Tables
<1>4. /\ e.balance = f.balance /\ e.frozen = f.frozen /\ e.recharged = f.recharged
      /\ e.keys = f.keys /\ e.orders = d.orders
  BY <1>1, <1>3 DEF Elsewhere, Tables
<1>5. MoneyTables(e) /\ MoneyAddsUp(e) /\ RowsTogether(e)
  BY <1>1, <1>4 DEF MoneyTables, MoneyAddsUp, RowsTogether
<1>6. e.keys \ e.strays = d.keys \ d.strays
  BY <1>1, <1>3, <1>4
<1>7. StatusHasRows(e)
  <2> SUFFICES ASSUME NEW i \in DOMAIN d.orders
               PROVE  /\ RowsOfStatus(e.keys, i, d.orders[i].status)
                      /\ StatusOfRows(e.keys \ e.strays, i, d.orders[i].status)
    BY <1>4 DEF StatusHasRows
  <2>1. /\ RowsOfStatus(d.keys, i, d.orders[i].status)
        /\ StatusOfRows(d.keys \ d.strays, i, d.orders[i].status)
    BY DEF Sound, MoneySound, StatusHasRows
  <2>2. RowsOfStatus(e.keys, i, d.orders[i].status)
    BY <1>1, <1>4, <2>1 DEF RowsOfStatus, HasRow
  <2> QED BY <1>6, <2>1, <2>2
<1>8. MoneySound(e)
  BY <1>5, <1>7 DEF MoneySound
<1>9. Elsewhere(d, e, Purse)
  BY <1>2, <1>3 DEF Elsewhere, Purse
<1> QED BY <1>8, <1>9, MoneyFine

-----------------------------------------------------------------------------
(* Orders *)

\* What the rows of an order and a status ask of each other.
Agree(keys, strays, o, s) ==
    RowsOfStatus(keys, o, s) /\ StatusOfRows(keys \ strays, o, s)

LEMMA AgreeNow ==
    ASSUME NEW d, Sound(d), NEW o \in DOMAIN d.orders
    PROVE  Agree(d.keys, d.strays, o, d.orders[o].status)
BY DEF Sound, MoneySound, StatusHasRows, Agree

\* An order is written, with the money rows that it asks for.
LEMMA OrderWritten ==
    ASSUME NEW d, Sound(d), NEW o \in DOMAIN d.orders, NEW row \in OrderRows,
           NEW e, e.orders = [d.orders EXCEPT ![o] = row], e.strays = d.strays,
           d.keys \subseteq e.keys,
           OthersKeep(d, e, o),
           Agree(e.keys, e.strays, o, row.status)
    PROVE  /\ e.orders \in Seq(OrderRows) /\ DOMAIN e.orders = DOMAIN d.orders
           /\ StatusHasRows(e)
<1>1. d.orders \in Seq(OrderRows)
  BY DEF Sound, MoneySound, MoneyTables
<1>2. /\ e.orders \in Seq(OrderRows) /\ DOMAIN e.orders = DOMAIN d.orders
      /\ \A i \in DOMAIN d.orders : e.orders[i] = IF i = o THEN row ELSE d.orders[i]
  <2>1. o \in 1..Len(d.orders) /\ DOMAIN d.orders = 1..Len(d.orders)
    BY <1>1, LenProperties
  <2>2. [d.orders EXCEPT ![o] = row] \in Seq(OrderRows)
    BY <1>1, <2>1, ExceptSeq
  <2> QED BY <1>1, <2>1, <2>2
<1>3. ASSUME NEW i \in DOMAIN d.orders
      PROVE  Agree(e.keys, e.strays, i, e.orders[i].status)
  <2>1. CASE i = o
    BY <1>2, <2>1
  <2>2. CASE i # o
    <3>1. Agree(d.keys, d.strays, i, d.orders[i].status) /\ e.orders[i] = d.orders[i]
      BY <1>2, <2>2, AgreeNow
    <3>2. \A n : /\ <<i, n>> \in e.keys <=> <<i, n>> \in d.keys
                 /\ <<i, n>> \in e.keys \ e.strays <=> <<i, n>> \in d.keys \ d.strays
      BY <2>2 DEF OthersKeep
    <3> QED BY <3>1, <3>2 DEF Agree, RowsOfStatus, StatusOfRows, HasRow
  <2> QED BY <2>1, <2>2
<1> QED BY <1>2, <1>3 DEF StatusHasRows, Agree

LEMMA OrderFine ==
    ASSUME NEW d, Sound(d), NEW o \in DOMAIN d.orders, NEW row \in OrderRows,
           Agree(d.keys, d.strays, o, row.status),
           NEW e, Elsewhere(d, e, {"orders"}), e.orders = [d.orders EXCEPT ![o] = row]
    PROVE  Fine(d, e)
<1>1. /\ e.balance = d.balance /\ e.frozen = d.frozen /\ e.recharged = d.recharged
      /\ e.keys = d.keys /\ e.strays = d.strays
  BY DEF Elsewhere, Tables, Sound
<1>2. /\ e.orders \in Seq(OrderRows) /\ DOMAIN e.orders = DOMAIN d.orders
      /\ StatusHasRows(e)
  <2>1. /\ OthersKeep(d, e, o) /\ d.keys \subseteq e.keys
        /\ Agree(e.keys, e.strays, o, row.status)
    BY <1>1 DEF OthersKeep
  <2> QED BY <1>1, <2>1, OrderWritten
<1>3. MoneySound(e)
  BY <1>1, <1>2 DEF Sound, MoneySound, MoneyTables, RowsTogether, MoneyAddsUp
<1>4. Elsewhere(d, e, Purse)
  BY DEF Elsewhere, Purse
<1> QED BY <1>3, <1>4, MoneyFine

LEMMA OrderPlacedFine ==
    ASSUME NEW d, Sound(d), NEW row \in OrderRows, row.status = "pending_payment",
           NEW e, Elsewhere(d, e, {"orders"}), e.orders = Append(d.orders, row)
    PROVE  Fine(d, e)
<1>1. d.orders \in Seq(OrderRows)
  BY DEF Sound, MoneySound, MoneyTables
<1>2. /\ e.balance = d.balance /\ e.frozen = d.frozen /\ e.recharged = d.recharged
      /\ e.keys = d.keys /\ e.strays = d.strays
  BY DEF Elsewhere, Tables, Sound
<1>3. /\ e.orders \in Seq(OrderRows)
      /\ DOMAIN e.orders = DOMAIN d.orders \cup {Len(d.orders) + 1}
      /\ Len(d.orders) + 1 \notin DOMAIN d.orders \cup {0}
      /\ e.orders[Len(d.orders) + 1] = row
      /\ \A i \in DOMAIN d.orders : e.orders[i] = d.orders[i]
  <2>1. /\ e.orders \in Seq(OrderRows) /\ Len(e.orders) = Len(d.orders) + 1
        /\ \A j \in 1..Len(d.orders) : e.orders[j] = d.orders[j]
        /\ e.orders[Len(d.orders) + 1] = row
    BY <1>1, AppendProperties
  <2>2. /\ Len(d.orders) \in Nat /\ DOMAIN d.orders = 1..Len(d.orders)
        /\ DOMAIN e.orders = 1..(Len(d.orders) + 1)
    BY <1>1, <2>1, LenProperties
  <2> QED BY <2>1, <2>2
<1>4. \A k \in d.keys : k[1] \in DOMAIN d.orders \cup {0}
  BY DEF Sound, MoneySound, MoneyTables
<1>5. \A n : <<Len(d.orders) + 1, n>> \notin d.keys
  BY <1>3, <1>4
<1>6. Agree(d.keys, d.strays, Len(d.orders) + 1, "pending_payment")
  <2>1. "pending_payment" \notin Held \cup PaidOut \cup GaveBack
    BY DEF Held, PaidOut, GaveBack
  <2> QED BY <1>5, <2>1 DEF Agree, RowsOfStatus, StatusOfRows, HasRow
<1>7. StatusHasRows(e)
  <2> SUFFICES ASSUME NEW i \in DOMAIN e.orders
               PROVE  Agree(e.keys, e.strays, i, e.orders[i].status)
    BY DEF StatusHasRows, Agree
  <2>1. CASE i \in DOMAIN d.orders
    BY <1>2, <1>3, <2>1, AgreeNow
  <2>2. CASE i = Len(d.orders) + 1
    BY <1>2, <1>3, <1>6, <2>2
  <2> QED BY <1>3, <2>1, <2>2
<1>8. MoneyTables(e)
  BY <1>2, <1>3, <1>4 DEF Sound, MoneySound, MoneyTables
<1>9. MoneySound(e)
  BY <1>2, <1>7, <1>8 DEF Sound, MoneySound, RowsTogether, MoneyAddsUp
<1>10. Elsewhere(d, e, Purse)
  BY DEF Elsewhere, Purse
<1> QED BY <1>9, <1>10, MoneyFine

\* A book's status changes.
LEMMA BooksType ==
    ASSUME NEW q \in Seq(BookRows), NEW r, DOMAIN r = DOMAIN q, r = [b \in DOMAIN r |-> r[b]],
           \A b \in DOMAIN q : r[b] \in BookRows
    PROVE  r \in Seq(BookRows)
<1>1. Len(q) \in Nat /\ DOMAIN q = 1..Len(q)
  BY LenProperties
<1>2. r \in [1..Len(q) -> BookRows]
  BY <1>1
<1> QED BY <1>1, <1>2, SeqDef

LEMMA BookRow ==
    ASSUME NEW d, ShopTables(d), NEW b \in DOMAIN d.books
    PROVE  d.books[b] \in BookRows /\ b \in Nat
<1>1. d.books \in Seq(BookRows)
  BY DEF ShopTables
<1> QED BY <1>1, LenProperties, ElementOfSeq

LEMMA BookWritten ==
    ASSUME NEW d, Sound(d), NEW b, NEW row, b \in DOMAIN d.books => row \in BookRows,
           NEW e, Elsewhere(d, e, {"books"}), e.books = [d.books EXCEPT ![b] = row]
    PROVE  Fine(d, e)
<1>1. d.books \in Seq(BookRows) /\ e.feeBps = d.feeBps
  BY DEF Sound, ShopTables, Elsewhere, Tables
<1>2. \A c \in DOMAIN d.books : e.books[c] \in BookRows
  BY BookRow DEF Sound
<1>3. e.books \in Seq(BookRows)
  BY <1>1, <1>2, BooksType
<1>4. Elsewhere(d, e, {"books", "feeBps"})
  BY DEF Elsewhere
<1> QED BY <1>1, <1>3, <1>4, ShopFine DEF ShopTables, Sound

LEMMA BookToFine ==
    ASSUME NEW d, Sound(d), NEW b, NEW from, NEW to \in AnyBook,
           NEW e, e = BookTo(d, b, from, to)
    PROVE  Fine(d, e)
<1>1. CASE e = d
  BY <1>1 DEF Fine
<1>2. CASE e = [d EXCEPT !.books[b].status = to]
  <2>1. PICK row : row = [d.books[b] EXCEPT !.status = to]
    OBVIOUS
  <2>2. e.books = [d.books EXCEPT ![b] = row] /\ Elsewhere(d, e, {"books"})
    BY <1>2, <2>1 DEF Elsewhere, Sound, Tables
  <2>3. b \in DOMAIN d.books => row \in BookRows
    BY <2>1, BookRow DEF Sound, BookRows
  <2> QED BY <2>2, <2>3, BookWritten
<1> QED BY <1>1, <1>2 DEF BookTo
-----------------------------------------------------------------------------
(* rollbackCredit: a fold over the rows to give back *)

\* One row is given back.
Returned(d, u, p, i, e) ==
    [CreditDelta(e, u, -d.credit[i].delta, "rollback", p) EXCEPT !.credit[i].rolledBack = TRUE]

\* g is the recursive function behind the fold, on the subsets of S.
Returns(g, d, u, p, S) ==
    g = [T \in SUBSET S |->
           IF T = {} THEN d ELSE Returned(d, u, p, Pick(T), g[T \ {Pick(T)}])]

LEMMA ReturnsOnce ==
    ASSUME NEW S, IsFiniteSet(S), NEW d, NEW u, NEW p, NEW A, NEW B, S \subseteq A, S \subseteq B,
           NEW g, Returns(g, d, u, p, A), NEW h, Returns(h, d, u, p, B)
    PROVE  g[S] = h[S]
<1> DEFINE Differ == {T \in SUBSET S : g[T] # h[T]}
<1> SUFFICES ASSUME Differ # {} PROVE FALSE
    OBVIOUS
<1>0. Differ \subseteq SUBSET S
    OBVIOUS
<1>1. PICK T \in Differ : \A U \in Differ : U \subseteq T => U = T
  <2> HIDE DEF Differ
  <2> QED BY <1>0, SmallestSubset
<1>2. /\ g[T] = IF T = {} THEN d ELSE Returned(d, u, p, Pick(T), g[T \ {Pick(T)}])
      /\ h[T] = IF T = {} THEN d ELSE Returned(d, u, p, Pick(T), h[T \ {Pick(T)}])
  <2>1. T \in SUBSET A /\ T \in SUBSET B
    OBVIOUS
  <2> QED BY <2>1 DEF Returns
<1>3. T # {}
    BY <1>2
<1>4. T \ {Pick(T)} \notin Differ
    BY <1>1, <1>3, PickIn
<1> QED BY <1>2, <1>3, <1>4

LEMMA ReturnsSomehow ==
    ASSUME NEW S, IsFiniteSet(S), NEW d, NEW u, NEW p
    PROVE  \E g : Returns(g, d, u, p, S)
<1> DEFINE Good(T) == \E g : Returns(g, d, u, p, T)
           Bad == {T \in SUBSET S : ~Good(T)}
<1> SUFFICES ASSUME Bad # {} PROVE FALSE
    OBVIOUS
<1>0. Bad \subseteq SUBSET S
    OBVIOUS
<1>1. PICK T \in Bad : \A U \in Bad : U \subseteq T => U = T
  <2> HIDE DEF Bad
  <2> QED BY <1>0, SmallestSubset
<1> DEFINE G(U) == CHOOSE g : Returns(g, d, u, p, U)
           V(U) == IF U = {} THEN d
                   ELSE Returned(d, u, p, Pick(U), G(U \ {Pick(U)})[U \ {Pick(U)}])
           v == [U \in SUBSET T |-> V(U)]
<1>2. ASSUME NEW U \in SUBSET T, U # T PROVE Returns(G(U), d, u, p, U)
    BY <1>1, <1>2
<1>3. ASSUME NEW U \in SUBSET T, U # {}
      PROVE  v[U \ {Pick(U)}] = G(U \ {Pick(U)})[U \ {Pick(U)}]
  <2> DEFINE W == U \ {Pick(U)}
  <2>1. W \in SUBSET T /\ W # T
    BY <1>3, PickIn
  <2>2. Returns(G(W), d, u, p, W)
    BY <1>2, <2>1
  <2>3. G(W)[W] = IF W = {} THEN d ELSE Returned(d, u, p, Pick(W), G(W)[W \ {Pick(W)}])
    <3> HIDE DEF G, W
    <3> QED BY <2>2 DEF Returns
  <2>4. v[W] = V(W)
    BY <2>1
  <2>5. CASE W = {}
    BY <2>3, <2>4, <2>5
  <2>6. CASE W # {}
    <3> DEFINE X == W \ {Pick(W)}
    <3>1. X \in SUBSET T /\ X # T /\ X \subseteq W
      BY <2>1, <2>6, PickIn
    <3>2. Returns(G(X), d, u, p, X) /\ IsFiniteSet(X)
      BY <1>2, <3>1, FS_Subset
    <3>3. G(X)[X] = G(W)[X]
      <4> HIDE DEF G, X, W
      <4> QED BY <2>2, <3>1, <3>2, ReturnsOnce
    <3> QED BY <2>3, <2>4, <2>6, <3>3
  <2> QED BY <2>5, <2>6
<1>4. Returns(v, d, u, p, T)
  <2>1. ASSUME NEW U \in SUBSET T
        PROVE  V(U) = IF U = {} THEN d ELSE Returned(d, u, p, Pick(U), v[U \ {Pick(U)}])
    <3>1. CASE U = {}
      BY <3>1
    <3>2. CASE U # {}
      <4>1. v[U \ {Pick(U)}] = G(U \ {Pick(U)})[U \ {Pick(U)}]
        BY <1>3, <3>2
      <4> HIDE DEF v, G
      <4> QED BY <3>2, <4>1
    <3> QED BY <3>1, <3>2
  <2> HIDE DEF V
  <2> QED BY <2>1 DEF Returns
<1> QED BY <1>4

\* The rows of penalty p that are still to be given back.
Taken(d, u, p) ==
    {i \in DOMAIN d.credit : /\ d.credit[i].user = u /\ d.credit[i].ref = p
                             /\ d.credit[i].key = "report_light"
                             /\ d.credit[i].delta < 0 /\ ~d.credit[i].rolledBack}

LEMMA RollbackIsFold ==
    ASSUME NEW d, NEW u, NEW p, IsFiniteSet(Taken(d, u, p))
    PROVE  \E g : Returns(g, d, u, p, Taken(d, u, p)) /\ RollbackCredit(d, u, p) = g[Taken(d, u, p)]
<1> DEFINE S == Taken(d, u, p)
           g == CHOOSE g : Returns(g, d, u, p, S)
<1>1. RollbackCredit(d, u, p) = g[S]
    BY DEF RollbackCredit, FoldSet, MapThenFoldSet, Returns, Returned, Pick, Taken
<1>2. Returns(g, d, u, p, S)
    BY ReturnsSomehow
<1> QED BY <1>1, <1>2

LEMMA ReturnedStep ==
    ASSUME NEW d, NEW u, NEW p, NEW i,
           NEW e, Tables \subseteq DOMAIN e, PeopleSound(e),
           NEW f, f = Returned(d, u, p, i, e)
    PROVE  PeopleStep(e, f)
<1>0. PICK c : /\ c = CreditDelta(e, u, -d.credit[i].delta, "rollback", p)
               /\ f = [c EXCEPT !.credit[i].rolledBack = TRUE]
  BY DEF Returned
<1>1. PeopleStep(e, c)
  BY <1>0, CreditStep
<1>2. Tables \subseteq DOMAIN c /\ PeopleSound(c)
  BY <1>1 DEF PeopleStep, Elsewhere
<1>3. Elsewhere(c, f, {"credit"}) /\ f.user = c.user /\ f.penalty = c.penalty
  BY <1>0, <1>2 DEF Elsewhere, Tables
<1>4. f.credit \in Seq(Range(f.credit))
  <2>1. ASSUME NEW q, NEW r, q = c.credit, r = f.credit PROVE r \in Seq(Range(r))
    <3>1. q \in Seq(Range(q))
      BY <1>2, <2>1 DEF PeopleSound, PeopleTables
    <3>2. r = [q EXCEPT ![i].rolledBack = TRUE]
      BY <1>0, <1>2, <2>1 DEF Tables
    <3>3. DOMAIN r = DOMAIN q /\ r = [j \in DOMAIN r |-> r[j]]
      BY <3>2
    <3> QED BY <3>1, <3>3, RowChanged
  <2> QED BY <2>1
<1>5. PeopleSound(f)
  BY <1>2, <1>3, <1>4 DEF PeopleSound, PeopleTables, BansHaveRows, Standing
<1> QED BY <1>1, <1>3, <1>5 DEF PeopleStep, Elsewhere, People

LEMMA RollbackStep ==
    ASSUME NEW d, Tables \subseteq DOMAIN d, PeopleSound(d), NEW u, NEW p,
           NEW e, e = RollbackCredit(d, u, p)
    PROVE  PeopleStep(d, e)
<1> DEFINE S == Taken(d, u, p)
<1>1. IsFiniteSet(S)
  <2>1. ASSUME NEW q, q = d.credit PROVE IsFiniteSet(DOMAIN q)
    <3>1. q \in Seq(Range(q))
      BY <2>1 DEF PeopleSound, PeopleTables
    <3>2. Len(q) \in Nat /\ DOMAIN q = 1..Len(q)
      BY <3>1, LenProperties
    <3> QED BY <3>2, FS_Interval
  <2>2. S \subseteq DOMAIN d.credit
    BY DEF Taken
  <2> QED BY <2>1, <2>2, FS_Subset
<1>2. PICK g : Returns(g, d, u, p, S) /\ e = g[S]
  BY <1>1, RollbackIsFold
<1> HIDE DEF S
<1> DEFINE Bad == {T \in SUBSET S : ~PeopleStep(d, g[T])}
<1> SUFFICES ASSUME Bad # {} PROVE FALSE
  BY <1>2
<1>3. Bad \subseteq SUBSET S
  OBVIOUS
<1>4. PICK T \in Bad : \A U \in Bad : U \subseteq T => U = T
  <2> HIDE DEF Bad
  <2> QED BY <1>1, <1>3, SmallestSubset
<1>5. g[T] = IF T = {} THEN d ELSE Returned(d, u, p, Pick(T), g[T \ {Pick(T)}])
  BY <1>2 DEF Returns
<1>6. T # {}
  BY <1>5 DEF PeopleStep, Elsewhere
<1>7. PeopleStep(d, g[T \ {Pick(T)}])
  BY <1>4, <1>6, PickIn
<1>8. Tables \subseteq DOMAIN g[T \ {Pick(T)}] /\ PeopleSound(g[T \ {Pick(T)}])
  BY <1>7 DEF PeopleStep, Elsewhere
<1>9. PeopleStep(g[T \ {Pick(T)}], g[T])
  BY <1>5, <1>6, <1>8, ReturnedStep
<1>10. PeopleStep(d, g[T])
  BY <1>7, <1>9, PeopleStepAgain
<1> QED BY <1>10
-----------------------------------------------------------------------------
(* Penalties lifted: revokePenalty and the unban route *)

\* Switches go off, and no penalty is revoked but of the same user and of their types.
Lifts(d, e, u, types) ==
    /\ Elsewhere(d, e, {"user", "penalty"})
    /\ e.user = [d.user EXCEPT ![u] = Lifted(d.user[u], types)]
    /\ DOMAIN e.penalty = DOMAIN d.penalty
    /\ e.penalty = [j \in DOMAIN e.penalty |-> e.penalty[j]]
    /\ \A j \in DOMAIN d.penalty :
         /\ DOMAIN e.penalty[j] = DOMAIN d.penalty[j]
         /\ e.penalty[j].user = d.penalty[j].user
         /\ e.penalty[j].type = d.penalty[j].type
         /\ \/ e.penalty[j].status = d.penalty[j].status
            \/ /\ d.penalty[j].user = u
               /\ \/ d.penalty[j].type \in types
                  \/ Switches \cup {"permanent_ban"} \subseteq types

LEMMA LiftStep ==
    ASSUME NEW d, Tables \subseteq DOMAIN d, PeopleSound(d), NEW u, NEW types,
           NEW e, Lifts(d, e, u, types)
    PROVE  PeopleStep(d, e)
<1>L. /\ Elsewhere(d, e, {"user", "penalty"})
      /\ e.user = [d.user EXCEPT ![u] = Lifted(d.user[u], types)]
      /\ DOMAIN e.penalty = DOMAIN d.penalty
      /\ e.penalty = [j \in DOMAIN e.penalty |-> e.penalty[j]]
      /\ \A j \in DOMAIN d.penalty :
           /\ DOMAIN e.penalty[j] = DOMAIN d.penalty[j]
           /\ e.penalty[j].user = d.penalty[j].user
           /\ e.penalty[j].type = d.penalty[j].type
           /\ \/ e.penalty[j].status = d.penalty[j].status
              \/ /\ d.penalty[j].user = u
                 /\ \/ d.penalty[j].type \in types
                    \/ Switches \cup {"permanent_ban"} \subseteq types
  BY DEF Lifts
<1> USE <1>L
<1>0. e.credit = d.credit
  BY DEF Elsewhere, Tables
<1>1. ASSUME NEW v \in Users
      PROVE  /\ DOMAIN e.user[v] = DOMAIN d.user[v]
             /\ e.user[v].permanent \in BOOLEAN
             /\ \A k \in SwitchedOn(e.user[v]) :
                   k \in SwitchedOn(d.user[v]) /\ (v = u => k \notin types)
  <2>1. v \in DOMAIN d.user /\ Fields \subseteq DOMAIN d.user[v] /\ d.user[v].permanent \in BOOLEAN
    BY DEF PeopleSound, PeopleTables, Fields
  <2>2. e.user[v] = IF v = u THEN Lifted(d.user[v], types) ELSE d.user[v]
    BY <2>1
  <2>3. CASE v # u
    BY <2>1, <2>2, <2>3
  <2>4. CASE v = u
    <3>1. /\ DOMAIN e.user[v] = DOMAIN d.user[v]
          /\ e.user[v].permanent = (d.user[v].permanent /\ "permanent_ban" \notin types)
          /\ e.user[v].mute = IF "mute" \in types THEN 0 ELSE d.user[v].mute
          /\ e.user[v].trade_ban = IF "trade_ban" \in types THEN 0 ELSE d.user[v].trade_ban
          /\ e.user[v].login_ban = IF "login_ban" \in types THEN 0 ELSE d.user[v].login_ban
      BY <2>1, <2>2, <2>4 DEF Lifted, Fields, Switches
    <3>2. \A k \in SwitchedOn(e.user[v]) : k \in SwitchedOn(d.user[v]) /\ k \notin types
      BY <3>1 DEF SwitchedOn, Switches
    <3> QED BY <2>1, <3>1, <3>2
  <2> QED BY <2>3, <2>4
<1>2. e.penalty \in Seq(Range(e.penalty))
  <2>1. ASSUME NEW q, NEW r, q = d.penalty, r = e.penalty PROVE r \in Seq(Range(r))
    <3>1. q \in Seq(Range(q)) /\ DOMAIN r = DOMAIN q /\ r = [j \in DOMAIN r |-> r[j]]
      BY <2>1 DEF PeopleSound, PeopleTables
    <3> QED BY <3>1, RowChanged
  <2> QED BY <2>1
<1>3. \A row \in Range(e.penalty) : {"user", "type", "status"} \subseteq DOMAIN row
  BY DEF PeopleSound, PeopleTables, Range
<1>4. PeopleTables(e)
  BY <1>0, <1>1, <1>2, <1>3 DEF PeopleSound, PeopleTables
<1>5. BansHaveRows(e)
  <2> SUFFICES ASSUME NEW v \in Users, NEW k \in SwitchedOn(e.user[v])
               PROVE  \E p \in Standing(e, v) : e.penalty[p].type = k
    BY DEF BansHaveRows
  <2>1. k \in SwitchedOn(d.user[v]) /\ (v = u => k \notin types)
    BY <1>1
  <2>2. PICK p \in Standing(d, v) : d.penalty[p].type = k
    BY <2>1 DEF PeopleSound, BansHaveRows
  <2>3. k \in Switches \cup {"permanent_ban"}
    BY DEF SwitchedOn
  <2>4. e.penalty[p].status = d.penalty[p].status
    BY <2>1, <2>2, <2>3 DEF Standing
  <2> QED BY <2>2, <2>4 DEF Standing
<1> QED BY <1>4, <1>5 DEF PeopleStep, PeopleSound, Elsewhere, People

LEMMA RevokeStep ==
    ASSUME NEW d, Tables \subseteq DOMAIN d, PeopleSound(d), NEW p,
           NEW e, e = RevokePenalty(d, p)
    PROVE  PeopleStep(d, e)
<1>1. CASE d.penalty[p].status = "revoked"
  BY <1>1 DEF RevokePenalty, PeopleStep, Elsewhere
<1>2. CASE d.penalty[p].status # "revoked"
  <2>0. PICK row, f :
          /\ row = d.penalty[p]
          /\ f = [d EXCEPT !.penalty[p].status = "revoked",
                           !.user[row.user] = Lifted(@, {row.type})]
          /\ e = RollbackCredit(f, row.user, p)
    BY <1>2, Zenon DEF RevokePenalty
  <2>1. /\ f.user = [d.user EXCEPT ![row.user] = Lifted(d.user[row.user], {row.type})]
        /\ f.penalty = [d.penalty EXCEPT ![p].status = "revoked"]
        /\ Elsewhere(d, f, {"user", "penalty"})
    BY <2>0 DEF Elsewhere, Tables
  <2>2. /\ DOMAIN f.penalty = DOMAIN d.penalty
        /\ f.penalty = [j \in DOMAIN f.penalty |-> f.penalty[j]]
        /\ \A j \in DOMAIN d.penalty :
              f.penalty[j] = IF j = p THEN [d.penalty[j] EXCEPT !.status = "revoked"]
                             ELSE d.penalty[j]
    BY <2>1
  <2>3. PeopleStep(d, f)
    <3>1. \A j \in DOMAIN d.penalty :
             /\ DOMAIN f.penalty[j] = DOMAIN d.penalty[j]
             /\ f.penalty[j].user = d.penalty[j].user
             /\ f.penalty[j].type = d.penalty[j].type
             /\ \/ f.penalty[j].status = d.penalty[j].status
                \/ d.penalty[j].user = row.user /\ d.penalty[j].type \in {row.type}
      <4>1. \A j \in DOMAIN d.penalty : {"user", "type", "status"} \subseteq DOMAIN d.penalty[j]
        BY DEF PeopleSound, PeopleTables, Range
      <4> QED BY <2>0, <2>2, <4>1
    <3>2. Lifts(d, f, row.user, {row.type})
      BY <2>1, <2>2, <3>1 DEF Lifts
    <3> QED BY <3>2, LiftStep
  <2>4. Tables \subseteq DOMAIN f /\ PeopleSound(f)
    BY <2>3 DEF PeopleStep, Elsewhere
  <2>5. PeopleStep(f, e)
    BY <2>0, <2>4, RollbackStep
  <2> QED BY <2>3, <2>5, PeopleStepAgain
<1> QED BY <1>1, <1>2

\* What the unban route makes of the tables.
Unbanned(d, u, type) ==
    LET lifted == IF type = "all" THEN {"mute", "trade_ban", "login_ban", "permanent_ban"} ELSE {type}
    IN  [d EXCEPT
           !.user[u] = Lifted(@, lifted),
           !.penalty = [p \in DOMAIN @ |->
               IF @[p].user = u /\ @[p].status = "active" /\ (type = "all" \/ @[p].type = type)
               THEN [@[p] EXCEPT !.status = "revoked"] ELSE @[p]]]

LEMMA UnbanStep ==
    ASSUME NEW d, Tables \subseteq DOMAIN d, PeopleSound(d), NEW u, NEW type,
           NEW e, e = Unbanned(d, u, type)
    PROVE  PeopleStep(d, e)
<1>0. PICK lifted, rows :
        /\ lifted = (IF type = "all" THEN {"mute", "trade_ban", "login_ban", "permanent_ban"} ELSE {type})
        /\ rows = [p \in DOMAIN d.penalty |->
             IF d.penalty[p].user = u /\ d.penalty[p].status = "active"
                /\ (type = "all" \/ d.penalty[p].type = type)
             THEN [d.penalty[p] EXCEPT !.status = "revoked"] ELSE d.penalty[p]]
        /\ e = [d EXCEPT !.user[u] = Lifted(@, lifted), !.penalty = rows]
  BY DEF Unbanned, Tables
<1>1. /\ e.user = [d.user EXCEPT ![u] = Lifted(d.user[u], lifted)]
      /\ e.penalty = rows
      /\ Elsewhere(d, e, {"user", "penalty"})
  BY <1>0 DEF Elsewhere, Tables
<1>2. \A j \in DOMAIN d.penalty : {"user", "type", "status"} \subseteq DOMAIN d.penalty[j]
  BY DEF PeopleSound, PeopleTables, Range
<1>3. ASSUME NEW j \in DOMAIN d.penalty
      PROVE  /\ DOMAIN e.penalty[j] = DOMAIN d.penalty[j]
             /\ e.penalty[j].user = d.penalty[j].user
             /\ e.penalty[j].type = d.penalty[j].type
             /\ \/ e.penalty[j].status = d.penalty[j].status
                \/ /\ d.penalty[j].user = u
                   /\ \/ d.penalty[j].type \in lifted
                      \/ Switches \cup {"permanent_ban"} \subseteq lifted
  <2>1. \/ e.penalty[j] = d.penalty[j]
        \/ /\ d.penalty[j].user = u /\ (type = "all" \/ d.penalty[j].type = type)
           /\ e.penalty[j] = [d.penalty[j] EXCEPT !.status = "revoked"]
    BY <1>0, <1>1
  <2>2. type # "all" => lifted = {type}
    BY <1>0
  <2>3. type = "all" => Switches \cup {"permanent_ban"} \subseteq lifted
    BY <1>0 DEF Switches
  <2> QED BY <1>2, <2>1, <2>2, <2>3
<1>4. DOMAIN e.penalty = DOMAIN d.penalty /\ e.penalty = [j \in DOMAIN e.penalty |-> e.penalty[j]]
  BY <1>0, <1>1
<1>5. Lifts(d, e, u, lifted)
  BY <1>1, <1>3, <1>4 DEF Lifts
<1> QED BY <1>5, LiftStep

\* A valid report: a penalty, named or of the ladder, and what it costs.
LEMMA PunishedStep ==
    ASSUME NEW d, Tables \subseteq DOMAIN d, PeopleSound(d), NEW u,
           NEW named \in PenaltyTypes \cup {"ladder"}, NEW severity,
           NEW e, e = Punished(d, u, named, severity)
    PROVE  PeopleStep(d, e)
<1>0. PICK count, step, f :
        /\ count = Cardinality(Standing(d, u)) + 1
        /\ step = (IF named = "ladder" THEN Step(count, severity)
                   ELSE [type |-> named, days |-> 1, delta |-> 0])
        /\ f = ApplyPenalty(d, u, step.type, step.days, count)
        /\ e = IF step.delta = 0 THEN f
               ELSE CreditDelta(f, u, step.delta, "report_light", Len(f.penalty))
  BY Zenon DEF Punished
<1>1. count \in Nat \ {0}
  <2>1. ASSUME NEW q, q = d.penalty PROVE IsFiniteSet(DOMAIN q)
    <3>1. q \in Seq(Range(q))
      BY <2>1 DEF PeopleSound, PeopleTables
    <3>2. Len(q) \in Nat /\ DOMAIN q = 1..Len(q)
      BY <3>1, LenProperties
    <3> QED BY <3>2, FS_Interval
  <2>2. IsFiniteSet(Standing(d, u))
    BY <2>1, FS_Subset DEF Standing
  <2>3. Cardinality(Standing(d, u)) \in Nat
    BY <2>2, FS_CardinalityType
  <2> QED BY <1>0, <2>3
<1>2. step.type \in PenaltyTypes
  <2>1. CASE named = "ladder"
    <3>1. Len(Ladder) \in Nat /\ Len(Ladder) > 0
      BY LadderAssumption, EmptySeq, LenProperties
    <3>2. ASSUME NEW i \in 1..Len(Ladder) PROVE Ladder[i].type \in PenaltyTypes
      <4>1. PICK S : S = [type : PenaltyTypes, days : Nat, delta : Int]
        OBVIOUS
      <4>2. Ladder[i] \in S
        BY <4>1, LadderAssumption, ElementOfSeq
      <4> QED BY <4>1, <4>2
    <3> QED BY <1>0, <1>1, <2>1, <3>1, <3>2 DEF Step
  <2>2. CASE named # "ladder"
    BY <1>0, <2>2
  <2> QED BY <2>1, <2>2
<1>3. PeopleStep(d, f)
  BY <1>0, <1>2, PenaltyStep
<1>4. Tables \subseteq DOMAIN f /\ PeopleSound(f)
  BY <1>3 DEF PeopleStep, Elsewhere
<1>5. e = f \/ PeopleStep(f, e)
  BY <1>0, <1>4, CreditStep
<1> QED BY <1>3, <1>5, PeopleStepAgain
-----------------------------------------------------------------------------
(* Orders on their way *)

\* No way leads to a status after the payment but from another one, save the payment.
LEMMA WaysAfterPayment ==
    ASSUME NEW s \in DOMAIN Machine, NEW to \in Machine[s]
    PROVE  /\ to \in DOMAIN Machine
           /\ to \in PaidOut \cup GaveBack \cup (Held \ {"paid"}) => s \in Held
           /\ to = "paid" => s \in {"pending_payment", "refund_requested"}
BY DEF Machine, Held, PaidOut, GaveBack

\* A status of the payment and before the end asks for the payment alone.
LEMMA MoveRows ==
    ASSUME NEW d, Sound(d), NEW o \in DOMAIN d.orders, NEW to \in Held \cup {"cancelled"},
           CanMove(d, o, to), to = "paid" => d.orders[o].status # "pending_payment"
    PROVE  to \in DOMAIN Machine /\ Agree(d.keys, d.strays, o, to)
<1>0. PICK s : s = d.orders[o].status
  OBVIOUS
<1>1. s \in DOMAIN Machine /\ to \in Machine[s]
  BY <1>0, OrderTypes DEF Sound, CanMove
<1>2. to \in DOMAIN Machine
  BY <1>1, WaysAfterPayment
<1>3. to \in Held => s \in Held
  BY <1>0, <1>1, WaysAfterPayment DEF Held
<1>4. to = "cancelled" => s = "pending_payment"
  BY <1>1 DEF Machine
<1>5. /\ to \notin PaidOut \cup GaveBack /\ s \notin PaidOut \cup GaveBack
      /\ to = "cancelled" => s \notin Held /\ to \notin Held
  BY <1>3, <1>4 DEF Held, PaidOut, GaveBack
<1>6. Agree(d.keys, d.strays, o, s)
  BY <1>0, AgreeNow
<1> QED BY <1>2, <1>3, <1>5, <1>6 DEF Agree, RowsOfStatus, StatusOfRows

LEMMA MoveFine ==
    ASSUME NEW d, Sound(d), NEW o \in DOMAIN d.orders, NEW to \in DOMAIN Machine,
           Agree(d.keys, d.strays, o, to), NEW e, e = Moved(d, o, to)
    PROVE  Fine(d, e)
<1>1. PICK row : row = [d.orders[o] EXCEPT !.status = to]
  OBVIOUS
<1>2. e.orders = [d.orders EXCEPT ![o] = row] /\ Elsewhere(d, e, {"orders"})
  BY <1>1 DEF Moved, Elsewhere, Sound, Tables
<1>3. d.orders[o] \in OrderRows
  BY OrderTypes DEF Sound
<1>4. row \in OrderRows /\ row.status = to
  BY <1>1, <1>3 DEF OrderRows
<1> QED BY <1>2, <1>4, OrderFine

\* The money is settled, the status moves and the note on the escrow with it.
LEMMA SettledMoveFine ==
    ASSUME NEW d, Sound(d), NEW o \in DOMAIN d.orders, NEW G \in RowGroups,
           NEW f, Settles(d, f, o, G), NEW to \in DOMAIN Machine,
           Agree(f.keys, d.strays, o, to), NEW x \in {"none", "held", "released", "refunded"},
           NEW e, e = [Moved(f, o, to) EXCEPT !.orders[o].escrow = x]
    PROVE  Fine(d, e)
<1>1. /\ MoneyTables(f) /\ MoneyAddsUp(f) /\ RowsTogether(f)
      /\ f.orders = d.orders /\ f.strays = d.strays /\ d.keys \subseteq f.keys
      /\ OthersKeep(d, f, o)
  BY SettlesSound DEF Sound
<1>2. Elsewhere(d, f, {"balance", "frozen", "keys"}) /\ Tables \subseteq DOMAIN f
  BY DEF Settles, Elsewhere, Sound
<1>3. PICK row : row = [f.orders[o] EXCEPT !.status = to, !.escrow = x]
  OBVIOUS
<1>4. e.orders = [f.orders EXCEPT ![o] = row] /\ Elsewhere(f, e, {"orders"})
  BY <1>1, <1>2, <1>3 DEF Moved, Elsewhere, Tables
<1>5. f.orders[o] \in OrderRows
  BY <1>1, OrderTypes DEF Sound
<1>6. row \in OrderRows /\ row.status = to
  BY <1>3, <1>5 DEF OrderRows
<1>7. /\ e.balance = f.balance /\ e.frozen = f.frozen /\ e.recharged = f.recharged
      /\ e.keys = f.keys /\ e.strays = d.strays
  BY <1>1, <1>2, <1>4 DEF Elsewhere, Tables
<1>8. /\ e.orders \in Seq(OrderRows) /\ DOMAIN e.orders = DOMAIN d.orders
      /\ StatusHasRows(e)
  <2>1. e.orders = [d.orders EXCEPT ![o] = row] /\ d.keys \subseteq e.keys
        /\ Agree(e.keys, e.strays, o, row.status)
        /\ OthersKeep(d, e, o)
    BY <1>1, <1>4, <1>6, <1>7 DEF OthersKeep
  <2> QED BY <1>6, <1>7, <2>1, OrderWritten
<1>9. MoneyTables(e)
  BY <1>1, <1>7, <1>8 DEF MoneyTables
<1>10. MoneySound(e)
  BY <1>1, <1>7, <1>8, <1>9 DEF MoneySound, RowsTogether, MoneyAddsUp
<1>11. Elsewhere(d, e, Purse)
  BY <1>2, <1>4 DEF Elsewhere, Purse
<1> QED BY <1>10, <1>11, MoneyFine

\* The rows of a group are there after it is posted, and no others came.
LEMMA RowsCame ==
    ASSUME NEW d, NEW f, NEW o, NEW G, Settles(d, f, o, G), NEW rows
    PROVE  /\ HasRow(d.keys, o, rows) => HasRow(f.keys, o, rows)
           /\ rows \cap G # {} => HasRow(f.keys, o, rows)
           /\ rows \cap G = {} /\ HasRow(f.keys \ d.strays, o, rows)
                => HasRow(d.keys \ d.strays, o, rows)
<1>1. f.keys = d.keys \cup {<<o, n>> : n \in G}
  BY DEF Settles
<1> QED BY <1>1 DEF HasRow

\* The rows of a payment, of one paid out and of one given back ask for the status they get.
LEMMA SettledAgree ==
    ASSUME NEW d, Sound(d), NEW o \in DOMAIN d.orders, NEW f,
           NEW s, s = d.orders[o].status, NEW to
    PROVE  /\ Settles(d, f, o, {"pay:balance", "pay:frozen"})
                /\ s \notin PaidOut \cup GaveBack /\ to = "paid"
              => Agree(f.keys, d.strays, o, to)
           /\ Settles(d, f, o, {"release:buyer-frozen", "release:seller", "release:fee"})
                /\ s \in Held /\ to \in PaidOut
              => Agree(f.keys, d.strays, o, to)
           /\ Settles(d, f, o, {"refund:frozen", "refund:balance"})
                /\ s \in Held /\ to \in GaveBack
              => Agree(f.keys, d.strays, o, to)
<1>0. /\ RowsOfStatus(d.keys, o, s) /\ StatusOfRows(d.keys \ d.strays, o, s)
      /\ s \in Held => s \notin PaidOut \cup GaveBack
      /\ to \in PaidOut => to \notin GaveBack \cup Held
      /\ to \in GaveBack => to \notin PaidOut \cup Held
      /\ to = "paid" => to \in Held /\ to \notin PaidOut \cup GaveBack
  BY AgreeNow DEF Agree, Held, PaidOut, GaveBack
<1>1. ASSUME NEW G, Settles(d, f, o, G)
      PROVE  \A rows :
               /\ HasRow(d.keys, o, rows) => HasRow(f.keys, o, rows)
               /\ rows \cap G # {} => HasRow(f.keys, o, rows)
               /\ rows \cap G = {} /\ HasRow(f.keys \ d.strays, o, rows)
                    => HasRow(d.keys \ d.strays, o, rows)
  BY <1>1, RowsCame
<1>2. PICK hold, release, back :
        /\ hold = {"pay:balance", "pay:frozen"}
        /\ release = {"release:buyer-frozen", "release:seller", "release:fee"}
        /\ back = {"refund:frozen", "refund:balance"}
  OBVIOUS
<1>3. /\ HoldRows \cap hold # {} /\ SettleRows \cap hold = {} /\ BackRows \cap hold = {}
      /\ SettleRows \cap release # {} /\ BackRows \cap release = {}
      /\ BackRows \cap back # {} /\ SettleRows \cap back = {}
  BY <1>2 DEF HoldRows, SettleRows, BackRows
<1>4. ASSUME Settles(d, f, o, hold), s \notin PaidOut \cup GaveBack, to = "paid"
      PROVE  Agree(f.keys, d.strays, o, to)
  <2>1. HasRow(f.keys, o, HoldRows)
    BY <1>1, <1>3, <1>4
  <2>2. ~HasRow(d.keys \ d.strays, o, SettleRows) /\ ~HasRow(d.keys \ d.strays, o, BackRows)
    BY <1>0, <1>4 DEF StatusOfRows
  <2>3. ~HasRow(f.keys \ d.strays, o, SettleRows) /\ ~HasRow(f.keys \ d.strays, o, BackRows)
    BY <1>1, <1>3, <1>4, <2>2
  <2> QED BY <1>0, <1>4, <2>1, <2>3 DEF Agree, RowsOfStatus, StatusOfRows
<1>5. ASSUME Settles(d, f, o, release), s \in Held, to \in PaidOut
      PROVE  Agree(f.keys, d.strays, o, to)
  <2>1. HasRow(d.keys, o, HoldRows) /\ ~HasRow(d.keys \ d.strays, o, BackRows)
    BY <1>0, <1>5 DEF RowsOfStatus, StatusOfRows
  <2>2. HasRow(f.keys, o, HoldRows) /\ HasRow(f.keys, o, SettleRows)
    BY <1>1, <1>3, <1>5, <2>1
  <2>3. ~HasRow(f.keys \ d.strays, o, BackRows)
    BY <1>1, <1>3, <1>5, <2>1
  <2> QED BY <1>0, <1>5, <2>2, <2>3 DEF Agree, RowsOfStatus, StatusOfRows
<1>6. ASSUME Settles(d, f, o, back), s \in Held, to \in GaveBack
      PROVE  Agree(f.keys, d.strays, o, to)
  <2>1. HasRow(d.keys, o, HoldRows) /\ ~HasRow(d.keys \ d.strays, o, SettleRows)
    BY <1>0, <1>6 DEF RowsOfStatus, StatusOfRows
  <2>2. HasRow(f.keys, o, HoldRows) /\ HasRow(f.keys, o, BackRows)
    BY <1>1, <1>3, <1>6, <2>1
  <2>3. ~HasRow(f.keys \ d.strays, o, SettleRows)
    BY <1>1, <1>3, <1>6, <2>1
  <2> QED BY <1>0, <1>6, <2>2, <2>3 DEF Agree, RowsOfStatus, StatusOfRows
<1>7. Settles(d, f, o, hold) /\ s \notin PaidOut \cup GaveBack /\ to = "paid"
        => Agree(f.keys, d.strays, o, to)
  BY <1>4
<1>8. Settles(d, f, o, release) /\ s \in Held /\ to \in PaidOut
        => Agree(f.keys, d.strays, o, to)
  BY <1>5
<1>9. Settles(d, f, o, back) /\ s \in Held /\ to \in GaveBack
        => Agree(f.keys, d.strays, o, to)
  BY <1>6
<1> QED BY <1>2, <1>7, <1>8, <1>9
-----------------------------------------------------------------------------
(* The tabs and the storage *)

DemoInv ==
    /\ DOMAIN db = Tabs /\ DOMAIN saveTimer = Tabs
    /\ \A d \in Copies : Sound(d)
    /\ AnswersAreStored

\* A request was answered, or left something behind that was not.
Good(t) ==
    \/ \E e : Sound(e) /\ Answer(t, e)
    \/ \E e : Fine(db[t], e) /\ Keep(t, e)

LEMMA AnswerInv ==
    ASSUME DemoInv, NEW t \in Tabs, NEW e, Sound(e), Answer(t, e)
    PROVE  DemoInv'
<1>1. PICK f : f = [e EXCEPT !.writes = @ + 1]
  OBVIOUS
<1>2. Sound(f)
  <2>1. Elsewhere(e, f, {"writes"})
    BY <1>1 DEF Elsewhere, Sound, Tables
  <2>2. Tables \subseteq DOMAIN f
    BY <2>1 DEF Elsewhere, Sound
  <2>3. MoneySound(f) /\ PeopleSound(f) /\ ShopTables(f)
    BY <2>1, MoneyStays, PeopleStay, ShopStays DEF Sound
  <2> QED BY <2>2, <2>3 DEF Sound
<1>3. /\ db' = [db EXCEPT ![t] = f] /\ stored' = stored /\ lastSaver' = lastSaver
      /\ saveTimer' = [saveTimer EXCEPT ![t] = TRUE]
  BY <1>1 DEF Answer, Leaves
<1>4. \A d \in Copies' : Sound(d)
  BY <1>2, <1>3 DEF Copies, DemoInv
<1>5. AnswersAreStored'
  BY <1>3 DEF DemoInv, AnswersAreStored
<1> QED BY <1>3, <1>4, <1>5 DEF DemoInv

LEMMA KeepInv ==
    ASSUME DemoInv, NEW t \in Tabs, NEW e, Fine(db[t], e), Keep(t, e)
    PROVE  DemoInv'
<1>3. /\ db' = [db EXCEPT ![t] = e] /\ stored' = stored /\ lastSaver' = lastSaver
      /\ saveTimer' = saveTimer
  BY DEF Keep, Leaves
<1>4. \A d \in Copies' : Sound(d)
  BY <1>3 DEF Copies, DemoInv, Fine
<1>5. AnswersAreStored'
  BY <1>3 DEF DemoInv, AnswersAreStored, Fine
<1> QED BY <1>3, <1>4, <1>5 DEF DemoInv

LEMMA GoodInv ==
    ASSUME DemoInv, NEW t \in Tabs, Good(t)
    PROVE  DemoInv'
BY AnswerInv, KeepInv DEF Good

LEMMA SaveInv ==
    ASSUME DemoInv, NEW t \in Tabs, Save(t)
    PROVE  DemoInv'
<1>1. \A d \in Copies' : Sound(d)
  BY DEF Save, Copies, DemoInv
<1>2. AnswersAreStored'
  BY DEF Save, DemoInv, AnswersAreStored
<1> QED BY <1>1, <1>2 DEF DemoInv, Save

LEMMA ReloadInv ==
    ASSUME DemoInv, NEW t \in Tabs, Reload(t)
    PROVE  DemoInv'
<1>1. \A d \in Copies' : Sound(d)
  BY DEF Reload, Copies, DemoInv
<1>2. AnswersAreStored'
  BY DEF Reload, DemoInv, AnswersAreStored
<1> QED BY <1>1, <1>2 DEF DemoInv, Reload

LEMMA ResetInv ==
    ASSUME DemoInv, NEW t \in Tabs, ResetDemoData(t, Fresh)
    PROVE  DemoInv'
<1>1. \A d \in Copies' : Sound(d)
  BY FreshAssumption DEF ResetDemoData, Copies, DemoInv
<1>2. AnswersAreStored'
  BY DEF ResetDemoData, DemoInv, AnswersAreStored
<1> QED BY <1>1, <1>2 DEF DemoInv, ResetDemoData

LEMMA TabSound ==
    ASSUME DemoInv, NEW t \in Tabs
    PROVE  Sound(db[t])
BY DEF DemoInv, Copies
-----------------------------------------------------------------------------
(* One lemma for each request: books and orders *)

LEMMA CreateOrderGood ==
    ASSUME DemoInv, NEW t \in Tabs, NEW u \in Users, NEW b \in DOMAIN db[t].books,
           CreateOrder(t, u, b)
    PROVE  Good(t)
<1>a. PICK d, book, fee :
        /\ d = db[t] /\ book = d.books[b]
        /\ fee = (book.price * d.feeBps) \div 10000
  OBVIOUS
<1>b. PICK row :
        row = [book |-> b, buyer |-> u, seller |-> book.seller, amount |-> book.price,
               fee |-> fee, status |-> "pending_payment", escrow |-> "none"]
  OBVIOUS
<1>c. PICK f, e :
        /\ f = [d EXCEPT !.orders = Append(@, row)]
        /\ e = BookTo(f, b, {"on_sale"}, "locked")
  OBVIOUS
<1>d. Answer(t, e)
  <2>1. Answer(t, BookTo([db[t] EXCEPT !.orders = Append(@, [book |-> b, buyer |-> u,
              seller |-> db[t].books[b].seller, amount |-> db[t].books[b].price,
              fee |-> (db[t].books[b].price * db[t].feeBps) \div 10000,
              status |-> "pending_payment", escrow |-> "none"])], b, {"on_sale"}, "locked"))
    BY DEF CreateOrder
  <2> QED BY <1>a, <1>b, <1>c, <2>1
<1>1. Sound(d)
  BY <1>a, TabSound
<1>2. book \in BookRows /\ b \in Nat /\ d.feeBps \in Int
  BY <1>a, <1>1, BookRow DEF Sound, ShopTables
<1>3. fee \in Int
  <2>1. PICK n : n = book.price * d.feeBps
    OBVIOUS
  <2>2. n \in Int
    BY <1>2, <2>1 DEF BookRows
  <2>3. fee = n \div 10000
    BY <1>a, <2>1
  <2> QED BY <2>2, <2>3
<1>4. row \in OrderRows /\ row.status = "pending_payment"
  BY <1>b, <1>2, <1>3 DEF OrderRows, BookRows, Machine
<1>5. Elsewhere(d, f, {"orders"}) /\ f.orders = Append(d.orders, row)
  <2>1. f = [d EXCEPT !.orders = Append(@, row)] /\ Tables \subseteq DOMAIN d
    BY <1>c, <1>1 DEF Sound
  <2>2. Elsewhere(d, f, {"orders"})
    BY <2>1 DEF Elsewhere, Tables
  <2>3. f.orders = Append(d.orders, row)
    BY <2>1 DEF Tables
  <2> QED BY <2>2, <2>3
<1>6. Fine(d, f)
  BY <1>1, <1>4, <1>5, OrderPlacedFine
<1>7. Fine(f, e)
  <2>1. Sound(f) /\ "locked" \in AnyBook
    BY <1>6 DEF Fine, AnyBook
  <2> QED BY <1>c, <2>1, BookToFine
<1>8. Sound(e)
  BY <1>7 DEF Fine
<1> QED BY <1>d, <1>8 DEF Good

\* A move that settles nothing, with what else it does to other tables.
LEMMA MovedGood ==
    ASSUME DemoInv, NEW t \in Tabs, NEW o \in DOMAIN db[t].orders,
           NEW to \in Held \cup {"cancelled"}, CanMove(db[t], o, to),
           to = "paid" => db[t].orders[o].status # "pending_payment",
           NEW f, f = Moved(db[t], o, to)
    PROVE  Fine(db[t], f)
BY TabSound, MoveRows, MoveFine

LEMMA PayGood ==
    ASSUME DemoInv, NEW t \in Tabs, NEW u \in Users, NEW o \in DOMAIN db[t].orders,
           Pay(t, u, o)
    PROVE  Good(t)
<1>0. PICK d, f, e :
        /\ d = db[t] /\ f = EscrowHold(d, o)
        /\ e = [Moved(f, o, "paid") EXCEPT !.orders[o].escrow = "held"]
        /\ (CanMove(d, o, "paid") /\ Answer(t, e)) \/ Keep(t, Stranded(d, f))
  BY Zenon DEF Pay
<1>1. Sound(d)
  BY <1>0, TabSound
<1>2. PICK G : G = {"pay:balance", "pay:frozen"}
  OBVIOUS
<1>3. G \in RowGroups /\ Settles(d, f, o, G)
  BY <1>0, <1>1, <1>2, HoldSettles DEF RowGroups, Sound
<1>4. CASE Keep(t, Stranded(d, f))
  BY <1>0, <1>1, <1>3, <1>4, StrandedFine DEF Good
<1>5. CASE CanMove(d, o, "paid") /\ Answer(t, e)
  <2>1. d.orders[o].status \in DOMAIN Machine /\ "paid" \in Machine[d.orders[o].status]
    BY <1>0, <1>1, <1>5, OrderTypes DEF Sound, CanMove
  <2>2. "paid" \in DOMAIN Machine /\ d.orders[o].status \notin PaidOut \cup GaveBack
    BY <2>1 DEF Machine, PaidOut, GaveBack
  <2>3. Agree(f.keys, d.strays, o, "paid")
    BY <1>0, <1>1, <1>2, <1>3, <2>2, SettledAgree
  <2>4. Fine(d, e)
    BY <1>0, <1>1, <1>3, <2>2, <2>3, SettledMoveFine
  <2> QED BY <1>5, <2>4 DEF Good, Fine
<1> QED BY <1>0, <1>4, <1>5

LEMMA CancelGood ==
    ASSUME DemoInv, NEW t \in Tabs, NEW u \in Users, NEW o \in DOMAIN db[t].orders,
           Cancel(t, u, o)
    PROVE  Good(t)
<1>0. PICK f, b, e :
        /\ f = Moved(db[t], o, "cancelled") /\ b = db[t].orders[o].book
        /\ e = BookTo(f, b, {"locked"}, "on_sale") /\ Answer(t, e)
        /\ CanMove(db[t], o, "cancelled")
  BY Zenon DEF Cancel
<1>1. Fine(db[t], f)
  BY <1>0, MovedGood
<1>2. Fine(f, e)
  <2>1. Sound(f) /\ "on_sale" \in AnyBook
    BY <1>1 DEF Fine, AnyBook
  <2> QED BY <1>0, <2>1, BookToFine
<1> QED BY <1>0, <1>2 DEF Good, Fine

LEMMA ShipGood ==
    ASSUME DemoInv, NEW t \in Tabs, NEW u \in Users, NEW o \in DOMAIN db[t].orders,
           Ship(t, u, o)
    PROVE  Good(t)
<1>0. PICK f, e :
        /\ f = Moved(db[t], o, "shipped")
        /\ e = CreditDelta(f, u, ShipBonus, "ship_on_time", o) /\ Answer(t, e)
        /\ CanMove(db[t], o, "shipped")
  BY Zenon DEF Ship
<1>1. Fine(db[t], f)
  BY <1>0, MovedGood DEF Held
<1>2. Sound(f)
  BY <1>1 DEF Fine
<1>3. PeopleStep(f, e)
  BY <1>0, <1>2, CreditStep DEF Sound
<1> QED BY <1>0, <1>2, <1>3, PeopleFine DEF Good, Fine

LEMMA ConfirmGood ==
    ASSUME DemoInv, NEW t \in Tabs, NEW u \in Users, NEW o \in DOMAIN db[t].orders,
           Confirm(t, u, o)
    PROVE  Good(t)
<1>0. PICK d, b, f, g, e :
        /\ d = db[t] /\ b = d.orders[o].book /\ f = EscrowRelease(d, o)
        /\ g = [Moved(f, o, "completed") EXCEPT !.orders[o].escrow = "released"]
        /\ e = BookTo(g, b, {"locked", "on_sale"}, "sold")
        /\ (CanMove(d, o, "completed") /\ Answer(t, e)) \/ Keep(t, Stranded(d, f))
  BY Zenon DEF Confirm
<1>1. Sound(d)
  BY <1>0, TabSound
<1>2. PICK G : G = {"release:buyer-frozen", "release:seller", "release:fee"}
  OBVIOUS
<1>3. G \in RowGroups /\ Settles(d, f, o, G)
  BY <1>0, <1>1, <1>2, ReleaseSettles DEF RowGroups, Sound
<1>4. CASE Keep(t, Stranded(d, f))
  BY <1>0, <1>1, <1>3, <1>4, StrandedFine DEF Good
<1>5. CASE CanMove(d, o, "completed") /\ Answer(t, e)
  <2>1. d.orders[o].status \in DOMAIN Machine /\ "completed" \in Machine[d.orders[o].status]
    BY <1>0, <1>1, <1>5, OrderTypes DEF Sound, CanMove
  <2>2. "completed" \in DOMAIN Machine /\ d.orders[o].status \in Held
    BY <2>1, WaysAfterPayment DEF PaidOut
  <2>3. Agree(f.keys, d.strays, o, "completed")
    <3>1. "completed" \in PaidOut
      BY DEF PaidOut
    <3> QED BY <1>0, <1>1, <1>2, <1>3, <2>2, <3>1, SettledAgree
  <2>4. Fine(d, g)
    BY <1>0, <1>1, <1>3, <2>2, <2>3, SettledMoveFine
  <2>5. Fine(g, e)
    <3>1. Sound(g) /\ "sold" \in AnyBook /\ "on_sale" \in AnyBook
      BY <2>4 DEF Fine, AnyBook
    <3> QED BY <1>0, <3>1, BookToFine
  <2> QED BY <1>5, <2>5 DEF Good, Fine
<1> QED BY <1>0, <1>4, <1>5

LEMMA AgreeRefundGood ==
    ASSUME DemoInv, NEW t \in Tabs, NEW u \in Users, NEW o \in DOMAIN db[t].orders,
           AgreeRefund(t, u, o)
    PROVE  Good(t)
<1>0. PICK d, b, f, g, e :
        /\ d = db[t] /\ b = d.orders[o].book /\ f = EscrowRefund(d, o)
        /\ g = [Moved(f, o, "refunded") EXCEPT !.orders[o].escrow = "refunded"]
        /\ e = BookTo(g, b, {"locked"}, "on_sale")
        /\ (CanMove(d, o, "refunded") /\ Answer(t, e)) \/ Keep(t, Stranded(d, f))
  BY Zenon DEF AgreeRefund
<1>1. Sound(d)
  BY <1>0, TabSound
<1>2. PICK G : G = {"refund:frozen", "refund:balance"}
  OBVIOUS
<1>3. G \in RowGroups /\ Settles(d, f, o, G)
  BY <1>0, <1>1, <1>2, RefundSettles DEF RowGroups, Sound
<1>4. CASE Keep(t, Stranded(d, f))
  BY <1>0, <1>1, <1>3, <1>4, StrandedFine DEF Good
<1>5. CASE CanMove(d, o, "refunded") /\ Answer(t, e)
  <2>1. d.orders[o].status \in DOMAIN Machine /\ "refunded" \in Machine[d.orders[o].status]
    BY <1>0, <1>1, <1>5, OrderTypes DEF Sound, CanMove
  <2>2. "refunded" \in DOMAIN Machine /\ d.orders[o].status \in Held
    BY <2>1, WaysAfterPayment DEF GaveBack
  <2>3. Agree(f.keys, d.strays, o, "refunded")
    <3>1. "refunded" \in GaveBack
      BY DEF GaveBack
    <3> QED BY <1>0, <1>1, <1>2, <1>3, <2>2, <3>1, SettledAgree
  <2>4. Fine(d, g)
    BY <1>0, <1>1, <1>3, <2>2, <2>3, SettledMoveFine
  <2>5. Fine(g, e)
    <3>1. Sound(g) /\ "sold" \in AnyBook /\ "on_sale" \in AnyBook
      BY <2>4 DEF Fine, AnyBook
    <3> QED BY <1>0, <3>1, BookToFine
  <2> QED BY <1>5, <2>5 DEF Good, Fine
<1> QED BY <1>0, <1>4, <1>5

\* Requests that only move the status, or open a ticket with it.
LEMMA MoveOnlyGood ==
    ASSUME DemoInv, NEW t \in Tabs, NEW u \in Users, NEW o \in DOMAIN db[t].orders,
           \/ RefundRequest(t, u, o) \/ ReturnRequest(t, u, o)
           \/ RejectRefund(t, u, o) \/ Dispute(t, u, o)
    PROVE  Good(t)
<1>1. CASE RefundRequest(t, u, o)
  BY <1>1, MovedGood DEF RefundRequest, Good, Fine, Held
<1>2. CASE ReturnRequest(t, u, o)
  BY <1>2, MovedGood DEF ReturnRequest, Good, Fine, Held
<1>3. CASE RejectRefund(t, u, o)
  <2>0. PICK to, f :
          /\ to = (IF db[t].orders[o].status = "refund_requested" THEN "paid" ELSE "shipped")
          /\ f = Moved(db[t], o, to) /\ CanMove(db[t], o, to) /\ Answer(t, f)
    BY <1>3, Zenon DEF RejectRefund
  <2>1. Fine(db[t], f)
    BY <2>0, MovedGood DEF Held
  <2> QED BY <2>0, <2>1 DEF Good, Fine
<1>4. CASE Dispute(t, u, o)
  <2>0. PICK f, e :
          /\ f = Moved(db[t], o, "disputed") /\ CanMove(db[t], o, "disputed")
          /\ e = InsertTicket(f, "refund", u, TRUE, FALSE) /\ Answer(t, e)
    BY <1>4, Zenon DEF Dispute
  <2>1. Fine(db[t], f)
    BY <2>0, MovedGood DEF Held
  <2>2. Elsewhere(f, e, {})
    BY <2>0 DEF InsertTicket, Elsewhere, Tables
  <2> QED BY <2>0, <2>1, <2>2, Unrelated DEF Good, Fine
<1> QED BY <1>1, <1>2, <1>3, <1>4

LEMMA ArbitrateGood ==
    ASSUME DemoInv, NEW t \in Tabs, NEW o \in DOMAIN db[t].orders, Arbitrate(t, o)
    PROVE  Good(t)
<1>0. PICK d, b, r, x, g, y :
        /\ d = db[t] /\ b = d.orders[o].book /\ d.orders[o].status = "disputed"
        /\ r = EscrowRelease(d, o)
        /\ x = [Moved(r, o, "arbitrated_release") EXCEPT !.orders[o].escrow = "released"]
        /\ g = EscrowRefund(d, o)
        /\ y = [Moved(g, o, "arbitrated_refund") EXCEPT !.orders[o].escrow = "refunded"]
        /\ \/ Answer(t, BookTo(x, b, AnyBook, "sold"))
           \/ Answer(t, BookTo(y, b, AnyBook, "on_sale"))
  BY Zenon DEF Arbitrate
<1>1. Sound(d)
  BY <1>0, TabSound
<1>2. PICK R, G : /\ R = {"release:buyer-frozen", "release:seller", "release:fee"}
                  /\ G = {"refund:frozen", "refund:balance"}
  OBVIOUS
<1>3. R \in RowGroups /\ Settles(d, r, o, R)
  BY <1>0, <1>1, <1>2, ReleaseSettles DEF RowGroups, Sound
<1>4. G \in RowGroups /\ Settles(d, g, o, G)
  BY <1>0, <1>1, <1>2, RefundSettles DEF RowGroups, Sound
<1>5. /\ d.orders[o].status \in Held
      /\ "arbitrated_release" \in PaidOut /\ "arbitrated_release" \in DOMAIN Machine
      /\ "arbitrated_refund" \in GaveBack /\ "arbitrated_refund" \in DOMAIN Machine
  BY <1>0 DEF Held, PaidOut, GaveBack, Machine
<1>6. Fine(d, x)
  <2>1. Agree(r.keys, d.strays, o, "arbitrated_release")
    BY <1>0, <1>1, <1>2, <1>3, <1>5, SettledAgree
  <2> QED BY <1>0, <1>1, <1>3, <1>5, <2>1, SettledMoveFine
<1>7. Fine(d, y)
  <2>1. Agree(g.keys, d.strays, o, "arbitrated_refund")
    BY <1>0, <1>1, <1>2, <1>4, <1>5, SettledAgree
  <2> QED BY <1>0, <1>1, <1>4, <1>5, <2>1, SettledMoveFine
<1>8. Fine(x, BookTo(x, b, AnyBook, "sold")) /\ Fine(y, BookTo(y, b, AnyBook, "on_sale"))
  <2>1. Sound(x) /\ Sound(y) /\ "sold" \in AnyBook /\ "on_sale" \in AnyBook
    BY <1>6, <1>7 DEF Fine, AnyBook
  <2> QED BY <2>1, BookToFine
<1> QED BY <1>0, <1>8 DEF Good, Fine
-----------------------------------------------------------------------------
(* The wallet of one user, and the books *)

LEMMA RechargeGood ==
    ASSUME DemoInv, NEW t \in Tabs, NEW u \in Users, Recharge(t, u)
    PROVE  Good(t)
<1>0. PICK d, key, sum, f, e :
        /\ d = db[t] /\ key \in {NoKey, ClientKey}
        /\ sum = IF key \in d.keys THEN 0 ELSE TopUp
        /\ f = WalletRecord(d, u, "balance", TopUp, key)
        /\ e = [f EXCEPT !.recharged[u] = @ + sum] /\ Answer(t, e)
  BY Zenon DEF Recharge
<1>1. Sound(d) /\ TopUp \in Int /\ sum \in Int
  BY <1>0, TabSound, AmountsAssumption
<1>2. Tables \subseteq DOMAIN d /\ Purses(d) /\ NoKey \notin d.keys /\ Funds(d) \in Int
  BY <1>1, FundsType DEF Sound, MoneySound, MoneyTables, Purses
<1>3. Posted(d, f, "balance", TopUp, key)
  BY <1>0, <1>1, <1>2, RowPosted
<1>4. /\ Elsewhere(d, f, {"balance", "keys"}) /\ Purses(f)
      /\ d.keys \subseteq f.keys /\ f.keys \subseteq d.keys \cup {ClientKey}
      /\ NoKey \notin f.keys /\ Funds(f) = Funds(d) + sum
  <2>1. /\ f.keys = IF key \in d.keys \/ key = NoKey THEN d.keys ELSE d.keys \cup {key}
        /\ Funds(f) = IF key \in d.keys THEN Funds(d) ELSE Funds(d) + TopUp
    BY <1>3 DEF Posted
  <2>2. Funds(f) = Funds(d) + sum
    BY <1>0, <1>1, <1>2, <2>1
  <2>3. d.keys \subseteq f.keys /\ f.keys \subseteq d.keys \cup {ClientKey} /\ NoKey \notin f.keys
    BY <1>0, <1>2, <2>1
  <2> QED BY <1>3, <2>2, <2>3 DEF Posted
<1>5. Elsewhere(f, e, {"recharged"})
  BY <1>0, <1>2, <1>4 DEF Elsewhere, Tables
<1>6. /\ e.balance = f.balance /\ e.frozen = f.frozen /\ e.keys = f.keys
      /\ e.orders = d.orders /\ e.strays = d.strays
      /\ e.recharged = [d.recharged EXCEPT ![u] = @ + sum]
  <2>1. /\ e.balance = f.balance /\ e.frozen = f.frozen /\ e.keys = f.keys
        /\ e.orders = d.orders /\ e.strays = d.strays
    BY <1>4, <1>5 DEF Elsewhere, Tables
  <2>2. f.recharged = d.recharged /\ "recharged" \in DOMAIN f
    BY <1>2, <1>4 DEF Elsewhere, Tables
  <2> QED BY <1>0, <2>1, <2>2
<1>7. d.recharged \in [Users -> Int] /\ e.recharged \in [Users -> Int]
  BY <1>1, <1>6 DEF Sound, MoneySound, MoneyTables
<1>8. SumFunction(e.recharged) = SumFunction(d.recharged) + sum
  <2>1. SumFunction(e.recharged) =
          SumFunction(d.recharged) + (e.recharged[u] - d.recharged[u])
    BY <1>6, <1>7, SumMoves, UsersAssumption
  <2>2. e.recharged[u] - d.recharged[u] = sum
    BY <1>1, <1>6, <1>7
  <2> QED BY <2>1, <2>2
<1>9. MoneyAddsUp(e)
  BY <1>1, <1>4, <1>6, <1>8 DEF Sound, MoneySound, MoneyAddsUp, Funds
<1>10. d.orders \in Seq(OrderRows) /\ \A k \in d.keys : k[1] \in DOMAIN d.orders \cup {0}
  BY <1>1 DEF Sound, MoneySound, MoneyTables
<1>11. MoneyTables(e)
  <2>1. \A k \in e.keys : k[1] \in DOMAIN e.orders \cup {0}
    BY <1>4, <1>6, <1>10 DEF ClientKey
  <2> QED BY <1>4, <1>6, <1>7, <1>10, <2>1 DEF MoneyTables, Purses
<1>12. \A o \in DOMAIN d.orders : \A n : ClientKey # <<o, n>>
  <2>1. 0 \notin DOMAIN d.orders
    BY <1>10, LenProperties
  <2> QED BY <2>1 DEF ClientKey
<1>13. RowsTogether(e)
  <2>1. \A G \in RowGroups : ClientKey[2] \notin G
    BY DEF ClientKey, RowGroups
  <2> QED BY <1>1, <1>4, <1>6, <2>1 DEF Sound, MoneySound, RowsTogether
<1>14. StatusHasRows(e)
  <2> SUFFICES ASSUME NEW o \in DOMAIN d.orders
               PROVE  Agree(e.keys, e.strays, o, d.orders[o].status)
    BY <1>6 DEF StatusHasRows, Agree
  <2>1. Agree(d.keys, d.strays, o, d.orders[o].status)
    BY <1>1, AgreeNow
  <2>2. \A n : /\ <<o, n>> \in e.keys <=> <<o, n>> \in d.keys
               /\ <<o, n>> \in e.keys \ e.strays <=> <<o, n>> \in d.keys \ d.strays
    BY <1>4, <1>6, <1>12
  <2> QED BY <2>1, <2>2 DEF Agree, RowsOfStatus, StatusOfRows, HasRow
<1>15. MoneySound(e)
  BY <1>9, <1>11, <1>13, <1>14 DEF MoneySound
<1>16. Elsewhere(d, e, Purse)
  BY <1>4, <1>5 DEF Elsewhere, Purse
<1> QED BY <1>0, <1>1, <1>15, <1>16, MoneyFine DEF Good, Fine

LEMMA WithdrawGood ==
    ASSUME DemoInv, NEW t \in Tabs, NEW u \in Users, Withdraw(t, u)
    PROVE  Good(t)
<1>0. PICK d, f, g, e :
        /\ d = db[t] /\ f = WalletRecord(d, u, "balance", -TopUp, NoKey)
        /\ g = WalletRecord(f, u, "frozen", TopUp, NoKey)
        /\ e = [g EXCEPT !.withdrawn[u] = @ + TopUp] /\ Answer(t, e)
  BY Zenon DEF Withdraw
<1>1. Sound(d) /\ TopUp \in Int /\ -TopUp \in Int
  BY <1>0, TabSound, AmountsAssumption
<1>2. Tables \subseteq DOMAIN d /\ Purses(d) /\ NoKey \notin d.keys /\ Funds(d) \in Int
  BY <1>1, FundsType DEF Sound, MoneySound, MoneyTables, Purses
<1>3. Posted(d, f, "balance", (-TopUp), NoKey)
  BY <1>0, <1>1, <1>2, RowPosted
<1>4. /\ Elsewhere(d, f, {"balance", "keys"}) /\ Purses(f)
      /\ f.keys = d.keys /\ Funds(f) = Funds(d) + (-TopUp)
  BY <1>2, <1>3 DEF Posted
<1>5. Tables \subseteq DOMAIN f
  BY <1>2, <1>4 DEF Elsewhere
<1>6. Posted(f, g, "frozen", TopUp, NoKey)
  BY <1>0, <1>1, <1>4, <1>5, RowPosted
<1>7. /\ Elsewhere(f, g, {"frozen", "keys"}) /\ Purses(g)
      /\ g.keys = d.keys /\ Funds(g) = Funds(d)
  <2>1. g.keys = d.keys /\ Funds(g) = Funds(f) + TopUp
    BY <1>2, <1>4, <1>6 DEF Posted
  <2>2. Funds(g) = Funds(d)
    BY <1>1, <1>2, <1>4, <2>1
  <2> QED BY <1>6, <2>1, <2>2 DEF Posted
<1>8. /\ g.recharged = d.recharged /\ g.orders = d.orders /\ g.strays = d.strays
  BY <1>4, <1>7 DEF Elsewhere, Tables
<1>9. MoneySound(g)
  BY <1>1, <1>7, <1>8
     DEF Sound, MoneySound, MoneyTables, Purses, RowsTogether, StatusHasRows, MoneyAddsUp, Funds
<1>10. Elsewhere(d, g, Purse)
  BY <1>4, <1>7 DEF Elsewhere, Purse
<1>11. Fine(d, g)
  BY <1>1, <1>9, <1>10, MoneyFine
<1>12. Elsewhere(g, e, {})
  BY <1>0 DEF Elsewhere, Tables
<1> QED BY <1>0, <1>11, <1>12, Unrelated DEF Good, Fine

LEMMA EnforceFine ==
    ASSUME NEW d, Sound(d), NEW u, NEW text, NEW e, e = Enforce(d, u, text)
    PROVE  Fine(d, e)
<1>1. PeopleStep(d, e)
  BY EnforceStep DEF Sound
<1> QED BY <1>1, PeopleFine

LEMMA PublishBookGood ==
    ASSUME DemoInv, NEW t \in Tabs, NEW u \in Users, NEW price \in Prices, NEW text,
           PublishBook(t, u, price, text)
    PROVE  Good(t)
<1>0. PICK d, row, e :
        /\ d = Enforce(db[t], u, text)
        /\ row = [seller |-> u, price |-> price, status |-> "on_sale", deleted |-> FALSE]
        /\ e = [d EXCEPT !.images = @ + 1, !.books = Append(@, row)]
        /\ Keep(t, d) \/ Answer(t, e)
  BY Zenon DEF PublishBook
<1>1. Fine(db[t], d)
  BY <1>0, TabSound, EnforceFine
<1>2. Sound(d) /\ Tables \subseteq DOMAIN d
  BY <1>1 DEF Fine, Sound
<1>3. Elsewhere(d, e, {"images", "books"}) /\ e.books = Append(d.books, row)
  BY <1>0, <1>2 DEF Elsewhere, Tables
<1>4. row \in BookRows
  BY <1>0, AmountsAssumption DEF BookRows, AnyBook
<1>5. ShopTables(e)
  <2>1. PICK S : S = BookRows
    OBVIOUS
  <2>2. d.books \in Seq(S) /\ row \in S
    BY <1>2, <1>4, <2>1 DEF Sound, ShopTables
  <2>3. e.books \in Seq(S)
    BY <1>3, <2>2, AppendProperties
  <2>4. e.feeBps = d.feeBps
    BY <1>3 DEF Elsewhere, Tables
  <2> QED BY <1>2, <2>1, <2>3, <2>4 DEF Sound, ShopTables
<1>6. MoneySound(e) /\ PeopleSound(e)
  BY <1>2, <1>3, MoneyStays, PeopleStay DEF Sound
<1>7. Sound(e)
  BY <1>2, <1>3, <1>5, <1>6 DEF Sound, Elsewhere
<1> QED BY <1>0, <1>1, <1>7 DEF Good

\* One row of the books is written.
LEMMA RowWritten ==
    ASSUME NEW d, Sound(d), NEW b \in DOMAIN d.books, NEW row \in BookRows,
           NEW e, e = [d EXCEPT !.books[b] = row]
    PROVE  Fine(d, e)
<1>1. e.books = [d.books EXCEPT ![b] = row] /\ Elsewhere(d, e, {"books"})
  BY DEF Elsewhere, Sound, Tables
<1> QED BY <1>1, BookWritten

LEMMA EditBookGood ==
    ASSUME DemoInv, NEW t \in Tabs, NEW u \in Users, NEW b \in DOMAIN db[t].books,
           NEW price \in Prices, NEW text, EditBook(t, u, b, price, text)
    PROVE  Good(t)
<1>0. PICK f, e :
        /\ f = [db[t] EXCEPT !.books[b].price = price]
        /\ e = Enforce(f, u, text)
        /\ Keep(t, e) \/ Answer(t, e)
  BY Zenon DEF EditBook
<1>1. PICK row : row = [db[t].books[b] EXCEPT !.price = price]
  OBVIOUS
<1>2. row \in BookRows
  BY <1>1, TabSound, BookRow, AmountsAssumption DEF Sound, BookRows
<1>3. f = [db[t] EXCEPT !.books[b] = row]
  BY <1>0, <1>1
<1>4. Fine(db[t], f)
  BY <1>2, <1>3, TabSound, RowWritten
<1>5. Sound(f)
  BY <1>4 DEF Fine
<1>6. Fine(f, e)
  BY <1>0, <1>5, EnforceFine
<1>7. Fine(db[t], e)
  BY <1>4, <1>6, FineAgain
<1> QED BY <1>0, <1>7 DEF Good, Fine

LEMMA ShelvedGood ==
    ASSUME DemoInv, NEW t \in Tabs, NEW u \in Users, NEW b \in DOMAIN db[t].books,
           NEW to \in {"on_sale", "off_shelf", "deleted"},
           \/ OffShelf(t, u, b) \/ Relist(t, u, b) \/ DeleteBook(t, u, b) \/ ReviewBook(t, b, to)
    PROVE  Good(t)
<1>0. PICK d, old : d = db[t] /\ old = d.books[b]
  OBVIOUS
<1>1. Sound(d) /\ old \in BookRows /\ b \in DOMAIN d.books
  BY <1>0, TabSound, BookRow DEF Sound
<1>2. PICK row \in BookRows : Answer(t, [d EXCEPT !.books[b] = row])
  <2>1. CASE OffShelf(t, u, b)
    <3>1. PICK row : row = [old EXCEPT !.status = "off_shelf"]
      OBVIOUS
    <3>2. [d EXCEPT !.books[b].status = "off_shelf"] = [d EXCEPT !.books[b] = row]
      BY <1>0, <3>1
    <3>3. row \in BookRows
      BY <1>1, <3>1 DEF BookRows, AnyBook
    <3> QED BY <1>0, <2>1, <3>2, <3>3 DEF OffShelf
  <2>2. CASE Relist(t, u, b)
    <3>1. PICK row : row = [old EXCEPT !.status = "on_sale"]
      OBVIOUS
    <3>2. [d EXCEPT !.books[b].status = "on_sale"] = [d EXCEPT !.books[b] = row]
      BY <1>0, <3>1
    <3>3. row \in BookRows
      BY <1>1, <3>1 DEF BookRows, AnyBook
    <3> QED BY <1>0, <2>2, <3>2, <3>3 DEF Relist
  <2>3. CASE DeleteBook(t, u, b)
    <3>1. PICK row : row = [old EXCEPT !.deleted = TRUE, !.status = "off_shelf"]
      OBVIOUS
    <3>2. [d EXCEPT !.books[b].deleted = TRUE, !.books[b].status = "off_shelf"]
            = [d EXCEPT !.books[b] = row]
      BY <1>0, <1>1, <3>1
    <3>3. row \in BookRows
      BY <1>1, <3>1 DEF BookRows, AnyBook
    <3> QED BY <1>0, <2>3, <3>2, <3>3 DEF DeleteBook
  <2>4. CASE ReviewBook(t, b, to)
    <3>1. PICK row : row = [old EXCEPT !.status = to, !.deleted = @ \/ to = "deleted"]
      OBVIOUS
    <3>2. [d EXCEPT !.books[b].status = to, !.books[b].deleted = @ \/ to = "deleted"]
            = [d EXCEPT !.books[b] = row]
      BY <1>0, <1>1, <3>1
    <3>3. row \in BookRows
      BY <1>1, <3>1 DEF BookRows, AnyBook
    <3> QED BY <1>0, <2>4, <3>2, <3>3 DEF ReviewBook
  <2> QED BY <2>1, <2>2, <2>3, <2>4
<1> QED BY <1>0, <1>1, <1>2, RowWritten DEF Good, Fine
-----------------------------------------------------------------------------
(* Reports, penalties and appeals *)

\* What says nothing about any property is written and answered.
LEMMA UnrelatedGood ==
    ASSUME DemoInv, NEW t \in Tabs, NEW e, Elsewhere(db[t], e, {}), Answer(t, e)
    PROVE  Good(t)
BY TabSound, Unrelated DEF Good, Fine

\* A field that no property is about is written in a penalty.
LEMMA AppealStep ==
    ASSUME NEW d, Tables \subseteq DOMAIN d, PeopleSound(d), NEW p, NEW x,
           NEW e, Elsewhere(d, e, {"penalty"}), e.penalty = [d.penalty EXCEPT ![p].appeal = x]
    PROVE  PeopleStep(d, e)
<1>1. e.user = d.user /\ e.credit = d.credit
  BY DEF Elsewhere, Tables
<1>2. \A j \in DOMAIN d.penalty : {"user", "type", "status"} \subseteq DOMAIN d.penalty[j]
  BY DEF PeopleSound, PeopleTables, Range
<1>3. /\ DOMAIN e.penalty = DOMAIN d.penalty
      /\ e.penalty = [j \in DOMAIN e.penalty |-> e.penalty[j]]
      /\ \A j \in DOMAIN d.penalty : /\ DOMAIN e.penalty[j] = DOMAIN d.penalty[j]
                                    /\ e.penalty[j].user = d.penalty[j].user
                                    /\ e.penalty[j].type = d.penalty[j].type
                                    /\ e.penalty[j].status = d.penalty[j].status
  BY <1>2
<1>4. e.penalty \in Seq(Range(e.penalty))
  <2>1. ASSUME NEW q, NEW r, q = d.penalty, r = e.penalty PROVE r \in Seq(Range(r))
    <3>1. q \in Seq(Range(q)) /\ DOMAIN r = DOMAIN q /\ r = [j \in DOMAIN r |-> r[j]]
      BY <1>3, <2>1 DEF PeopleSound, PeopleTables
    <3> QED BY <3>1, RowChanged
  <2> QED BY <2>1
<1>5. \A row \in Range(e.penalty) : {"user", "type", "status"} \subseteq DOMAIN row
  BY <1>2, <1>3 DEF Range
<1>6. PeopleTables(e)
  BY <1>1, <1>4, <1>5 DEF PeopleSound, PeopleTables
<1>7. \A v \in Users : Standing(e, v) = Standing(d, v)
  BY <1>3 DEF Standing
<1>8. BansHaveRows(e)
  <2> SUFFICES ASSUME NEW v \in Users, NEW k \in SwitchedOn(e.user[v])
               PROVE  \E j \in Standing(e, v) : e.penalty[j].type = k
    BY DEF BansHaveRows
  <2>1. PICK j \in Standing(d, v) : d.penalty[j].type = k
    BY <1>1 DEF PeopleSound, BansHaveRows
  <2> QED BY <1>3, <1>7, <2>1 DEF Standing
<1> QED BY <1>6, <1>8 DEF PeopleStep, PeopleSound, Elsewhere, People

\* A table that no property is about is written and answered.
LEMMA TableGood ==
    ASSUME DemoInv, NEW t \in Tabs, NEW c, c \notin Tables, NEW x,
           Answer(t, [db[t] EXCEPT ![c] = x])
    PROVE  Good(t)
<1>1. Elsewhere(db[t], [db[t] EXCEPT ![c] = x], {})
  BY DEF Elsewhere
<1> QED BY <1>1, UnrelatedGood

LEMMA ReportGood ==
    ASSUME DemoInv, NEW t \in Tabs, NEW u, NEW thing, NEW r,
           Report(t, u, thing) \/ AcceptReport(t, r) \/ Prove(t, u, r)
    PROVE  Good(t)
<1>1. CASE Report(t, u, thing)
  <2>1. PICK x : Answer(t, [db[t] EXCEPT !.reports = x])
    BY <1>1, Zenon DEF Report
  <2> QED BY <2>1, TableGood DEF Tables
<1>2. CASE AcceptReport(t, r)
  <2>1. PICK f : /\ f = [db[t] EXCEPT !.reports[r].status = "proving", !.reports[r].due = now + ProofDays]
                 /\ Answer(t, f)
    BY <1>2, Zenon DEF AcceptReport
  <2>2. Elsewhere(db[t], f, {})
    BY <2>1 DEF Elsewhere, Tables
  <2> QED BY <2>1, <2>2, UnrelatedGood
<1>3. CASE Prove(t, u, r)
  <2>1. PICK x : Answer(t, [db[t] EXCEPT !.reports = x])
    BY <1>3, Zenon DEF Prove
  <2> QED BY <2>1, TableGood DEF Tables
<1> QED BY <1>1, <1>2, <1>3

LEMMA AppealGood ==
    ASSUME DemoInv, NEW t \in Tabs, NEW u, NEW p, Appeal(t, u, p)
    PROVE  Good(t)
<1>0. PICK d, row, e :
        /\ d = db[t] /\ row = [user |-> u, penalty |-> p, status |-> "pending"]
        /\ e = [d EXCEPT !.penalty[p].appeal = "pending", !.appeals = Append(@, row)]
        /\ Answer(t, e)
  BY Zenon DEF Appeal
<1>1. Sound(d) /\ Tables \subseteq DOMAIN d
  BY <1>0, TabSound DEF Sound
<1>2. Elsewhere(d, e, {"penalty"}) /\ e.penalty = [d.penalty EXCEPT ![p].appeal = "pending"]
  BY <1>0, <1>1 DEF Elsewhere, Tables
<1>3. PeopleStep(d, e)
  BY <1>1, <1>2, AppealStep DEF Sound
<1> QED BY <1>0, <1>1, <1>3, PeopleFine DEF Good, Fine

LEMMA ReviewAppealGood ==
    ASSUME DemoInv, NEW t \in Tabs, NEW a, NEW approve \in BOOLEAN, ReviewAppeal(t, a, approve)
    PROVE  Good(t)
<1>0. PICK d, p, x, f, e :
        /\ d = db[t] /\ p = d.appeals[a].penalty
        /\ x = (IF approve THEN "approved" ELSE "rejected")
        /\ f = (IF approve THEN RevokePenalty(d, p) ELSE d)
        /\ e = [f EXCEPT !.appeals[a].status = x, !.penalty[p].appeal = x]
        /\ Answer(t, e)
  BY Zenon DEF ReviewAppeal
<1>1. Sound(d)
  BY <1>0, TabSound
<1>2. PeopleStep(d, f)
  <2>1. PeopleStep(d, d)
    BY <1>1 DEF PeopleStep, Elsewhere, Sound
  <2>2. approve => PeopleStep(d, f)
    BY <1>0, <1>1, RevokeStep DEF Sound
  <2> QED BY <1>0, <2>1, <2>2
<1>3. Tables \subseteq DOMAIN f /\ PeopleSound(f)
  BY <1>1, <1>2 DEF PeopleStep, Elsewhere, Sound
<1>4. Elsewhere(f, e, {"penalty"}) /\ e.penalty = [f.penalty EXCEPT ![p].appeal = x]
  BY <1>0, <1>3 DEF Elsewhere, Tables
<1>5. PeopleStep(f, e)
  BY <1>3, <1>4, AppealStep
<1>6. PeopleStep(d, e)
  BY <1>2, <1>5, PeopleStepAgain
<1> QED BY <1>0, <1>1, <1>6, PeopleFine DEF Good, Fine

LEMMA DecideGood ==
    ASSUME DemoInv, NEW t \in Tabs, NEW r, NEW valid \in BOOLEAN,
           NEW named \in PenaltyTypes \cup {"ladder"}, NEW severity,
           Decide(t, r, valid, named, severity)
    PROVE  Good(t)
<1>0. PICK d, v, f, e :
        /\ d = db[t] /\ v = d.reports[r].target
        /\ f = (IF valid THEN Punished(d, v, named, severity) ELSE d)
        /\ e = [f EXCEPT !.reports[r].status = "decided"]
        /\ Answer(t, e)
  BY Zenon DEF Decide
<1>1. Sound(d)
  BY <1>0, TabSound
<1>2. Fine(d, f)
  <2>1. Fine(d, d)
    BY <1>1 DEF Fine
  <2>2. ASSUME valid PROVE Fine(d, f)
    <3>1. PeopleStep(d, f)
      BY <1>0, <1>1, <2>2, PunishedStep DEF Sound
    <3> QED BY <1>1, <3>1, PeopleFine
  <2> QED BY <1>0, <2>1, <2>2
<1>3. Elsewhere(f, e, {})
  <2>1. PICK x : e = [f EXCEPT !.reports = x]
    BY <1>0, Zenon
  <2> QED BY <2>1 DEF Elsewhere, Tables
<1> QED BY <1>0, <1>2, <1>3, Unrelated DEF Good, Fine

LEMMA BanGood ==
    ASSUME DemoInv, NEW t \in Tabs, NEW m, NEW u, NEW type \in PenaltyTypes, Ban(t, m, u, type)
    PROVE  Good(t)
<1>0. PICK n, e : /\ n = Cardinality(Standing(db[t], u)) + 1
                  /\ e = ApplyPenalty(db[t], u, type, 1, n) /\ Answer(t, e)
  BY Zenon DEF Ban
<1>1. Sound(db[t])
  BY TabSound
<1>2. PeopleStep(db[t], e)
  BY <1>0, <1>1, PenaltyStep DEF Sound
<1> QED BY <1>0, <1>1, <1>2, PeopleFine DEF Good, Fine

LEMMA UnbanGood ==
    ASSUME DemoInv, NEW t \in Tabs, NEW m, NEW u, NEW type, Unban(t, m, u, type)
    PROVE  Good(t)
<1>0. PICK e : e = Unbanned(db[t], u, type) /\ Answer(t, e)
  BY Zenon DEF Unban, Unbanned
<1>1. Sound(db[t])
  BY TabSound
<1>2. PeopleStep(db[t], e)
  BY <1>0, <1>1, UnbanStep DEF Sound
<1> QED BY <1>0, <1>1, <1>2, PeopleFine DEF Good, Fine

LEMMA RiskGood ==
    ASSUME DemoInv, NEW t \in Tabs, NEW u \in Users, RiskNext(t, u)
    PROVE  Good(t)
BY ReportGood, AppealGood, ReviewAppealGood, DecideGood, BanGood, UnbanGood DEF RiskNext
-----------------------------------------------------------------------------
(* The list of words, and the desk *)

LEMMA WordsGood ==
    ASSUME DemoInv, NEW t \in Tabs, NEW u \in Users, WordsNext(t, u)
    PROVE  Good(t)
<1>1. PICK words : Answer(t, [db[t] EXCEPT !.words = words])
  BY Zenon DEF WordsNext, CreateWord, UpdateWord, DeleteWord
<1> QED BY <1>1, TableGood DEF Tables

LEMMA TicketElsewhere ==
    ASSUME NEW d, NEW type, NEW u, NEW urgent, NEW e, e = OpenTicket(d, type, u, urgent)
    PROVE  Elsewhere(d, e, {})
BY DEF OpenTicket, InsertTicket, Elsewhere, Tables

LEMMA HandedElsewhere ==
    ASSUME NEW d, NEW u, NEW c, NEW e, e = Handed(d, u, c)
    PROVE  Elsewhere(d, e, {})
<1>0. PICK f, chats : /\ f = (IF d.chats[c].ticket = 0 THEN OpenTicket(d, "other", u, FALSE) ELSE d)
                      /\ e = [f EXCEPT !.chats = chats]
  <2>1. PICK f : f = (IF d.chats[c].ticket = 0 THEN OpenTicket(d, "other", u, FALSE) ELSE d)
    OBVIOUS
  <2>2. e = [f EXCEPT !.chats[c].status = "transferred",
                      !.chats[c].ticket = IF @ = 0 THEN Len(f.ticket) ELSE @]
    BY <2>1, Zenon DEF Handed
  <2>3. \E chats : e = [f EXCEPT !.chats = chats]
    BY <2>2
  <2> QED BY <2>1, <2>3
<1>1. Elsewhere(d, f, {})
  <2>1. Elsewhere(d, d, {})
    BY DEF Elsewhere
  <2> QED BY <1>0, <2>1, TicketElsewhere
<1>2. Elsewhere(f, e, {})
  BY <1>0 DEF Elsewhere, Tables
<1> QED BY <1>1, <1>2 DEF Elsewhere

LEMMA AskGood ==
    ASSUME DemoInv, NEW t \in Tabs, NEW u, NEW c, NEW intent, AskChat(t, u, c, intent)
    PROVE  Good(t)
<1>a. PICK d, f, n :
        /\ d = db[t]
        /\ f = (IF intent = "refund" THEN OpenTicket(d, "refund", u, TRUE) ELSE d)
        /\ n = (IF Answered(d, u, intent) THEN 0 ELSE d.chats[c].rounds + 1)
  OBVIOUS
<1>b. PICK g, x : g = [f EXCEPT !.chats[c].rounds = n] /\ g = [f EXCEPT !.chats = x]
  <2>1. PICK g : g = [f EXCEPT !.chats[c].rounds = n]
    OBVIOUS
  <2>2. \E x : g = [f EXCEPT !.chats = x]
    BY <2>1, Zenon
  <2> QED BY <2>1, <2>2
<1>c. Answer(t, CASE intent = "banned" -> d
                  [] intent = "human"  -> Handed(d, u, c)
                  [] OTHER -> IF n >= ChatRounds THEN Handed(g, u, c) ELSE g)
  BY <1>a, <1>b, Zenon DEF AskChat
<1>d. PICK e : /\ e = CASE intent = "banned" -> d
                         [] intent = "human"  -> Handed(d, u, c)
                         [] OTHER -> IF n >= ChatRounds THEN Handed(g, u, c) ELSE g
               /\ Answer(t, e)
  BY <1>c
<1>0. e \in {d, Handed(d, u, c), Handed(g, u, c), g}
  BY <1>d
<1>1. Elsewhere(d, d, {})
  BY DEF Elsewhere
<1>2. Elsewhere(d, f, {})
  BY <1>a, <1>1, TicketElsewhere
<1>3. Elsewhere(d, g, {})
  <2>1. Elsewhere(f, g, {})
    BY <1>b DEF Elsewhere, Tables
  <2> QED BY <1>2, <2>1 DEF Elsewhere
<1>4. Elsewhere(d, Handed(d, u, c), {}) /\ Elsewhere(g, Handed(g, u, c), {})
  BY HandedElsewhere
<1>5. Elsewhere(d, Handed(g, u, c), {})
  BY <1>3, <1>4 DEF Elsewhere
<1>6. Elsewhere(d, e, {})
  BY <1>0, <1>1, <1>3, <1>4, <1>5
<1> QED BY <1>a, <1>d, <1>6, UnrelatedGood

LEMMA DeskGood ==
    ASSUME DemoInv, NEW t \in Tabs, NEW u \in Users, DeskNext(t, u)
    PROVE  Good(t)
<1>1. ASSUME NEW urgent, CreateTicket(t, u, urgent) PROVE Good(t)
  BY <1>1, TicketElsewhere, UnrelatedGood DEF CreateTicket
<1>2. ASSUME NEW c, TransferChat(t, u, c) PROVE Good(t)
  BY <1>2, HandedElsewhere, UnrelatedGood DEF TransferChat
<1>3. CASE SweepSla(t)
  <2>1. PICK rows : Keep(t, [db[t] EXCEPT !.ticket = rows])
    BY <1>3, Zenon DEF SweepSla
  <2>2. Elsewhere(db[t], [db[t] EXCEPT !.ticket = rows], {})
    BY DEF Elsewhere, Tables
  <2> QED BY <2>1, <2>2, TabSound, Unrelated DEF Good
<1>4. CASE OpenChat(t, u)
  <2>1. PICK x : Answer(t, [db[t] EXCEPT !.chats = x])
    BY <1>4, Zenon DEF OpenChat
  <2> QED BY <2>1, TableGood DEF Tables
<1>5. ASSUME NEW k, \/ ClaimTicket(t, u, k) \/ ReplyTicket(t, u, k)
                    \/ ResolveTicket(t, u, k) \/ EscalateTicket(t, k)
      PROVE  Good(t)
  <2>1. CASE ClaimTicket(t, u, k)
    <3>1. PICK f : /\ f = [db[t] EXCEPT !.ticket[k].assignee = u,
                             !.ticket[k].status = IF @ = "pending" THEN "processing" ELSE @]
                   /\ Answer(t, f)
      BY <2>1, Zenon DEF ClaimTicket
    <3>2. Elsewhere(db[t], f, {})
      BY <3>1 DEF Elsewhere, Tables
    <3> QED BY <3>1, <3>2, UnrelatedGood
  <2>2. CASE ReplyTicket(t, u, k)
    <3>1. PICK f : /\ f = [db[t] EXCEPT !.ticket[k].answered = TRUE,
                             !.ticket[k].status = IF @ = "pending" THEN "processing" ELSE @,
                             !.ticket[k].assignee = IF @ = Unassigned THEN u ELSE @]
                   /\ Answer(t, f)
      BY <2>2, Zenon DEF ReplyTicket
    <3>2. Elsewhere(db[t], f, {})
      BY <3>1 DEF Elsewhere, Tables
    <3> QED BY <3>1, <3>2, UnrelatedGood
  <2>3. CASE ResolveTicket(t, u, k)
    <3>1. PICK f : /\ f = [db[t] EXCEPT !.ticket[k].status = "resolved",
                             !.ticket[k].assignee = IF @ = Unassigned THEN u ELSE @]
                   /\ Answer(t, f)
      BY <2>3, Zenon DEF ResolveTicket
    <3>2. Elsewhere(db[t], f, {})
      BY <3>1 DEF Elsewhere, Tables
    <3> QED BY <3>1, <3>2, UnrelatedGood
  <2>4. CASE EscalateTicket(t, k)
    <3>1. PICK f : /\ f = [db[t] EXCEPT !.ticket[k].escalated = TRUE, !.ticket[k].urgent = TRUE]
                   /\ Answer(t, f)
      BY <2>4, Zenon DEF EscalateTicket
    <3>2. Elsewhere(db[t], f, {})
      BY <3>1 DEF Elsewhere, Tables
    <3> QED BY <3>1, <3>2, UnrelatedGood
  <2> QED BY <1>5, <2>1, <2>2, <2>3, <2>4
<1>6. ASSUME NEW i, NEW s, CreateArticle(t) \/ DeleteArticle(t, i) \/ UpdateArticle(t, i, s)
      PROVE  Good(t)
  <2>1. PICK x : Answer(t, [db[t] EXCEPT !.kb = x])
    BY <1>6, Zenon DEF CreateArticle, DeleteArticle, UpdateArticle
  <2> QED BY <2>1, TableGood DEF Tables
<1> QED BY <1>1, <1>2, <1>3, <1>4, <1>5, <1>6, AskGood DEF DeskNext
-----------------------------------------------------------------------------
(* The forum *)

\* A text does what it does to its author, and is stored if it is not blocked.
LEMMA TextGood ==
    ASSUME DemoInv, NEW t \in Tabs, NEW u, NEW text, NEW d, d = Enforce(db[t], u, text),
           NEW e, Elsewhere(d, e, {}), Keep(t, d) \/ Answer(t, e)
    PROVE  Good(t)
<1>1. Fine(db[t], d)
  BY TabSound, EnforceFine
<1>2. Sound(d)
  BY <1>1 DEF Fine
<1>3. Fine(d, e)
  BY <1>2, Unrelated
<1> QED BY <1>1, <1>3 DEF Good, Fine

LEMMA PostThreadGood ==
    ASSUME DemoInv, NEW t \in Tabs, NEW u, NEW text, PostThread(t, u, text)
    PROVE  Good(t)
<1>1. PICK d, e : /\ d = Enforce(db[t], u, text)
                  /\ e = [d EXCEPT !.threads = Append(@,
                           [author |-> u, text |-> text, status |-> "published",
                            deleted |-> FALSE, count |-> 0])]
                  /\ Keep(t, d) \/ Answer(t, e)
  BY Zenon DEF PostThread, Written
<1>2. Elsewhere(d, e, {})
  BY <1>1 DEF Elsewhere, Tables
<1> QED BY <1>1, <1>2, TextGood

LEMMA EditThreadGood ==
    ASSUME DemoInv, NEW t \in Tabs, NEW u, NEW h, NEW text, EditThread(t, u, h, text)
    PROVE  Good(t)
<1>1. PICK d, e : /\ d = Enforce(db[t], u, text)
                  /\ e = [d EXCEPT !.threads[h].text = text]
                  /\ Keep(t, d) \/ Answer(t, e)
  BY Zenon DEF EditThread, Written
<1>2. Elsewhere(d, e, {})
  BY <1>1 DEF Elsewhere, Tables
<1> QED BY <1>1, <1>2, TextGood

LEMMA PostReplyGood ==
    ASSUME DemoInv, NEW t \in Tabs, NEW u, NEW h, NEW text, PostReply(t, u, h, text)
    PROVE  Good(t)
<1>1. PICK d, e : /\ d = Enforce(db[t], u, text)
                  /\ e = [d EXCEPT !.threads[h].count = @ + 1,
                           !.replies = Append(@, [thread |-> h, author |-> u, status |-> "published",
                                deleted |-> FALSE, floor |-> Max(Floors(d, h) \cup {0}) + 1])]
                  /\ Keep(t, d) \/ Answer(t, e)
  BY Zenon DEF PostReply, Written
<1>2. Elsewhere(d, e, {})
  BY <1>1 DEF Elsewhere, Tables
<1> QED BY <1>1, <1>2, TextGood

LEMMA SendMessageGood ==
    ASSUME DemoInv, NEW t \in Tabs, NEW u, NEW c, NEW text, SendMessage(t, u, c, text)
    PROVE  Good(t)
<1>1. PICK d, e : /\ d = Enforce(db[t], u, text)
                  /\ e = [d EXCEPT !.messages = Append(@,
                           [conv |-> c, to |-> CHOOSE p \in d.convs[c].members : p # u,
                            read |-> FALSE])]
                  /\ Keep(t, d) \/ Answer(t, e)
  BY Zenon DEF SendMessage, Written
<1>2. Elsewhere(d, e, {})
  BY <1>1 DEF Elsewhere, Tables
<1> QED BY <1>1, <1>2, TextGood

LEMMA DeleteThreadGood ==
    ASSUME DemoInv, NEW t \in Tabs, NEW u, NEW h, DeleteThread(t, u, h)
    PROVE  Good(t)
<1>1. PICK f : /\ f = [db[t] EXCEPT !.threads[h].deleted = TRUE, !.threads[h].status = "deleted"]
               /\ Answer(t, f)
  BY Zenon DEF DeleteThread
<1>2. Elsewhere(db[t], f, {})
  BY <1>1 DEF Elsewhere, Tables
<1> QED BY <1>1, <1>2, UnrelatedGood

LEMMA DeleteReplyGood ==
    ASSUME DemoInv, NEW t \in Tabs, NEW u, NEW r, DeleteReply(t, u, r)
    PROVE  Good(t)
<1>1. PICK h, f : /\ h = db[t].replies[r].thread
                  /\ f = [db[t] EXCEPT !.replies[r].deleted = TRUE, !.replies[r].status = "deleted",
                                       !.threads[h].count = Max({0, @ - 1})]
                  /\ Answer(t, f)
  BY Zenon DEF DeleteReply
<1>2. Elsewhere(db[t], f, {})
  <2>1. PICK g : g = [db[t] EXCEPT !.replies[r].deleted = TRUE, !.replies[r].status = "deleted"]
    OBVIOUS
  <2>2. PICK x : f = [g EXCEPT !.threads = x]
    BY <1>1, <2>1, Zenon
  <2>3. Elsewhere(db[t], g, {})
    BY <2>1 DEF Elsewhere, Tables
  <2>4. Elsewhere(g, f, {})
    BY <2>2 DEF Elsewhere, Tables
  <2> QED BY <2>3, <2>4 DEF Elsewhere
<1> QED BY <1>1, <1>2, UnrelatedGood

LEMMA ReviewThreadGood ==
    ASSUME DemoInv, NEW t \in Tabs, NEW h, NEW to, ReviewThread(t, h, to)
    PROVE  Good(t)
<1>1. PICK f : /\ f = [db[t] EXCEPT !.threads[h].status = to,
                                    !.threads[h].deleted = @ \/ to = "deleted"]
               /\ Answer(t, f)
  BY Zenon DEF ReviewThread
<1>2. Elsewhere(db[t], f, {})
  BY <1>1 DEF Elsewhere, Tables
<1> QED BY <1>1, <1>2, UnrelatedGood

LEMMA ReviewReplyGood ==
    ASSUME DemoInv, NEW t \in Tabs, NEW r, NEW to, ReviewReply(t, r, to)
    PROVE  Good(t)
<1>1. PICK f : /\ f = [db[t] EXCEPT !.replies[r].status = to,
                                    !.replies[r].deleted = @ \/ to = "deleted"]
               /\ Answer(t, f)
  BY Zenon DEF ReviewReply
<1>2. Elsewhere(db[t], f, {})
  BY <1>1 DEF Elsewhere, Tables
<1> QED BY <1>1, <1>2, UnrelatedGood

LEMMA OpenConversationGood ==
    ASSUME DemoInv, NEW t \in Tabs, NEW u, NEW about, OpenConversation(t, u, about)
    PROVE  Good(t)
<1>1. PICK x : Answer(t, db[t]) \/ Answer(t, [db[t] EXCEPT !.convs = x])
  <2>1. PICK peer, same :
          /\ peer = (IF about[1] = "book" THEN db[t].books[about[2]].seller
                     ELSE db[t].threads[about[2]].author)
          /\ same = {c \in DOMAIN db[t].convs : /\ db[t].convs[c].members = {u, peer}
                                                /\ db[t].convs[c].about = about}
    OBVIOUS
  <2>2. PICK e : /\ e = IF same # {} THEN db[t]
                         ELSE [db[t] EXCEPT !.convs = Append(@, [members |-> {u, peer}, about |-> about])]
                 /\ Answer(t, e)
    BY <2>1, Zenon DEF OpenConversation
  <2> QED BY <2>2
<1>2. Elsewhere(db[t], db[t], {})
  BY DEF Elsewhere
<1> QED BY <1>1, <1>2, UnrelatedGood, TableGood DEF Tables

LEMMA ReadMessagesGood ==
    ASSUME DemoInv, NEW t \in Tabs, NEW u, NEW c, ReadMessages(t, u, c)
    PROVE  Good(t)
<1>1. PICK x : Keep(t, [db[t] EXCEPT !.messages = x])
  BY Zenon DEF ReadMessages
<1>2. Elsewhere(db[t], [db[t] EXCEPT !.messages = x], {})
  BY DEF Elsewhere, Tables
<1> QED BY <1>1, <1>2, TabSound, Unrelated DEF Good

LEMMA ForumGood ==
    ASSUME DemoInv, NEW t \in Tabs, NEW u \in Users, ForumNext(t, u)
    PROVE  Good(t)
BY PostThreadGood, EditThreadGood, PostReplyGood, SendMessageGood, DeleteThreadGood,
   DeleteReplyGood, ReviewThreadGood, ReviewReplyGood, OpenConversationGood, ReadMessagesGood
   DEF ForumNext
-----------------------------------------------------------------------------
(* Accounts *)

\* The switches of every user are as they were, whatever else is written in their rows.
LEMMA VerifiedGood ==
    ASSUME DemoInv, NEW t \in Tabs, NEW u, NEW x, NEW f, NEW e,
           f = [db[t] EXCEPT !.user[u].verified = x], Elsewhere(f, e, {}), Answer(t, e)
    PROVE  Good(t)
<1>1. PICK d : d = db[t]
  OBVIOUS
<1>2. Sound(d) /\ Tables \subseteq DOMAIN d /\ PeopleTables(d)
  BY <1>1, TabSound DEF Sound, PeopleSound
<1>3. /\ Elsewhere(d, f, {"user"})
      /\ f.user = [d.user EXCEPT ![u].verified = x]
      /\ f.penalty = d.penalty /\ f.credit = d.credit
  BY <1>1, <1>2 DEF Elsewhere, Tables
<1>4. ASSUME NEW v \in Users
      PROVE  /\ DOMAIN f.user[v] = DOMAIN d.user[v]
             /\ \A k \in Fields : f.user[v][k] = d.user[v][k]
  <2>1. v \in DOMAIN d.user /\ Fields \subseteq DOMAIN d.user[v]
    BY <1>2 DEF PeopleTables, Fields
  <2>2. f.user[v] = IF v = u THEN [d.user[v] EXCEPT !.verified = x] ELSE d.user[v]
    BY <1>3, <2>1
  <2> QED BY <2>1, <2>2 DEF Fields, Switches
<1>5. SameSwitches(d, f)
  <2>1. f.credit \in Seq(Range(f.credit)) /\ DOMAIN f.user = DOMAIN d.user
    BY <1>2, <1>3 DEF PeopleTables
  <2> QED BY <1>3, <1>4, <2>1 DEF SameSwitches
<1>6. PeopleSound(f)
  BY <1>2, <1>5, SwitchesSound DEF Sound
<1>7. Elsewhere(d, f, People)
  BY <1>3 DEF Elsewhere, People
<1>8. PeopleStep(d, f)
  BY <1>6, <1>7 DEF PeopleStep
<1>9. Fine(d, f)
  BY <1>2, <1>8, PeopleFine
<1>10. Sound(f)
  BY <1>9 DEF Fine
<1> QED BY <1>10, Unrelated DEF Good, Fine

LEMMA RegisterGood ==
    ASSUME DemoInv, NEW t \in Tabs, NEW u, Register(t, u)
    PROVE  Good(t)
<1>0. PICK d, row, f, e :
        /\ d = db[t] /\ row = [Plain EXCEPT !.verified = "unverified"]
        /\ f = [d EXCEPT !.members = @ \cup {u}] /\ e = [f EXCEPT !.user[u] = row]
        /\ Answer(t, e)
  BY Zenon DEF Register
<1>1. Sound(d) /\ Elsewhere(d, f, {})
  BY <1>0, TabSound DEF Elsewhere, Tables
<1>2. Fine(d, f)
  BY <1>1, Unrelated
<1>3. Sound(f) /\ Tables \subseteq DOMAIN f /\ PeopleSound(f)
  BY <1>2 DEF Fine, Sound
<1>4. /\ Elsewhere(f, e, {"user"}) /\ e.user = [f.user EXCEPT ![u] = row]
      /\ e.penalty = f.penalty /\ e.credit = f.credit
  BY <1>0, <1>3 DEF Elsewhere, Tables
<1>5. /\ Switches \cup {"permanent"} \subseteq DOMAIN row
      /\ row.permanent = FALSE /\ row.mute = 0 /\ row.trade_ban = 0 /\ row.login_ban = 0
  BY <1>0 DEF Plain, Switches
<1>6. SwitchedOn(row) = {}
  BY <1>5 DEF SwitchedOn, Switches
<1>7. ASSUME NEW v \in Users
      PROVE  e.user[v] = f.user[v] \/ e.user[v] = row
  <2>1. v \in DOMAIN f.user
    BY <1>3 DEF PeopleSound, PeopleTables
  <2> QED BY <1>4, <2>1
<1>8. PeopleTables(e)
  BY <1>3, <1>4, <1>5, <1>7 DEF PeopleSound, PeopleTables
<1>9. BansHaveRows(e)
  <2> SUFFICES ASSUME NEW v \in Users, NEW k \in SwitchedOn(e.user[v])
               PROVE  \E p \in Standing(e, v) : e.penalty[p].type = k
    BY DEF BansHaveRows
  <2>1. k \in SwitchedOn(f.user[v])
    BY <1>6, <1>7
  <2>2. PICK p \in Standing(f, v) : f.penalty[p].type = k
    BY <1>3, <2>1 DEF PeopleSound, BansHaveRows
  <2> QED BY <1>4, <2>2 DEF Standing
<1>10. PeopleStep(f, e)
  BY <1>4, <1>8, <1>9 DEF PeopleStep, PeopleSound, Elsewhere, People
<1> QED BY <1>0, <1>3, <1>10, PeopleFine DEF Good, Fine

LEMMA EditProfileGood ==
    ASSUME DemoInv, NEW t \in Tabs, NEW u, NEW nick, NEW bio, EditProfile(t, u, nick, bio)
    PROVE  Good(t)
<1>1. PICK f, e : /\ f = [db[t] EXCEPT !.profile[u].nick = nick]
                  /\ e = [f EXCEPT !.profile[u].bio = bio]
                  /\ Keep(t, f) \/ Answer(t, e)
  BY Zenon DEF EditProfile
<1>2. Elsewhere(db[t], f, {}) /\ Elsewhere(f, e, {})
  BY <1>1 DEF Elsewhere, Tables
<1>3. Elsewhere(db[t], e, {})
  BY <1>2 DEF Elsewhere
<1> QED BY <1>1, <1>2, <1>3, TabSound, Unrelated DEF Good, Fine

LEMMA HandInFormGood ==
    ASSUME DemoInv, NEW t \in Tabs, NEW u, HandInForm(t, u)
    PROVE  Good(t)
<1>1. PICK f, x, e : /\ f = [db[t] EXCEPT !.user[u].verified = "pending"]
                     /\ e = [f EXCEPT !.forms = x] /\ Answer(t, e)
  BY Zenon DEF HandInForm
<1>2. Elsewhere(f, e, {})
  BY <1>1 DEF Elsewhere, Tables
<1> QED BY <1>1, <1>2, VerifiedGood

LEMMA ReviewFormGood ==
    ASSUME DemoInv, NEW t \in Tabs, NEW k, NEW result, ReviewForm(t, k, result)
    PROVE  Good(t)
<1>1. PICK u, e : /\ u = db[t].forms[k].user
                  /\ e = [db[t] EXCEPT !.forms[k].status = result, !.user[u].verified = result]
                  /\ Answer(t, e)
  BY Zenon DEF ReviewForm
<1>2. PICK f : f = [db[t] EXCEPT !.user[u].verified = result]
  OBVIOUS
<1>3. Elsewhere(f, e, {})
  <2>1. Tables \subseteq DOMAIN db[t]
    BY TabSound DEF Sound
  <2>2. e.user = f.user
    BY <1>1, <1>2, <2>1 DEF Tables
  <2>3. \A c \in Tables \ {"user"} : e[c] = f[c]
    BY <1>1, <1>2, <2>1 DEF Tables
  <2>4. DOMAIN e = DOMAIN f
    BY <1>1, <1>2
  <2> QED BY <2>2, <2>3, <2>4 DEF Elsewhere
<1> QED BY <1>1, <1>2, <1>3, VerifiedGood

LEMMA ReviewApplicationGood ==
    ASSUME DemoInv, NEW t \in Tabs, NEW a, NEW approve, ReviewApplication(t, a, approve)
    PROVE  Good(t)
<1>1. PICK new, x, e : /\ e = [db[t] EXCEPT !.schools = @ \o new, !.applications[a].status = x]
                       /\ Answer(t, e)
  BY Zenon DEF ReviewApplication
<1>2. Elsewhere(db[t], e, {})
  BY <1>1 DEF Elsewhere, Tables
<1> QED BY <1>1, <1>2, UnrelatedGood

LEMMA UpdateSchoolGood ==
    ASSUME DemoInv, NEW t \in Tabs, UpdateSchool(t)
    PROVE  Good(t)
<1>1. CASE \E v \in BOOLEAN : Answer(t, [db[t] EXCEPT !.verifies = v])
  BY <1>1, TableGood DEF Tables
<1>2. CASE \E v \in BOOLEAN : Answer(t, [db[t] EXCEPT !.open = v])
  BY <1>2, TableGood DEF Tables
<1>3. ASSUME NEW bps \in Fees, Answer(t, [db[t] EXCEPT !.feeBps = bps])
      PROVE  Good(t)
  <2>1. PICK e : e = [db[t] EXCEPT !.feeBps = bps]
    OBVIOUS
  <2>2. Sound(db[t]) /\ bps \in Int
    BY TabSound, AmountsAssumption
  <2>3. /\ Elsewhere(db[t], e, {"books", "feeBps"})
        /\ e.books = db[t].books /\ e.feeBps = bps
    BY <2>1, <2>2 DEF Elsewhere, Sound, Tables
  <2>4. ShopTables(e)
    BY <2>2, <2>3 DEF Sound, ShopTables
  <2> QED BY <1>3, <2>1, <2>2, <2>3, <2>4, ShopFine DEF Good, Fine
<1> QED BY <1>1, <1>2, <1>3 DEF UpdateSchool

LEMMA ApplyForSchoolGood ==
    ASSUME DemoInv, NEW t \in Tabs, NEW phone, NEW name, ApplyForSchool(t, phone, name)
    PROVE  Good(t)
<1>1. PICK x : Answer(t, [db[t] EXCEPT !.applications = x])
  BY Zenon DEF ApplyForSchool
<1> QED BY <1>1, TableGood DEF Tables

LEMMA CreateSchoolGood ==
    ASSUME DemoInv, NEW t \in Tabs, NEW name, NEW code, CreateSchool(t, name, code)
    PROVE  Good(t)
<1>1. PICK x : Answer(t, [db[t] EXCEPT !.schools = x])
  BY Zenon DEF CreateSchool
<1> QED BY <1>1, TableGood DEF Tables

LEMMA SetConfigGood ==
    ASSUME DemoInv, NEW t \in Tabs, SetConfig(t)
    PROVE  Good(t)
<1>1. PICK x : Answer(t, [db[t] EXCEPT !.escalates = x])
  BY Zenon DEF SetConfig
<1> QED BY <1>1, TableGood DEF Tables

LEMMA BindCardGood ==
    ASSUME DemoInv, NEW t \in Tabs, NEW u, NEW default, BindCard(t, u, default)
    PROVE  Good(t)
<1>1. PICK x : Answer(t, [db[t] EXCEPT !.cards = x])
  BY Zenon DEF BindCard
<1> QED BY <1>1, TableGood DEF Tables

LEMMA UnbindCardGood ==
    ASSUME DemoInv, NEW t \in Tabs, NEW c, UnbindCard(t, c)
    PROVE  Good(t)
<1>1. PICK x : Answer(t, [db[t] EXCEPT !.cards = x])
  BY Zenon DEF UnbindCard
<1> QED BY <1>1, TableGood DEF Tables

LEMMA ChooseCardGood ==
    ASSUME DemoInv, NEW t \in Tabs, NEW u, NEW c, ChooseCard(t, u, c)
    PROVE  Good(t)
<1>1. PICK x : Answer(t, [db[t] EXCEPT !.cards = x])
  BY Zenon DEF ChooseCard
<1> QED BY <1>1, TableGood DEF Tables

LEMMA SaveOnlyGood ==
    ASSUME DemoInv, NEW t \in Tabs, SaveOnly(t)
    PROVE  Good(t)
BY TabSound DEF SaveOnly, Good

LEMMA AccountGood ==
    ASSUME DemoInv, NEW t \in Tabs, NEW u \in Users, AccountNext(t, u)
    PROVE  Good(t)
BY EditProfileGood, HandInFormGood, BindCardGood, UnbindCardGood, ChooseCardGood, ReviewFormGood,
   ReviewApplicationGood, CreateSchoolGood, UpdateSchoolGood, SetConfigGood
   DEF AccountNext

LEMMA PublicGood ==
    ASSUME DemoInv, NEW t \in Tabs, PublicNext(t)
    PROVE  Good(t)
BY SaveOnlyGood, RegisterGood, ApplyForSchoolGood DEF PublicNext
-----------------------------------------------------------------------------
(* All of it *)

LEMMA TradeGood ==
    ASSUME DemoInv, NEW t \in Tabs, NEW u \in Users, TradeNext(t, u)
    PROVE  Good(t)
BY CreateOrderGood, PayGood, CancelGood, ShipGood, ConfirmGood, AgreeRefundGood, MoveOnlyGood,
   ArbitrateGood, RechargeGood, WithdrawGood
   DEF TradeNext

LEMMA ShelfGood ==
    ASSUME DemoInv, NEW t \in Tabs, NEW u \in Users, ShelfNext(t, u)
    PROVE  Good(t)
BY PublishBookGood, EditBookGood, ShelvedGood DEF ShelfNext

LEMMA RequestGood ==
    ASSUME DemoInv, NEW t \in Tabs, NEW u \in Users, Request(t, u)
    PROVE  Good(t)
BY TradeGood, ShelfGood, RiskGood, WordsGood, DeskGood, ForumGood, AccountGood DEF Request

LEMMA DemoStart == Init => DemoInv
<1> SUFFICES ASSUME Init PROVE DemoInv
  OBVIOUS
<1>1. \A d \in Copies : Sound(d)
  BY VisitsAssumption DEF Init, StoreInit, Copies
<1>2. AnswersAreStored
  BY DEF Init, StoreInit, AnswersAreStored
<1> QED BY <1>1, <1>2 DEF DemoInv, Init, StoreInit

LEMMA DemoStep == DemoInv /\ [Next]_vars => DemoInv'
<1> SUFFICES ASSUME DemoInv, [Next]_vars PROVE DemoInv'
  OBVIOUS
<1>1. ASSUME NEW t \in Tabs, NEW u \in Users, Request(t, u) PROVE DemoInv'
  BY <1>1, RequestGood, GoodInv
<1>2. ASSUME NEW t \in Tabs, PublicNext(t) PROVE DemoInv'
  BY <1>2, PublicGood, GoodInv
<1>3. ASSUME NEW t \in Tabs, ResetDemoData(t, Fresh) PROVE DemoInv'
  BY <1>3, ResetInv
<1>4. ASSUME NEW t \in Tabs, Save(t) PROVE DemoInv'
  BY <1>4, SaveInv
<1>5. ASSUME NEW t \in Tabs, Reload(t) PROVE DemoInv'
  BY <1>5, ReloadInv
<1>6. CASE NextDay
  BY <1>6 DEF NextDay, DemoInv, Copies, AnswersAreStored
<1>7. CASE UNCHANGED vars
  BY <1>7 DEF vars, storeVars, DemoInv, Copies, AnswersAreStored
<1> QED BY <1>1, <1>2, <1>3, <1>4, <1>5, <1>6, <1>7 DEF Next

LEMMA DemoAlways == Spec => []DemoInv
BY DemoStart, DemoStep, PTL DEF Spec

\* In every tab and in storage an order has the money rows that its status asks for, any
\* other row was left by a request that threw, and no money appears or goes but by
\* recharges (trade.js and rules.js, which move the money before they ask the state
\* machine; dataset.js, whose paid orders have rows that no handler looks for).
THEOREM DemoMoneyFollowsStatus == Spec => []StatusHasMoney
<1>1. DemoInv => StatusHasMoney
  BY DEF DemoInv, Sound, MoneySound, StatusHasMoney
<1> QED BY <1>1, DemoAlways, PTL

\* If the tab that stored last waits for no timer and its data fits, storage has every
\* answered change that the tab has (save in store.js, whose timer Answer sets).
THEOREM DemoAnswersSurvive == Spec => []AnswersAreStored
<1>1. DemoInv => AnswersAreStored
  BY DEF DemoInv
<1> QED BY <1>1, DemoAlways, PTL

\* Whoever is restricted has a penalty of that kind that was not revoked (applyPenalty
\* and revokePenalty in rules.js and risk.js, the unban route of admin.js).
THEOREM DemoBansHaveReasons == Spec => []BansHaveReasons
<1>1. DemoInv => BansHaveReasons
  BY DEF DemoInv, Sound, PeopleSound, BansHaveReasons
<1> QED BY <1>1, DemoAlways, PTL
=============================================================================
