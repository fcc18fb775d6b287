----------------------------- MODULE DemoRules -----------------------------
(***************************************************************************)
(* What the handlers of the demo backend share (rules.js, words.js and     *)
(* util.js): credit, penalties, the banned words, the wallet and the       *)
(* tickets, as operators on the tables d of one tab.                       *)
(*                                                                         *)
(* Ids are places in a sequence: but for words no row is ever removed.     *)
(* Notices, audit rows and the logs of tickets are left out.               *)
(***************************************************************************)
EXTENDS DemoStore, FiniteSetsExt, SequencesExt

CONSTANTS
    Students, Staff, Platform,  \* the users of the data set; Platform takes the fees
    Words,         \* texts a user can write that may be banned, one word each
    MaxScore,      \* credit.bounds.max
    Tiers,         \* credit.tiers, best first: [min, canPublish, canTrade, maxBooks]
    Debit,         \* banned_word.penalty.L3.scoreDelta, positive
    HintLimit, MuteHits, BanHits   \* banned_word.escalation

Users == Students \cup Staff \cup {Platform}
MuteDays == [hint |-> 1, serious |-> 2, post_ban |-> 3]   \* shortened, in order
Clean == "clean"    \* a text no word of which is banned
Plain == [score |-> MaxScore, verified |-> "approved", permanent |-> FALSE,
          mute |-> 0, trade_ban |-> 0, login_ban |-> 0]

\* ---- banned words: check, enforce and applyEscalation -------------------

\* The level of a text: rows that are active count, others do not.
Level(d, text) ==
    IF text \in DOMAIN d.words /\ d.words[text].status = "active"
    THEN d.words[text].level ELSE 0

Blocked(d, text) == Level(d, text) >= 2

CreditDelta(d, u, delta, key, ref) ==
    LET before == d.user[u].score
        next   == Max({0, Min({MaxScore, before + delta})})
    IN  [d EXCEPT !.user[u].score = next,
                  !.credit = Append(@, [user |-> u, delta |-> next - before, key |-> key,
                                        ref |-> ref, rolledBack |-> FALSE])]

\* applyPenalty: a new switch overwrites the old one of its kind, an earlier end
\* included, and the ban for good drops the one of the login.  users.status is left
\* out: nothing reads it but the page that shows it.
ApplyPenalty(d, u, type, days, count) ==
    LET row == d.user[u]
    IN  [d EXCEPT !.penalty = Append(@, [user |-> u, type |-> type, start |-> now,
                                         status |-> "active", appeal |-> "none", count |-> count]),
                  !.user[u] = CASE type = "permanent_ban" ->
                                     [row EXCEPT !.permanent = TRUE, !.login_ban = 0]
                                [] type = "warning" -> row
                                [] OTHER -> [row EXCEPT ![type] = now + days]]

Hits(d, u, levels, since) ==
    Cardinality({i \in DOMAIN d.hits : /\ d.hits[i].user = u /\ d.hits[i].level \in levels
                                       /\ d.hits[i].at >= since})

\* A mute for the hits of the day, and one for the serious hits so far.
ApplyEscalation(d, u) ==
    LET l1  == Hits(d, u, {1}, now - 1)
        l23 == Hits(d, u, {2, 3}, 0)
        e   == IF l1 > 0 /\ l1 % HintLimit = 0
               THEN ApplyPenalty(d, u, "mute", MuteDays.hint, l1) ELSE d
    IN  CASE l23 > 0 /\ l23 % BanHits = 0 -> ApplyPenalty(e, u, "mute", MuteDays.post_ban, l23)
          [] l23 > 0 /\ l23 % BanHits # 0 /\ l23 % MuteHits = 0 ->
               ApplyPenalty(e, u, "mute", MuteDays.serious, l23)
          [] OTHER -> e

Unassigned == "unassigned"

InsertTicket(d, type, reporter, urgent, escalated) ==
    [d EXCEPT !.ticket = Append(@, [type |-> type, reporter |-> reporter, status |-> "pending",
        assignee |-> Unassigned, answered |-> FALSE, urgent |-> urgent, escalated |-> escalated,
        firstDue |-> now + 1, resolveDue |-> now + IF urgent THEN 1 ELSE 3])]

\* openTicket: with ticket.auto_escalate, an urgent ticket is escalated at once.
OpenTicket(d, type, reporter, urgent) == InsertTicket(d, type, reporter, urgent, urgent)

\* enforce: all that happens to the author of a text, before a blocked text throws.
Enforce(d, u, text) ==
    LET level == Level(d, text)
        hit   == [d EXCEPT !.hits = Append(@, [user |-> u, level |-> level, at |-> now])]
        after == CASE level = 3 -> CreditDelta(hit, u, -Debit, "banned_word", text)
                   [] level = 4 -> ApplyPenalty(InsertTicket(hit, "content", u, TRUE, FALSE),
                                                u, "permanent_ban", 0, 1)
                   [] OTHER     -> hit
    IN  IF level = 0 THEN d ELSE ApplyEscalation(after, u)

\* ---- who may do what: requireUser and util.js ----------------------------

Admitted(t, u) ==
    /\ ~db[t].user[u].permanent
    /\ db[t].user[u].login_ban <= now

\* creditTier and creditPermissions: a score below every tier has the last one.
Tier(score) ==
    LET fits == {i \in DOMAIN Tiers : score >= Tiers[i].min}
    IN  Tiers[Min(fits \cup {Len(Tiers)})]

Verified(t, u) == db[t].verifies => db[t].user[u].verified = "approved"

MayPublish(t, u) ==
    /\ db[t].user[u].mute <= now
    /\ Tier(db[t].user[u].score).canPublish

MayTrade(t, u) ==
    /\ db[t].user[u].trade_ban <= now
    /\ Tier(db[t].user[u].score).canTrade

\* ---- wallet.  A row with a key that was used before is not posted again; the rows
\* of a data set as it is shipped have keys of their own, which no handler looks for.
\* A fee of nothing counts as posted ------------------------------------------------

NoKey     == <<"no key">>
ClientKey == <<0, "recharge">>   \* one that a client sends with a recharge

WalletRecord(d, u, account, amount, key) ==
    IF key \in d.keys THEN d
    ELSE [d EXCEPT ![account][u] = @ + amount,
                   !.keys = IF key = NoKey THEN @ ELSE @ \cup {key}]

EscrowHold(d, o) ==
    LET r == d.orders[o]
        e == WalletRecord(d, r.buyer, "balance", -r.amount, <<o, "pay:balance">>)
    IN  WalletRecord(e, r.buyer, "frozen", r.amount, <<o, "pay:frozen">>)

EscrowRelease(d, o) ==
    LET r == d.orders[o]
        e == WalletRecord(d, r.buyer, "frozen", -r.amount, <<o, "release:buyer-frozen">>)
        f == WalletRecord(e, r.seller, "balance", r.amount - r.fee, <<o, "release:seller">>)
    IN  WalletRecord(f, Platform, "balance", r.fee, <<o, "release:fee">>)

EscrowRefund(d, o) ==
    LET r == d.orders[o]
        e == WalletRecord(d, r.buyer, "frozen", -r.amount, <<o, "refund:frozen">>)
    IN  WalletRecord(e, r.buyer, "balance", r.amount, <<o, "refund:balance">>)

\* History: the keys of the rows that a request posted before it threw.
Stranded(d, e) == [e EXCEPT !.strays = @ \cup (e.keys \ d.keys)]
=============================================================================
