----------------------------- MODULE WordGuard -----------------------------
(***************************************************************************)
(* The banned-word guard in front of everything a user publishes: the      *)
(* matcher each process keeps in memory for a while, and what enforce does *)
(* to the author of a text that is hit.  Every statement of enforce        *)
(* commits by itself, so requests of one user interleave between them and  *)
(* a process that goes down leaves the rest undone.                        *)
(*                                                                         *)
(* A text is the sequence of the words in it that a moderator might ban;   *)
(* what a check finds in real text is the subject of WordCheck.  One       *)
(* school; the minutes of the cache and the days of a mute are two clocks. *)
(***************************************************************************)
EXTENDS Integers, Sequences, FiniteSets

CONSTANTS
    Users, Procs,
    Slots,       \* bound: the requests in flight at once
    MaxPosts,    \* bound: the requests that can ever be made
    MaxChanges,  \* bound: the changes of the library
    Words,       \* the words that can be banned
    Listed,      \* those in force at the start
    LevelOf,     \* banned_words.level of each
    Texts,       \* what users write
    Ttl,         \* minutes a matcher is kept
    LoadTime,    \* bound: minutes between reading the library and keeping it
    Debit,       \* banned_word.penalty.L3.scoreDelta, as a positive number
    InitScore,   \* credit score at the start
    PublishScore,\* the least score that may publish (credit.tier_permissions)
    HintLimit,   \* L1_hint_per_day
    MuteHits,    \* L2L3_mute_hits
    BanHits      \* L2L3_post_ban_hits

\* Days of the three mutes: L1_mute_days, L2L3_mute_days, L2L3_post_ban_days,
\* shortened; only their order matters here.
MuteDays == [hint |-> 1, serious |-> 2, postBan |-> 3]

ASSUME WordGuardAssumption ==
    /\ LevelOf \in [Words -> 1..4] /\ Listed \subseteq Words
    /\ {MaxPosts, MaxChanges, LoadTime, InitScore, PublishScore, Debit} \subseteq Nat
    /\ {Ttl, HintLimit, MuteHits, BanHits} \subseteq Nat \ {0}

VARIABLES
    listed,     \* banned_words: minutes since each word was listed, or Unlisted
    matcher,    \* the matcher cache of each process
    users,      \* ban switches and credit score
    hits,       \* word_hits: how many of each user, by the counts enforce takes
    penalties,  \* penalties with source word_hit, and credit_logs of the rule
    req,        \* the requests in flight
    posted,     \* requests made so far
    changes     \* changes of the library so far

guardVars == <<listed, matcher, users, hits, penalties, req, posted, changes>>

Unlisted == -1
OldAge   == Ttl + LoadTime + 1      \* ages are not told apart beyond this
NoReq    == [phase |-> "idle"]
Busy     == {s \in Slots : req[s] # NoReq}
InForce  == {w \in Words : listed[w] # Unlisted}

GuardInit ==
    /\ listed = [w \in Words |-> IF w \in Listed THEN OldAge ELSE Unlisted]
    /\ matcher = [p \in Procs |-> [words |-> {}, left |-> 0]]
    /\ users = [u \in Users |-> [mute |-> 0, banned |-> FALSE, score |-> InitScore]]
    /\ hits = [u \in Users |-> [hint |-> 0, today |-> 0, serious |-> 0, severe |-> 0]]
    /\ penalties = [u \in Users |-> <<>>]
    /\ req = [s \in Slots |-> NoReq]
    /\ posted = 0
    /\ changes = 0
-----------------------------------------------------------------------------
(* The matcher *)

\* Mutant: a matcher is used however old it is.
HasMatcher(p) == matcher[p].words # {} \/ matcher[p].left > 0

\* getMatcher: a matcher is used until it expires.
Usable(p) == matcher[p].left > 0

\* How long a word that a check did not know had been in force.
Lag(text, known) ==
    LET missed == {w \in Words : /\ \E i \in DOMAIN text : text[i] = w
                                 /\ w \in InForce /\ w \notin known}
    IN  IF missed = {} THEN 0
        ELSE CHOOSE n \in 0..OldAge : /\ \E w \in missed : listed[w] = n
                                      /\ \A w \in missed : listed[w] <= n

Worst(text, found) ==
    LET levels == {0} \cup {LevelOf[text[i]] : i \in found}
    IN  CHOOSE l \in levels : \A m \in levels : m <= l

\* What comes once the penalties are through: a hint is let pass, masked.
Verdict(r) == IF r.level > 1 THEN "refuse" ELSE "write"

\* A profile is only checked; everything else is enforced: hits are written down.
AfterCheck(r) ==
    IF r.found = {} THEN "write" ELSE IF r.kind = "profile" THEN Verdict(r) ELSE "hits"

\* check, with the words known: where they are found, and the level of the worst.
Decided(r, known) ==
    LET found == {i \in DOMAIN r.text : r.text[i] \in known}
        next  == [r EXCEPT !.found = found, !.level = Worst(r.text, found),
                           !.lag = Lag(r.text, known)]
    IN  [next EXCEPT !.phase = AfterCheck(next)]

CheckText(s) ==
    LET r == req[s]
    IN  /\ r.phase = "check"
        /\ req' = [req EXCEPT ![s] =
                     IF Usable(r.proc) THEN Decided(r, matcher[r.proc].words)
                     ELSE [r EXCEPT !.phase = "loading", !.read = InForce]]
        /\ UNCHANGED <<listed, matcher, users, hits, penalties, posted, changes>>

\* What was read is kept, even when the library has changed since.
KeepMatcher(s) ==
    LET r == req[s]
    IN  /\ r.phase = "loading"
        /\ matcher' = [matcher EXCEPT ![r.proc] = [words |-> r.read, left |-> Ttl]]
        /\ req' = [req EXCEPT ![s] = Decided(r, r.read)]
        /\ UNCHANGED <<listed, users, hits, penalties, posted, changes>>

\* createWord and deleteWord forget the matcher of the process they run in.
Relist(w, p, age) ==
    /\ changes < MaxChanges /\ changes' = changes + 1
    /\ listed' = [listed EXCEPT ![w] = age]
    /\ matcher' = [matcher EXCEPT ![p].left = 0]
    /\ UNCHANGED <<users, hits, penalties, req, posted>>

CreateWord(w, p) == w \notin InForce /\ Relist(w, p, 0)
DeleteWord(w, p) == w \in InForce /\ Relist(w, p, Unlisted)
-----------------------------------------------------------------------------
(* enforce *)

\* After the hits are written down, what their worst level calls for.
AfterHits(r) == CASE r.level = 3 -> "debit" [] r.level = 4 -> "ban"
                  [] OTHER -> "hint"

\* The counts of word_hits that a hit of word w adds to.
Counts(w) == CASE LevelOf[w] = 1 -> {"hint", "today"}
               [] LevelOf[w] \in {2, 3} -> {"serious"} [] OTHER -> {"severe"}

\* One row after the other, each committed by itself.
WriteHit(s) ==
    LET r == req[s]
    IN  /\ r.phase = "hits"
        /\ \E i \in r.found :
             /\ \A j \in r.found : i <= j
             /\ hits' = [hits EXCEPT ![r.user] = [c \in DOMAIN @ |->
                           IF c \in Counts(r.text[i]) THEN @[c] + 1 ELSE @[c]]]
             /\ req' = [req EXCEPT ![s] =
                          [r EXCEPT !.found = @ \ {i},
                                    !.phase = IF r.found = {i} THEN AfterHits(r) ELSE @]]
        /\ UNCHANGED <<listed, matcher, users, penalties, posted, changes>>

Entry(kind, count) == [kind |-> kind, count |-> count]

\* Once for the text, and never below zero.
Charged(r, score) == IF score > Debit THEN score - Debit ELSE 0

\* applyRule: the score is read and the log written, then the score.
DebitScore(s) ==
    LET r == req[s]
    IN  /\ r.phase = "debit"
        /\ penalties' = [penalties EXCEPT ![r.user] = Append(@, Entry("debit", 0))]
        /\ req' = [req EXCEPT ![s].phase = "store",
                     ![s].score = Charged(r, users[r.user].score)]
        /\ UNCHANGED <<listed, matcher, users, hits, posted, changes>>

StoreScore(s) ==
    /\ req[s].phase = "store"
    /\ users' = [users EXCEPT ![req[s].user].score = req[s].score]
    /\ req' = [req EXCEPT ![s].phase = "hint"]
    /\ UNCHANGED <<listed, matcher, hits, penalties, posted, changes>>

\* penaltyService.apply: the row is written, then the switch of the user.
Punish(s, r, kind, count, then) ==
    /\ penalties' = [penalties EXCEPT ![r.user] = Append(@, Entry(kind, count))]
    /\ req' = [req EXCEPT ![s] = [r EXCEPT !.phase = "switch", !.penalty = kind,
                                          !.then = then]]

Spare(s, r, then) ==
    /\ req' = [req EXCEPT ![s] = [r EXCEPT !.phase = then]]
    /\ UNCHANGED penalties

Ban(s) ==
    /\ req[s].phase = "ban"
    /\ Punish(s, req[s], "severe", hits[req[s].user].severe, "hint")
    /\ UNCHANGED <<listed, matcher, users, hits, posted, changes>>

\* Mutant: the remainder is not looked at.
HintDueAtOnce(n) == n > 0

HintDue(n) == n > 0 /\ n % HintLimit = 0

\* The two counts of applyEscalation, read one after the other whatever the
\* level of the hits that led here; the penalties follow.
CountHints(s) ==
    /\ req[s].phase = "hint"
    /\ req' = [req EXCEPT ![s].phase = "serious", ![s].today = hits[req[s].user].today]
    /\ UNCHANGED <<listed, matcher, users, hits, penalties, posted, changes>>

CountSerious(s) ==
    LET r == [req[s] EXCEPT !.serious = hits[req[s].user].serious]
    IN  /\ req[s].phase = "serious"
        /\ IF HintDue(r.today) THEN Punish(s, r, "hint", r.today, "judge")
           ELSE Spare(s, r, "judge")
        /\ UNCHANGED <<listed, matcher, users, hits, posted, changes>>

Reached(n, limit) == n >= limit /\ n % limit = 0

Judge(s) ==
    LET r == req[s]
        n == r.serious
    IN  /\ r.phase = "judge"
        /\ IF Reached(n, BanHits) THEN Punish(s, r, "postBan", n, Verdict(r))
           ELSE IF Reached(n, MuteHits) THEN Punish(s, r, "serious", n, Verdict(r))
           ELSE Spare(s, r, Verdict(r))
        /\ UNCHANGED <<listed, matcher, users, hits, posted, changes>>

\* applyBanFields: a mute never gets shorter.
Switch(s) ==
    LET r == req[s]
        u == users[r.user]
        days == IF u.mute > MuteDays[r.penalty] THEN u.mute ELSE MuteDays[r.penalty]
    IN  /\ r.phase = "switch"
        /\ users' = [users EXCEPT ![r.user] =
                       IF r.penalty = "severe" THEN [u EXCEPT !.banned = TRUE]
                       ELSE [u EXCEPT !.mute = days]]
        /\ req' = [req EXCEPT ![s].phase = r.then]
        /\ UNCHANGED <<listed, matcher, hits, penalties, posted, changes>>

\* CONTENT_BLOCKED: the request ends, nothing is published.
Refuse(s) ==
    /\ req[s].phase = "refuse"
    /\ req' = [req EXCEPT ![s] = NoReq]
    /\ UNCHANGED <<listed, matcher, users, hits, penalties, posted, changes>>
-----------------------------------------------------------------------------
\* requirePublishPermission, or only authenticate.
MayPublish(u) == ~users[u].banned /\ users[u].mute = 0 /\ users[u].score >= PublishScore
MayEdit(u)    == ~users[u].banned

\* A request on its way to the check: what it is for, and its text.
Request(u, p, kind, on, title, content) ==
    [phase |-> "check", user |-> u, proc |-> p, kind |-> kind, on |-> on,
     title |-> title, content |-> content, text |-> title \o content,
     found |-> {}, level |-> 0, lag |-> 0, read |-> {}, wait |-> 0, score |-> 0,
     today |-> 0, serious |-> 0, penalty |-> "none", then |-> "none", floor |-> 0, seen |-> {}]

Begin(s, r) ==
    /\ req[s] = NoReq /\ posted < MaxPosts
    /\ req' = [req EXCEPT ![s] = r]
    /\ posted' = posted + 1

Loading == {s \in Busy : req[s].phase = "loading"}

\* A minute passes; a library that was read is kept within LoadTime.
Minute ==
    /\ Loading # {} \/ \E p \in Procs : matcher[p].left > 0
    /\ \A s \in Loading : req[s].wait < LoadTime
    /\ req' = [s \in Slots |-> IF s \in Loading THEN [req[s] EXCEPT !.wait = @ + 1]
                              ELSE req[s]]
    /\ matcher' = [p \in Procs |-> [matcher[p] EXCEPT !.left = IF @ > 0 THEN @ - 1 ELSE 0]]
    /\ listed' = [w \in Words |-> IF listed[w] \in 0..(OldAge - 1) THEN listed[w] + 1
                                  ELSE listed[w]]
    /\ UNCHANGED <<users, hits, penalties, posted, changes>>

\* A day passes: matchers are long expired, mutes run down, and the hits of the
\* day before no longer count as today's.
Day ==
    /\ Busy = {}
    /\ \E u \in Users : users[u].mute > 0 \/ hits[u].today > 0
    /\ matcher' = [p \in Procs |-> [matcher[p] EXCEPT !.left = 0]]
    /\ listed' = [w \in Words |-> IF w \in InForce THEN OldAge ELSE Unlisted]
    /\ users' = [u \in Users |-> [users[u] EXCEPT !.mute = IF @ > 0 THEN @ - 1 ELSE 0]]
    /\ hits' = [u \in Users |-> [hits[u] EXCEPT !.today = 0]]
    /\ UNCHANGED <<penalties, req, posted, changes>>

\* A process goes down: its cache and its requests are gone.
Crash(p) ==
    /\ \E s \in Busy : req[s].proc = p
    /\ req' = [s \in Slots |-> IF req[s] # NoReq /\ req[s].proc = p THEN NoReq ELSE req[s]]
    /\ matcher' = [matcher EXCEPT ![p] = [words |-> {}, left |-> 0]]
    /\ UNCHANGED <<listed, users, hits, penalties, posted, changes>>

GuardNext ==
    \/ \E s \in Busy : \/ CheckText(s) \/ KeepMatcher(s) \/ WriteHit(s)
                       \/ DebitScore(s) \/ StoreScore(s) \/ Ban(s) \/ CountHints(s)
                       \/ CountSerious(s) \/ Judge(s) \/ Switch(s) \/ Refuse(s)
    \/ \E w \in Words, p \in Procs : CreateWord(w, p) \/ DeleteWord(w, p)
    \/ \E p \in Procs : Crash(p)
    \/ Minute
    \/ Day
=============================================================================
