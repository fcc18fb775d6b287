# Verification of the university book trading market

This directory holds TLA+ models of the server in `src/server/src`, and of the demo
backend that replaces it in the browser (`src/web/src/demo`): modules that TLC checks
on small instances, and theorems about them that TLAPS proves for all instances.
`PROJECT.json` lists the components, the runs, for every property a mutant of the
code that breaks it, the source lines behind every definition, the hazards and the
findings.

    tlc -workers 2 -config MCEscrowUi.cfg MCEscrow     # a run
    tlapm OrderEscrowProofs.tla                        # a proof module

## 1. The system

Students sell each other used books. A Node/Express server keeps everything in
MySQL; Redis caches and counts. Every state change is a request handler, one of four
scheduled jobs, or a script. Several server processes may run at once, and even
within one process every `await` lets other requests in, so the unit of atomicity is
the SQL statement or the call of Redis, and the transaction only where the code opens
one and locks the row it tests (`SELECT ... FOR UPDATE`). The demo build has no
server: its handlers run in the browser, one at a time, over one `localStorage`.

| Component | State | Operations | What makes it correct |
|---|---|---|---|
| Orders (`order.service.js`, `state-machine.js`) | `orders`: status, escrow status, countdown, price, fee | create, pay, ship, confirm, cancel, request refund or return, agree, reject, dispute, arbitrate | a book has one unfinished order; money follows the status; a dispute freezes everything |
| Escrow (`escrow.service.js`) | none of its own | hold, release, refund as chains of ledger records | an order's money is held once, then released or refunded once and in full |
| Wallet (`wallet.service.js`) | append-only ledger, cached balance and frozen amount | record, recharge, withdraw, settle a withdrawal | cache = ledger, nothing negative, money conserved |
| Books (`books.routes.js`, content review in `admin.routes.js`) | `books`: status, deleted, texts | publish, revise, take off the shelf, relist, delete, approve, hide, erase | a stale request never sells a book twice or leaves it locked; the limit of listed books is passed only by what ran at once |
| Auto-confirm job (`autoConfirmDue`) | the batch in the memory of a run | scan, confirm one by one | every shipped order moves on; nothing disputed is released |
| Job scheduler (`scheduler.js`) | `job_locks`, `lastRunAt` per process | due test, acquire, run, release | what another process does never takes a run's lock away; no lock is left behind for ever |
| Reports, penalties, appeals (`report`, `penalty` services, `reports.routes.js`) | reports, penalties, appeals, three ban switches | file, accept, decide, ban, lift, appeal, review, sweep | a decision closes a report to all that comes later; a ban has a reason; points given back once |
| Credit (`credit.service.js`) | score, `credit_logs` | bonus, deduction, rollback | the score is what the log says |
| Banned words (`word.service.js`, `word-matcher.js`, `normalize.js`) | the library, a compiled copy per process, hits per user | normalise, match, mask, record a hit, escalate | exact occurrences; a new word reaches every process; a punishment has its evidence |
| Conversations, threads, profiles (`conversations`, `threads`, `users` routes) | threads, replies, floors, counts, conversations, messages, bios | post, edit, reply, delete, open, send | what is stored was checked; counts are never too high |
| Tickets (`ticket.service.js`) | tickets | create, claim, reply, resolve, escalate, overdue job | one assignee; nothing happens after the end; what is overdue is escalated |
| AI customer service (`ai-cs.service.js`) | sessions, unresolved rounds | message, transfer, refund ticket | who is not answered is handed over, and once |
| Accounts (`auth`, `payment-accounts`, `verifications`, `schools` routes, `sms.service.js`) | codes, payment accounts, verification forms, school applications | send, verify, register, change password, bind, unbind, review | a code serves once, wrong entries are bounded, one default account |
| Sessions (`auth.routes.js`, `middleware/auth.js`) | tokens, the list of revoked ones | log in, refresh, log out, authenticate | a revoked token stays out |
| Configuration (`config.service.js`) | `configs`, two cache levels | get, set with a version, invalidate | a stale value dies in time; edits start from one version |
| Idempotent requests, transactions (`idempotency.js`, `tx.js`) | `idempotency_records`, connections, row locks | reserve, run, replay, retry, commit, roll back | a retried request takes effect once; every request ends |
| Start-up (`migrate.js`, `seed.js`, `server.js`) | schema, `schema_migrations`, seeded rows | migrate, seed, serve | what is recorded is there; what was seeded is whole |
| Demo backend (`src/web/src/demo`) | one store per tab, one copy in `localStorage` | every request of the server, delayed save, load, reset | status and money agree; what was answered is stored |
| Web client, session (`stores/auth.js`, `api/client.js`, `router`) | tokens in `localStorage`, per tab a store of user and wallet | guard, load, log in, refresh, log out, reset | a tab shows whose token it uses |
| Data retention, uploads, the client's other pages, deployment | – | – | not modelled, see section 7 |

How they interact:

* an order handler calls the escrow, which calls `walletService.record` two or
  three times in the handler's transaction; it updates the book conditionally;
  shipping adds credit; a dispute opens a ticket;
* the book routes and the content review write `books.status` without looking at
  orders, so they race with them;
* the scheduler starts the auto-confirm job, the sweep of expired penalties, the
  escalation of tickets and the retention job, each under its own lock row;
* everything users write goes through the word guard, which mutes, bans and deducts
  credit in statements of its own; a ruling or a ban does it in one transaction;
* `authenticate` reads the ban switches on every request, the appeal included;
* all of them read the configuration through two caches.

What is hard here: handlers that test a row in one statement and write in another
(books, reports, appeals, the unban route, codes, payment accounts, sessions of the
assistant, both jobs); batches read before and used after other requests; crashes
between two statements; ledger keys that make a second `pay` a silent no-op; one pot
of frozen money per user for all his orders and withdrawals; scores cut off at their
bounds; a lock that its holder can take twice; caches filled by a read that crosses
the invalidation; a pooled connection per transaction and a retry budget; answers that
reach a tab after another one has logged in or out.

## 2. The modules

| Module | Models | Notes |
|---|---|---|
| `OrderMachine` | the seeded table `order.state_machine`, `canTransition` | pure definitions |
| `Wallet` | `walletService`, `withTransaction` | an *outcome* is a wallet plus "all records so far were accepted"; `Try` adds a record, `Commit` ends the transaction |
| `BookShelf` | the shelf requests and the one-statement content review | |
| `OrderEscrow` | the order handlers, the escrow stages, the auto-confirm job; composes the three above | one action per handler |
| `EscrowPromise` | what the escrow owes the parties, without statuses, ledger or frozen money | abstract specification |
| `OrderEscrowProps` | the properties of `OrderEscrow`, and the refinement mapping to `EscrowPromise` | |
| `OrderEscrowProofs` | theorems about `OrderEscrow`: types, orders and books, settlement, the ledger's sums, the refinement | |
| `Sums` | lemmas about sums over finite sets, and their largest elements | used by five of the proof modules |
| `JobLock` | one job of the scheduler under its lock | its theorems are in `RequestProofs` |
| `Moderation`, `ModerationProps`, `ModerationProofs` | reports, penalties, appeals, switches, credit, sweep | |
| `WordCheck`, `WordProofs` | normalising, the automaton, patterns, the whitelist, masking | recursive functions of a text, checked against a reference definition |
| `WordGuard` | the library and its copies, loads, a check statement by statement, hits and the ladder | |
| `Forum`, `ForumProps`, `ForumProofs` | threads, replies, books, profiles, conversations behind the guard | extends `WordGuard` |
| `Support` | tickets, the overdue job, the assistant | its theorems are in `ModerationProofs` |
| `Accounts`, `Reviews`, `Sessions`, `WebClient` | codes, passwords and payment accounts; forms and applications; tokens; the tabs of a browser | `AccountSystem` puts them side by side and states their properties; `AccountProofs` |
| `Setup`, `ConfigCache`, `Transactions` | migrations and seed; the two caches and the rate limiter; the pool, row locks, keys | `RequestSystem` puts them side by side and states their properties; `RequestProofs` |
| `DemoStore`, `DemoRules`, `DemoTrade`, `DemoRisk`, `DemoForum`, `DemoAccount` | the demo backend: tabs and storage; the store's shape and helpers; its handlers by file | `DemoBackend` composes them and states their properties; `DemoProofs` |
| `MCEscrow`, `MCJobLock`, `MCModeration`, `MCWordCheck`, `MCForum`, `MCAccounts`, `MCRequests`, `MCDemo` | constants for TLC | `Support` is run as it is |

Where two subsystems share no state (the parts of `AccountSystem`, `RequestSystem`
and `DemoBackend`, the two scenes of `Support`), a variable that never changes picks
the one a behaviour exercises. This loses nothing, since their steps commute, and it
saves the product of their state spaces.

### Orders and the code

Every handler of `order.service.js` runs in `withTransaction` and locks its order
(or, for `create`, the book) with `FOR UPDATE` before it tests anything, so it is
one action: the transition test (`Transition`), the ledger records (`Commit` of
the stage's outcome), the conditional book update (`SetBookStatus`) and the credit
bonus (`Ship`) are conjuncts of it. A handler that throws rolls back and is not a
step. What lies under this, connections, lock waits, retries, is in `Transactions`.

`wallet.ledger` is a set of entries: `idempotency_key` is unique, and an entry
once posted is never changed. A repeated `record` returns the stored entry and
leaves the cache alone (`Record`), but only after the test that the money is
there (`CanRecord`), in the order of the source. This matters: the state machine
leads from `refund_requested` back to `paid`, so `pay` may run twice.

Time is the countdown of each order: `auto_confirm_at` is NULL (`off`), in the
future (`running`) or past (`elapsed`). All countdowns are equally long, so
`earlier`, the order of the last shipments, is all that the `ORDER BY` of the scan
depends on. The scan and each confirmation of the job are separate actions,
because the code reads the batch through the pool and opens a transaction per
order; several workers may be at work, because the scheduler's lock does not
prevent it (see `JobLock`).

`UiOnly` separates two questions. The web client offers "reject" only on orders
with a requested refund or return; the server tests only that the state machine
has an edge to `paid`. With `UiOnly = TRUE` the model is the system as used from
the client, with `FALSE` the API.

### The job lock and the code

`job_locks` is one record: who took the lock last and how long it still runs.
`INSERT ... ON DUPLICATE KEY UPDATE` is one atomic statement (`Taken`); reading
the row back is another one (`Acquire`, `Skip`); both can come late or fail.
`Slots` are the runs that one process has in flight. `setInterval` does not wait
for `runDueJobs`, and `lastRunAt` is written only after the handler has returned,
so a run that outlasts a tick is joined by a second one under the same name, and the
first to end gives back the lock of both. A crash forgets `lastRunAt` and brings the
process back under the same `host#pid` or another one. `age` and `freed`, which are not
in the code, are history: the time since a run asked for the lock, and that another run
of its process has given it back since.

### Moderation and the code

`decide`, `accept`, the review of an appeal and the filing of one read and test a
row through the pool, and write in a statement or transaction of their own. `desk`
holds the request each moderator has in between, `appeals[a].status = "checked"`
an appeal that has been tested and not inserted. `BeginRuling` takes the snapshot
in which `countEffectiveViolations` runs (REPEATABLE READ), `Uphold` commits. The
unban route writes the user and the penalties in two statements (`LiftBan`,
`RevokeLifted`); the sweep writes each penalty and each user separately
(`SweepMark`, `SweepClear`). Days are numbers; NULL is 0, and so "NULL or in the
past" and "expired" coincide exactly where the SQL lets them. `met`, `behind` and
`late` are history: that two moderators had requests in flight at once, whatever these
were about; whose request on a report was in flight when a decision on that report was
committed; and how many such requests have written after all.

### Words, forum and the code

`WordCheck` is a function of a text and a library: the state is one text, and the
run enumerates all of them. NFKC is an operator on whole texts, as the code asks for it
on the whole string: it may make one character several or several one, and all places
are counted after it and cut off at the end of the original, as `normalizeWithMap` does.
`WordGuard` keeps only what the concurrency turns on. A
text is a sequence of words, its hits are the places found, worked off in their order;
one text may hold a word twice. One request goes through loading the library (if the
process's copy has expired), the verdict, the masked or rejected text, and then, one
statement each, the record of the hit, the count, the mute, ban or deduction and its
penalty row. `createWord` and `deleteWord` clear the copy of their own process only;
the others learn of it when their copy expires. `req[s].lag` (history) is how long a
word had been listed when a request was judged without it. Threads keep the title and
the text as they were sent even when a hint word was hit, as the code does. A profile
is only checked: its bio is refused or stored, and nothing is recorded.

In `Forum` every request reads first, and writes after the guard: editing a thread or
a book uses the row it read, a reply takes its floor from a count, publishing and
relisting test the limit on a count. Moderators hide, delete and restore in between.

### Customer service and the code

The routes of staff lock the ticket in a transaction and are one action each.
Creating a ticket is an insert and, for urgent ones, an update; the assistant's
request counts the round, looks for an open ticket, links it and answers in
statements of their own, from the session as it read it at the start. The job reads
the overdue tickets with a limit and escalates them one by one. `streak` is history:
the user's own count of unanswered rounds, `Blurred` once two of his messages ran at
once or one was lost in a crash, for then the code promises no number.

### Accounts, sessions and the code

A code is a key of Redis; sending, counting wrong entries, comparing and deleting
are separate calls. Registration reads the phone, checks the code, inserts under a
unique key; changing the password checks the code of the scene `reset`. Binding a
card tests the cooling period, inserts the card and then clears the other defaults;
choosing the default clears all and sets one. `Break` is any request that stops between
two of its calls, because one of them fails or the process goes down: what it has
written stays. Reviews test the form outside their transaction.
A token is the second it was issued in, because `iat` is all the code compares; so
two tokens of one second share their revocation, as in the code.

`WebClient` is the build that talks to the server. The tabs of a browser share the
tokens in `localStorage`; each has its own store of user and wallet (`shown`), filled
when a call to `me` or to the wallet is answered. A call carries the token of the moment
it is made; several may be under way, from several tabs, and each is answered, refused
or fails, at any time. The router's guard asks who the user is unless the store is
loaded, a login stores the tokens first and asks then, a refusal and a logout clear
tokens and store (`reset`) whatever is stored by then. Nothing tells one tab of what
another does, so the page of one user can act as another; `crossed` is history and says
that this has happened: tokens changed while another tab showed somebody or another
call was under way, or a login over another one was left half done. The property is
about the behaviours without it.

### Requests and the code

`ConfigCache`: `get` is up to four calls (memory, Redis, the school's row, the
common row) and two fills; `set` compares the version in one statement and writes in
another, then invalidates. Killing a process loses its memory and whatever it had
not yet called. `Transactions`: a request takes a connection of the pool or queues,
locks its rows in the order of its plan, reserves its key, makes its effect, commits.
A lock that waits ends in the rows or in a lock error, which rolls back and retries
as `tx.js` says. A lost answer makes the client send the same key again. `Setup`:
`migrate` reads the ledger, runs each statement of the missing files, records the
file; `seed` is one transaction until its first `TRUNCATE`, which commits it.

### Demo backend and the code

Each handler is an action on one tab's store (`db`), split only where the code
throws after a change, since nothing rolls back there: such a request is `Keep`, with
the changes made before the throw, and schedules no save; one that returns is
`Answer`. A tab saves 50 ms later, the whole store, over whatever another tab saved.
`Visits` are the stores a behaviour starts from, what an earlier visit may have left
in storage, and the requests it makes are those of that visit's handlers.

## 3. What is checked

| Run | Distinct states | Properties | Question |
|---|---|---|---|
| `escrow_ui` | 129,736 | `TypeOK`, `FrozenCoversClaims`, `MoneyConserved`, `EscrowFollowsStatus`, `KeepsPromise`, `ShippedOrdersMoveOn` | Does the money of two crossing sales do what the parties were promised, and does every shipped order move on? |
| `escrow_api` | 218,896 | `CacheMatchesLedger`, `SettlementMatchesStatus`, `OneActiveOrderPerBook`, `LockedHasActiveOrder`, `DisputeFreezes` | Do ledger, locks and disputes survive everything the API and the book routes allow, and two job runs at once? |
| `moderation` | 1,724,738 | `CreditFollowsLog`, `NeverGivesBackMore`, `BanHasReason`, `RuledOnce` | Do scores, bans and rulings stay consistent across two moderators, manual bans and the sweep? |
| `word_check` | 149,792 | `KeywordHitsExact`, `HitsPlacedAndMasked` | Does the matcher find exactly the occurrences, which places does it report for them, and what does masking leave of them? |
| `word_guard` | 884,074 | `WordsReachEveryProcess`, `PunishmentsAreOnRecord` | Is a new word known everywhere in bounded time, and does every punishment keep its evidence? |
| `forum` | 277,950 | `StoredWasChecked`, `RepliesAddUp`, `ListingOvershootBounded` | Do concurrent edits, replies and listings keep checked texts, floors, counts and limits? |
| `support` | 354,489 | `HandedOverOnce`, `TicketKeepsItsCourse`, `OverdueIsEscalated` | Do tickets keep their assignee and end, are users handed over, is what is overdue escalated? |
| `accounts` | 3,064,265 | `CodesHold`, `DefaultsBounded`, `ReviewsAgree`, `SessionsHold` | How far can what a call reads and what it does later drift apart, and whom does a browser show? |
| `requests` | 427,005 | `RecordedMeansApplied`, `SeededMeansWhole`, `CachesEnd`, `EditsFromOneVersion`, `KeysServeOnce`, `EveryRequestEnds` | Do set-up, caches and transactions keep what every handler builds on? |
| `job_lock` | 140,283 | `OneCoveredProcess`, `JobIsRunForEver` | How far do two processes exclude each other, and does the job go on? |
| `demo` | 1,466,588 | `StatusHasMoney`, `AnswersAreStored`, `BansHaveReasons` | Does the demo backend keep money, bans and its storage consistent without transactions? |
| `paid_without_funds` | violation | `PaidMeansHeld` | Is a paid order's money in escrow, as the requirements say? |

Several properties say by how much the code may be wrong rather than that it is
right, because that is what it promises: where a limit is tested in one statement and
passed in another, `ListingOvershootBounded`, `DefaultsBounded`, `CodesHold` and the
second half of `HandedOverOnce` bound the excess by what ran at once, `DefaultsBounded`
and `CodesHold` also by what broke off. `RuledOnce` charges every penalty beyond the
first, and every one that stays after a dismissal, to a request that a decision overtook.
`OneCoveredProcess` says what takes a lock away from a run: its term, or another run of
its own process, and nothing else. `StatusHasMoney` allows the rows that a request left
behind when it threw, and no others. `BanHasReason` alone is stated for moderators who
never work at the same time (`met`), since it fails otherwise (section 5).

`CodesHold`, `ReviewsAgree`, `SessionsHold`, `CachesEnd`, `HandedOverOnce`,
`PunishmentsAreOnRecord` and some others are conjunctions of named parts, each with a
comment of its own.

### Bounds and why they are enough

* `escrow_ui`: two order ids, two books, two students who sell to each other, so that
  one student's frozen money backs a purchase while his balance receives a sale.
  Prices 5 and 4 with 20 % give a fee of 1 and a fee rounded to 0. One withdrawal and
  two recharges of 5 make scarcity: a student cannot afford everything. One job with a
  batch limit of one, which crashes: an order left behind must be read again.
* `escrow_api`: one book and both orders on it, every shelf and review request on it,
  and two job runs with a batch limit of one. Every property relates one order to the
  ledger, or two orders to each other, a book or a user, so two orders are the
  smallest instance with all the cases.
* `job_lock`: two processes with up to two runs each, interval 1 and term 2, which is
  half as long again, rounded up, as in the source.
* `moderation`: one student, one report, two moderators, two penalties, one appeal,
  two days, one bonus, a ladder of two steps (mute, login ban) whose first deducts 8 of
  10 points. With two penalties of one type the earlier and the later ban overlap;
  with 8 of 10 points and a bonus of 2 a rollback reaches the upper bound of the
  score, and a second deduction the lower one.
* `word_check`: every text of up to four of eight characters: two letters of words, a
  look-alike, two latin letters whose pair is an alias, a symbol, a character that NFKC
  makes two, and a mark with which it makes a letter another character, so that places
  move back and forth; words that overlap, one of them the suffix of another, so that
  failure links matter.
* `word_guard`: one user with two requests in two processes, a library of three levels
  with one change, caches that live one unit and a load that takes one; two hits mute
  and three ban, so that two crossing requests can both take a step.
  `forum`: no banned words, since the guard's own steps are the other run's, two users,
  two requests at once, three in all, one group of kinds per behaviour.
* `support`: one user with two requests at once, four in all; two members of staff, two
  tickets, a job that reads one at a time, a crash.
* `accounts`: two requests at once, three cards, so that the bound on defaults is not met
  for lack of cards, two codes, one wrong entry allowed, six requests about codes and
  five about cards, any of which may break off; two reviewers, two forms, four reviews, one crash; two devices, four
  seconds, an access token of two and a refresh token of three, so that a revoked
  token's entry can end before, with and after the token; two tabs, two people, two
  calls under way, three logins, so that one tab's answer comes after the other's login.
* `requests`: two processes, one with administrators, one entry on two levels, two calls
  at once, cache lives of 1 and 2, three writes, one kill; three transactions over two
  connections, one key, two of them locking two rows in opposite order, one retry, one
  fall; two overlapping migrations of two files of which one has two statements, two
  seeds, one death.
* `demo`: two tabs, three students, one of them not registered, one administrator, the
  platform, two days; two or three requests, depending on the visit. The fresh data set
  has, as `createDataset` does, a paid and a completed order whose rows carry `seed-` keys
  that no handler looks for, balances to match, and a penalty; the visits add what brings
  the interesting step near (a sale under way, an appeal, a pending form). Users and
  orders are what is reported; books and threads lead to the same handler.

Two of anything that can cross, and one more where a third must wait for two, is the
rule. `Permutations` of interchangeable model values are the symmetry of `moderation`,
`forum`, `word_guard`, `accounts` and `demo`, which check invariants only. Deadlock is
not checked: with finitely many requests, a bounded clock and users who owe the system
nothing, every instance may come to rest. Where somebody waits for somebody,
`EveryRequestEnds` says that it ends.

### Fairness

`escrow_ui`: weak fairness of time (`Elapse`) and of the scan, which the scheduler's
timer repeats; strong fairness of dealing with one and the same order, because the job
may crash as often as it likes, but not each single time it has that order in hand.
Nothing is assumed of users.

`job_lock`: weak fairness of time, of each process's timer and of the statements and
handlers coming to an end; strong fairness of reading the row back while the lock is
one's own. Crashes and failures may occur for ever.

`support`: weak fairness of the job's scan, which is a timer's, and of it going on with
its batch; strong fairness of escalating one and the same ticket, which does not fail
each time. Nothing is assumed of staff or users.

`requests`: weak fairness of each transaction's steps: MySQL grants a lock that is free,
ends a wait with an error otherwise, and the pool hands out what is returned. A request
that has not been made need not be.

## 4. What is proved

Every safety property the runs check is also a theorem; the theorems hold for any number of users, books, orders, workers,
processes, moderators, reports, penalties, texts, words, requests, keys, devices, tabs,
scripts, staff and tickets.

| Theorem | Module | Statement |
|---|---|---|
| `TypeCorrect` | `OrderEscrowProofs` | `Spec => []TypeOK`; in particular no balance, no frozen amount below zero, no credit score out of range |
| `NoOverselling` | | `Spec => []OneActiveOrderPerBook` |
| `NoOrphanedLock` | | `Spec => []LockedHasActiveOrder` |
| `DisputeIsFinalUntilArbitrated` | | `Spec => DisputeFreezes` |
| `FundsFollowStatus` | | `UiOnly` implies `Spec => []EscrowFollowsStatus` |
| `SettledOnce` | | `Spec => []SettlementMatchesStatus` |
| `CacheIsTheLedger` | | `Spec => []CacheMatchesLedger` |
| `MoneyIsConserved` | | `Spec => []MoneyConserved` |
| `FrozenMoneyIsClaimed` | | `UiOnly` implies `Spec => []FrozenCoversClaims` |
| `EscrowKeepsPromise` | | `UiOnly` implies `Spec => KeepsPromise`: the refinement of `EscrowPromise` |
| `ModerationTypes` | `ModerationProofs` | `Spec => []TypeOK` |
| `ScoreIsTheLog` | | `Spec => []CreditFollowsLog` |
| `RefundsAreBounded` | | `Deducts` implies `Spec => []NeverGivesBackMore` |
| `ReportsAreRuledOnce` | | `Spec => []RuledOnce` |
| `BansKeepTheirReason` | | `Spec => []BanHasReason` |
| `WordsSpread` | `ForumProofs` | `Spec => []WordsReachEveryProcess` |
| `PunishmentsRest` | | `Spec => []PunishmentsAreOnRecord` |
| `OnlyCheckedIsStored` | | `Spec => []StoredWasChecked` |
| `ThreadsAddUp` | | `Spec => []RepliesAddUp` |
| `ListingsStayNearTheLimit` | | `Spec => []ListingOvershootBounded` |
| `WordsAreFound` | `WordProofs` | `CheckSpec => []KeywordHitsExact` |
| `HitsAreReported` | | `CheckSpec => []HitsPlacedAndMasked` |
| `TicketsKeepTheirCourse` | `ModerationProofs` | `SupportSpec => TicketKeepsItsCourse` |
| `HandedOver` | | `SupportSpec => []HandedOverOnce` |
| `CodesAreGuarded` | `AccountProofs` | `Spec => []CodesHold` |
| `DefaultsAreFew` | | `Spec => []DefaultsBounded` |
| `ReviewsHaveOneOutcome` | | `Spec => []ReviewsAgree` |
| `LoggedOutStaysOut`, `BrowserShowsItsUser`, `SessionsEnd` | | `Spec => []SessionsHold`, its two halves first |
| `MigrationsAreWhole` | `RequestProofs` | `FairSpec => []RecordedMeansApplied` |
| `SeedsAreWhole` | | `FairSpec => []SeededMeansWhole` |
| `CachesComeToAnEnd` | | `FairSpec => []CachesEnd` |
| `EditsAreFew` | | `FairSpec => []EditsFromOneVersion` |
| `KeysServeOnceAlways` | | `FairSpec => []KeysServeOnce` |
| `LockTypeCorrect` | | `LockSpec => []LockTypeOK` |
| `LeaseExcludes` | | `LockSpec => []OneCoveredProcess` |
| `DemoMoneyFollowsStatus` | `DemoProofs` | `Spec => []StatusHasMoney` |
| `DemoAnswersSurvive` | | `Spec => []AnswersAreStored` |
| `DemoBansHaveReasons` | | `Spec => []BansHaveReasons` |

### Assumptions

All of them are named where the constants are declared, and TLC evaluates them in the
runs. What can run at once is finite (requests, desks, calls), and so are users and
cards; ids, users and the marker for "nobody" are different things; bounds are natural
numbers, and what the code divides time or batches by (terms, lives of caches, batch
limits, the hits that step the ladder) is positive. Prices are positive, the fee is at
most 20 %, the range the configuration allows; the platform is not a student, sellers
are students; scores start within their bounds; a text is a nonempty sequence; the
words that are entered are nonempty sequences of characters (`words.routes.js:47`), and
so are the replacement tables' keys; what `PHRASE_MAP` puts in has no latin letters or
digits, and the keys of `PINYIN_ALIAS` are made of nothing else (`normalize.js:28-46`);
NFKC makes nothing of nothing, and leaves every part of a text that it has normalised as
it is (Unicode Standard Annex 15); plans are nonempty sequences of rows. What an earlier visit may have left in the browser, and the
data a reset puts there, is sound (`Sound` of `DemoBackend`): typed, its money rows agree
with the statuses, under the handlers' keys or those of `createDataset`
(`seed-escrow_hold`, `seed-settle`), and add up, every restriction has its penalty row.
The prices and fees of the demo
may be any integers, and its ladder has at least one step.

Two theorems of orders and the refinement assume `UiOnly`: a seller rejects only what a
buyer has asked for. Without it they are false (`paid_without_funds`). `Deducts` says that no step of the
ladder adds points, as in the seeded configuration (`seed.js:41`); a
penalty that gave points would break the bound by itself.

### The arguments

Induction over data is not an inference of this prover's, but the existence of a minimal
counterexample is: `Sums` derives from the well-foundedness of proper inclusion that a
sum over a finite set does not depend on the order of its summands, and then what one
step does to a sum. It gets the largest element of a
finite set the same way, and `WordProofs` from it the least counterexamples that its
lemmas are made of.

Orders and money:

* `TypeCorrect` is inductive by itself. Its core is `RecordType`: a record that is
  accepted leaves a well-typed wallet. `TryType` lifts it to chains of records,
  `OutcomeTypes` to the stages of the escrow.
* `OrdersStep` sorts every step of the system by what it does to orders, wallet and
  books; the theorems on safety are case splits over it. `NoOverselling` does not
  need the book's status at all: it rests on `ActiveOrdersOn`, the second test
  of `create`, and on there being no edge out of a terminal status
  (`EdgesStartActive`). `NoOrphanedLock` needs `NoOverselling`: the order that
  unlocks the book is the only unfinished one on it.
* `DisputeIsFinalUntilArbitrated` needs `DisputeStopsCountdown`, that the countdown
  of a disputed order is off; otherwise time alone would change the order.
* `SettledOnce`: statuses and ledger keys tell the same story. The property alone
  is not inductive: for an order whose fee is zero it says nothing of the fee's
  entry. The strengthening is `FeeOnlyOnRelease`, that a fee is posted only for
  released orders; `Story(o)` is both for one order.
* `CacheIsTheLedger`: a record moves the cached amount of one account by what it adds to
  that account's sum, or finds its key and does neither (`Added`); `CacheInv` adds only
  that the ledger is finite.
* `MoneyIsConserved`: `Surplus`, all money less recharges plus withdrawals paid, stays 0.
  A single record changes it; a stage of the escrow does not, because its records come in
  pairs of out and in. That the second record of a pair is posted exactly if the first
  is, is `PairsInv`, and for settlements `Story`.
* `FrozenMoneyIsClaimed`: `LedgerInv` puts `Story`, the pairs, the cache and
  `PaidUnderKey` together with the property: `pay:balance` is in the ledger for an order
  exactly if its escrow status is not `none`, so that a second `pay` of the same order,
  which the state machine allows after a rejected refund, moves nothing.
* `EscrowKeepsPromise` maps every step to a step of `EscrowPromise` or to a stutter. The
  settlements need `Story` (a released order has its entries, so releasing again posts
  nothing) and `EscrowFollowsStatus` (who settles has the money). `TryBalance` says what
  one record does to a spendable balance; `HoldBalances`, `ReleaseBalances` and
  `RefundBalances` add it up over the chains, with the fee below the price.

Rules and people:

* `ScoreIsTheLog`: every step books nothing, or appends one row and moves the score of
  its user by just as much, after the cut-off (`Booked`).
* `RefundsAreBounded` rests on `RefundInv`: a penalty that still has points to give back
  has exactly one row in the log, its deduction. So a rollback finds one row and gives
  back at most its points, and marks it.
* `ReportsAreRuledOnce` rests on `RuleInv`: a decided report is only worked on by requests
  that the decision overtook, and all penalties on it but the one of the decision have
  been paid for by requests that wrote late. What opens a decided report again is such a
  request too, so the next decision has its one penalty free again.
* `BansKeepTheirReason` is about behaviours in which requests of moderators do not meet:
  at most one desk is taken then (`OneDesk`). `BanInv`: between the two statements of
  the unban route the switches are off already (`LiftsHold`), what the sweep has read is
  still over when it writes (`DueIsOver`), and behind a ban that runs is a penalty that
  lasts as long.
* `WordsSpread` rests on `TimeInv`: what a matcher lacks was listed at most so long ago
  that its age and its remaining life together stay within the life of a copy plus one
  load. A request under way carries the same bound.
* `WordsAreFound` is about the automaton as it is built. A link leads to the longest
  shorter end of its state that begins a word (`LinksAreRight`), by a minimal
  counterexample over the length of the state: `Read` falls back along links of shorter
  states only, and stops at the longest end from which it can go on (`FallingBack`). So a
  state reports exactly the words that end it (`ReportsAreRight`), the search stands
  in the longest end of what it has read that begins a word (`AtIsRight`), and a word ends
  there exactly if it ends the text read (`EndsOfOne`). That the recursive functions
  mean anything is part of the proof: for each a solution of its equation is written down
  (`FailExists`, `OutExists`, `AtExists`) or extended step by step (`FlattensSomehow`,
  `RestoresSomehow`); `BackExists` needs not even that links lead anywhere. What
  normalising gives is needed only in so far as it is a text (`NormalizedLetters`).
* `HitsAreReported`, where a hit is: what a normalised text gives from the place of a
  character on is what that part of it gives alone (`AloneFrom`), since NFKC leaves the
  part as it is and stripping works character by character (`WholeJoin`, `WholeFrom`). A
  replacement looks forward only, so from where one of them begins it gives in the rest
  of the text what it gives in the whole (`RestoresFollow`), and every character of what
  is restored lies in what one place became (`RestoresCut`). The two tables could still
  get out of step, were there an alias that begins inside what a phrase put there: the
  text from the hit on would be read otherwise. None does, since phrases put in no latin
  letters and aliases consist of them (`RestoresPass`); this is why the tables are assumed
  to be like that. That places are cut off at the end of the original changes no letter
  and commutes with all the rest (`AloneCut`).
* `HitsAreReported`, what masking leaves: segments are masked from the back, so a segment
  meets cells of one character in front of all that was masked before it (`MaskedSoFar`).
  Masking one joins cells without losing a character, and its second one becomes a star
  that no later segment touches but with another star (`OneMoreMasked`). The cells of a
  segment that reaches over an earlier one count too far, as in the code; the length
  holds all the same.
* `PunishmentsRest` rests on `PunInv`: the penalty rows and the requests that will still
  write one are together no more than the hits on record (`HitsCover`), a switch is on
  only with its row there (`SwitchesRest`), and a score that was read and not yet
  written back is covered by the deductions so far (`Covers`).
* `OnlyCheckedIsStored`, `ThreadsAddUp`, `ListingsStayNearTheLimit`: a request keeps what
  it was made of on its way through the guard (`Later`, `Onward`), and tables only grow
  meanwhile, so what was tested is what is written. The floor a reply takes is above all
  that it counted (`ReplyInv`); a request that has passed the limit counts as a shown
  book (`ListInv`), so that the sum never passes the limit by more than what runs at once.
* `TicketsKeepTheirCourse`: `DeskInv` types tickets, requests and sessions as far as the
  steps read them; every step then either keeps a ticket, or has tested under the row's
  lock what it changes.
* `HandedOver`: while a session knows of no ticket, every hand-over ticket opened since
  the last crash belongs to a request that has yet to link it (`BoundOK`); and messages
  that do not overlap carry the count that the session has (`StreakOK`).

Accounts:

* `LoggedOutStaysOut`: the list keeps a revoked token until the token itself has expired,
  as long as Redis answers (`ListRemembers`), and a request that came late has not
  passed the list (`LateIsStopped`).
* `BrowserShowsItsUser`: `InStep`, while nothing crossed, every call under way carries
  the stored token, and a tab that shows anybody else waits for the answer that ends its
  login.
* `ReviewsHaveOneOutcome`: while an application is pending, each school opened for it
  since the last crash belongs to a review that has yet to close it (`SchoolOK`).
* `CodesAreGuarded` counts slots. Wrong entries of a current code are on its count, or
  about to be put there, or were lost to a request that set the count anew; each of
  these holds a slot that makes no entries meanwhile (`InCount`, `Uncounted`); an entry
  whose count never comes is in `lost`. A code
  that is gone gets no new ones but from requests that have read it (`InAll`), and the
  same slots bound its uses (`UsesOK`).
* `DefaultsAreFew`: when nobody is between clearing and inserting, the default accounts
  and the requests about to set one are no more than the slots, or one if they never
  overlapped, and the bindings that broke off between their statements (`Allowed`); without
  overlap each of them is bound (`CardsInv`).

Requests and set-up:

* `MigrationsAreWhole`: what a running script has executed of its current file is there
  (`RanIsThere`). Nothing a second script or the seed does takes a table away, so the
  record that follows the last statement is true.
* `SeedsAreWhole`: `EmptiedSoFar` and `FilledSoFar` say how far a seed has come: tables
  before the current one are empty, or filled once; what the ledger rows written so far
  freeze; that accounts have ledger rows until the wallets are computed, and that they
  are the sums afterwards. People who register and recharge beside the seed keep it.
* `CachesComeToAnEnd`: a value stored with an end was the current one no longer before
  its end than the life of the cache and the age it came with (`Was`, `Aged`); what a
  call carries from one cache to the next is as old as the first one let it get
  (`Carried`).
* `EditsAreFew`: the changes made from a version and the calls that saw it and have yet to
  write are together no more than the calls at once (`EditsOf`).
* `KeysServeOnceAlways` rests on `TxInv`: who holds a row is in a transaction that has
  come that far (`LocksHold`), two never hold the same (`LocksExclude`), a reserved key
  belongs to a request in its transaction and a finished one to its answer
  (`KeyFollows`, `RecordFollows`), and the effect on a row was made by at most one
  (`OneEffect`, `AnswerTrue`).
* `LeaseExcludes` rests on `LeaseInv`: a run that has been told that the lock is its
  process's, or will be when it reads the row, that is younger than the lock's term and
  whose lock no other run of its process has given back, is of the process that holds the
  lock, and what is left of the lock plus the run's age is at least one term; a later run
  of the process may have prolonged it. Two such runs have the same holder.

Demo backend:

* All three theorems are read off `DemoInv`: every copy of the data, in a tab or in
  storage, is sound, and `AnswersAreStored` holds. Nothing rolls back in the browser, so a
  handler has to lead from sound data to sound data at every point where it may throw
  (`Good`): what is kept of a failed request becomes the next request's data, and is
  stored by the next save.
* `DemoMoneyFollowsStatus`: the money rows of an order are posted in groups, all of a
  group or none (`RowsTogether`), because `record` skips a key that it knows and each group
  is written by one helper. So every group moves money from pots to pots, or nothing, also
  where an order was shipped with other keys and its money moves again, and the sum of all
  pots stays what was recharged (`MoneyAddsUp`). Which groups are there follows from the
  status and the status from them (`StatusHasRows`); a handler that throws posts rows for
  a status that does not come, and these keys are set apart (`strays`).
* `DemoBansHaveReasons`: a penalty row is appended before its switch is set, and a row is
  revoked together with the switches of its kind (`PeopleStep`); the credit that an appeal
  gives back moves scores only.
* `DemoAnswersSurvive` needs nothing else: only an answer puts a tab ahead of storage, and
  it sets the timer.

### Only model-checked

* Liveness: `ShippedOrdersMoveOn`, `JobIsRunForEver`, `OverdueIsEscalated`,
  `EveryRequestEnds`. The prover knows neither fairness nor `ENABLED` well enough.

## 5. Where the code and its documents differ

One disagreement is a run of its own (`paid_without_funds`): "rejecting a refund" on an
unpaid order makes it a paid one without money in escrow, although the requirements say
that a paid order's funds are in escrow.

The models contain the following behaviour too, and their properties are worded so that
they hold with it:

* Orders: a requested return cannot be rejected, since the seeded table has no edge
  from `return_requested` to `paid`. The auto-confirm job acts on an old scan: an order
  that was returned and shipped again after it is completed although its new countdown
  has just begun.
* Jobs: a handler that outlasts a tick is started a second time by its own process, since
  `lastRunAt` is written after it, and the first run to end frees the lock of the other;
  `scheduler.js:1` says that a job runs only once at any moment.
* Moderation: two moderators can decide one report or one appeal, and a late `accept`
  reopens a decided report. Revoking one penalty turns off the switch that another one of
  its type needs. A permanently banned user is turned away before the appeal
  route. A muted or trade-banned user is locked out when the sweep writes status
  `banned` (`penalty.service.js:167`), where
  `docs/en/04-database-er-design.md:75` calls the switches independent.
* Words: a hint word with a symbol inside it is found and not masked. Of one that is typed
  as an alias only the first character is masked, as all that an alias becomes has its
  place, although `normalize.js:3` says that the fragment is masked; and where NFKC changes
  the number of characters, what is reported and masked stands further on or back by as
  many. Words are listed
  and unlisted in the copy of one process only. Three hits of one text may step the
  ladder once or twice, depending on how requests cross.
* Forum: `PATCH /books/:id` checks the remark, never a new title, and writes back the
  fields it read (`books.routes.js:172`); a nickname is not checked; two edits lose one. Two replies made at once share a floor, and
  a reply that is deleted by two requests at once is counted off twice.
* Accounts: a binding that breaks off between its two statements leaves a second default
  account. Two reviewers can decide one form differently. A card that was unbound can never be bound again (its unique key stays); two
  tokens of one second share a revocation; refresh tokens survive a logout; logging in
  with WeChat skips the ban; verifying an old code may delete a code that was just
  sent; an approved student can hand in another form. The counter of wrong entries is
  set and given its end in two calls, though its comment calls it atomic.
* Requests: a key that is used again for another request replays the first response
  (`idempotency.js:38`). The seed's transaction is ended by its first `TRUNCATE`, so its
  rollback restores nothing.
* Data retention: forms that were handed in with an e-mail address only are never masked.
* Demo: changes made before a handler throws stay, so a refused pay, confirmation or refund
  moves its money; a second one of an order that was shipped with the data moves it twice,
  since its rows have other keys; a reset in one tab is undone by the
  next save of another; a second, shorter ban overwrites the end of the first; a sold
  book can be listed again; confirming a paid or a return-requested order posts the
  release and then throws, so a later refund settles it again; a form goes to school 0,
  where no moderator finds it.

## 6. Simplifications

* Orders: one school (`school_id` is a filter on every query). Notifications, status
  logs, audit records, search and images are written and never read back by the
  behaviour modelled. `overdueShip` and `reconcile` are called by nothing.
* Moderation: violations that are forgiven after six or twelve months lie beyond the
  horizon; the counter-statement of the accused stores a text and changes no status.
* WordGuard and Forum: the ticket of a severe hit, the check of a parent reply, images,
  prices, and what a conversation is about are left out; deleting a thread, and reading
  the score together with its log entry, are one step each; the books of `Forum` are
  never locked or sold, which is `OrderEscrow`'s subject.
* Support: a transfer is asked for by the session's own user; what the assistant finds
  is a choice of outcome.
* Accounts: keys do not expire under a request that has read the code; the student
  number, the test of the school and the binding of WeChat are left out; a process that
  goes down is each of its requests breaking off, since Redis and MySQL keep what was
  written. Sessions:
  an error of Redis empties the list of revoked tokens, because the process goes on
  with its own memory; `RevokedStaysOut`, a part of `SessionsHold`, is therefore about the time
  before. WebClient: a refused call refreshes nothing, since the client has no automatic
  refresh; languages, forms and routes are left out; the demo build, whose server is the
  tab itself, is `DemoBackend`.
* ConfigCache: one entry, one school; calls take no time of the clock. Transactions: the
  handler's business test is whether its first row was done once; a wait for a lock
  ends in either way. Setup: an operator runs no other script beside `seed` or
  `--reset`; the rows of a table other than the ledger are one statement; of the
  seeded users only those with money are told apart.
* WordCheck: the instance's NFKC is a small table with an effect on the length in both
  directions, not Unicode's; the theorems hold for every operator with the two properties
  assumed. A pattern is a sequence of classes. A character is a code unit; characters of
  two units, which `maskSegments` counts once and everything else twice, are left out.
* Demo: ids are places in sequences, days are the clock, a text has one hit at most; a
  client sends one key of its own with recharges, or none;
  notices, audit rows and views are left out; a manual penalty lasts a day; only
  students are punished.

## 7. Not modelled

* Data retention: deletes or masks rows by age; touches no row that other parts read.
* Uploads and storage: I/O on files.
* Web client: beyond the session, pages that show state and send requests. What else they
  contribute, which refunds a seller can reject and several tabs over one storage, is in
  `OrderEscrow` and `DemoBackend`.
* Deployment and scripts: shell and build files.
* Within components: overdue shipping, statistics, lists, editing articles, the WeChat
  binding, images and everything section 6 names.

## 8. Plan

1. `JobLock` composed with the auto-confirm job, so that overlapping runs come from the
   lock instead of being assumed.
2. What `RefundsAreBounded` becomes for a ladder with a step that gives points; a fee
   that changes between `create` and settlement (the order keeps its own).
