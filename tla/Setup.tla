-------------------------------- MODULE Setup --------------------------------
(***************************************************************************)
(* How the database comes to be: migrate.js creates the tables, seed.js    *)
(* empties and fills them, and the server that is started on them may run  *)
(* all the while.  The seed opens a transaction, but TRUNCATE ends it, so  *)
(* every later statement is committed by itself: what a failed seed has    *)
(* written stays.  Either program may die between two statements.          *)
(*                                                                         *)
(* The rows a seed writes to one table count as one statement, except      *)
(* those of the ledger; amounts are in cents, as in the seed.              *)
(***************************************************************************)
EXTENDS Integers, Sequences, FiniteSets

CONSTANTS
    Scripts,    \* runs of migrate.js that may overlap
    Files,      \* migrations/*.sql by name, a sequence
    Creates,    \* the tables each statement of a file creates (bound: in groups)
    MaxSeeds,   \* bound: runs of seed.js
    MaxDeaths,  \* bound: programs that died
    MaxPosts,   \* bound: recharges while the server runs
    MaxNew      \* bound: users who register

\* In the order of the seed's list.
Truncated ==
    <<"word_hits", "banned_words", "notifications", "ticket_logs", "tickets",
      "chat_messages", "chat_sessions", "appeals", "penalties", "reports", "credit_logs",
      "wallet_transactions", "withdraw_requests", "wallet_accounts", "order_status_log",
      "orders", "messages", "conversations", "replies", "thread_images", "threads",
      "book_images", "books", "payment_accounts", "user_verifications", "users",
      "school_applications", "schools", "configs", "kb_articles", "audit_logs",
      "idempotency_records">>

\* Sections 1 to 5 of the seed, 6 to 9, and 11 to 18.
PeopleTables  == <<"configs", "schools", "users", "user_verifications", "payment_accounts">>
ContentTables == <<"books", "book_images", "threads", "replies", "thread_images",
                   "conversations", "messages", "orders", "order_status_log">>
MoneyTables   == <<"wallet_transactions", "wallet_accounts">>
ServiceTables == <<"credit_logs", "banned_words", "word_hits", "reports", "penalties",
                   "tickets", "ticket_logs", "kb_articles", "notifications",
                   "school_applications", "audit_logs">>

Filled      == PeopleTables \o ContentTables \o MoneyTables \o ServiceTables
Elements(s) == {s[i] : i \in DOMAIN s}
Tables      == Elements(Truncated)

ASSUME SetupAssumption ==
    /\ Files \in Seq(STRING)
    /\ Creates \in [Elements(Files) -> Seq(SUBSET Tables)]
    /\ {MaxSeeds, MaxDeaths, MaxPosts, MaxNew} \subseteq Nat

\* The seeded users who have money: the buyers of the two orders, the seller of the
\* second, which is completed, and the platform.
BuyerA == 1
BuyerB == 2
SellerB == 3
Platform == 4
SeedUsers == {BuyerA, BuyerB, SellerB, Platform}
Ids == 1..(Cardinality(SeedUsers) + MaxNew)

PriceA == 2000
PriceB == 1500
FeeB   == (PriceB * 150) \div 10000

\* Order A is paid and held, order B is completed.
SeedLedger ==
    <<[user |-> BuyerB,   account |-> "balance", amount |-> 20000],
      [user |-> BuyerA,   account |-> "balance", amount |-> 20000],
      [user |-> BuyerA,   account |-> "balance", amount |-> -PriceA],
      [user |-> BuyerA,   account |-> "frozen",  amount |-> PriceA],
      [user |-> BuyerB,   account |-> "balance", amount |-> -PriceB],
      [user |-> BuyerB,   account |-> "frozen",  amount |-> PriceB],
      [user |-> BuyerB,   account |-> "frozen",  amount |-> -PriceB],
      [user |-> SellerB,  account |-> "balance", amount |-> PriceB - FeeB],
      [user |-> Platform, account |-> "balance", amount |-> FeeB]>>

Nothing == [balance |-> 0, frozen |-> 0]
NoRow   == [balance |-> -1, frozen |-> -1]

VARIABLES
    tables,   \* the tables that exist, {} if there is no database
    versions, \* schema_migrations
    scripts,  \* runs of migrate.js: where they are and what they read
    seed,     \* the run of seed.js: where it is, and the id of its first user
    full,     \* how often each table was filled since it was empty
    people,   \* users have the ids 1 to people
    sums,     \* wallet_transactions: what the rows of a user add up to, NoRow if none
    wallets,  \* wallet_accounts, NoRow if there is none
    server,   \* the server process
    spent     \* what was used of the bounds

setupVars == <<tables, versions, scripts, seed, full, people, sums, wallets, server, spent>>

Off      == [at |-> "off", known |-> {}, ran |-> 0]
Unseeded == [at |-> "off", k |-> 0, row |-> 0, base |-> 0]

SetupInit ==
    /\ tables = {} /\ versions = {}
    /\ scripts = [s \in Scripts |-> Off]
    /\ seed = Unseeded
    /\ full = [t \in Elements(Filled) |-> 0]
    /\ people = 0
    /\ sums = [u \in Ids |-> NoRow] /\ wallets = [u \in Ids |-> NoRow]
    /\ server = "down"
    /\ spent = [seeds |-> 0, deaths |-> 0, posts |-> 0, new |-> 0]

Uses(b) == spent' = [spent EXCEPT ![b] = @ + 1]
Plus(r, account, n) ==
    LET row == IF r = NoRow THEN Nothing ELSE r
    IN  [row EXCEPT ![account] = @ + n]

\* The operator runs the seed and --reset with no other script beside them.
NoScript == \A s \in Scripts : scripts[s].at = "off"
NoSeed   == seed.at \in {"off", "done", "failed"}
-----------------------------------------------------------------------------
(* migrate.js *)

DropDatabase ==
    /\ NoScript /\ NoSeed /\ tables # {}
    /\ tables' = {} /\ versions' = {}
    /\ full' = [t \in Elements(Filled) |-> 0] /\ people' = 0
    /\ sums' = [u \in Ids |-> NoRow] /\ wallets' = [u \in Ids |-> NoRow]
    /\ seed' = Unseeded
    /\ UNCHANGED <<scripts, server, spent>>

\* The database and schema_migrations are created if need be, and what was applied
\* is read once.
ReadApplied(s) ==
    /\ NoSeed /\ scripts[s].at = "off"
    /\ tables' = tables \cup {"schema_migrations"}
    /\ scripts' = [scripts EXCEPT ![s] = [at |-> "run", known |-> versions, ran |-> 0]]
    /\ UNCHANGED <<versions, seed, full, people, sums, wallets, server, spent>>

\* The first file by name that the script does not know as applied.
Pending(s) == {i \in DOMAIN Files : Files[i] \notin scripts[s].known}
File(s)    == Files[CHOOSE i \in Pending(s) : \A j \in Pending(s) : i <= j]

\* Mutant: the version is recorded whatever has run.
RanAny(s) == TRUE

Ran(s) == scripts[s].ran = Len(Creates[File(s)])

\* CREATE TABLE IF NOT EXISTS; DDL is committed by itself.
RunStatement(s) ==
    /\ scripts[s].at = "run" /\ Pending(s) # {}
    /\ scripts[s].ran < Len(Creates[File(s)])
    /\ tables' = tables \cup Creates[File(s)][scripts[s].ran + 1]
    /\ scripts' = [scripts EXCEPT ![s].ran = @ + 1]
    /\ UNCHANGED <<versions, seed, full, people, sums, wallets, server, spent>>

\* The version is the primary key: of two scripts the second fails.
RecordVersion(s) ==
    /\ scripts[s].at = "run" /\ Pending(s) # {} /\ Ran(s)
    /\ LET f == File(s)
       IN  IF f \in versions
           THEN scripts' = [scripts EXCEPT ![s] = Off] /\ UNCHANGED versions
           ELSE /\ versions' = versions \cup {f}
                /\ scripts' = [scripts EXCEPT ![s].known = @ \cup {f}, ![s].ran = 0]
    /\ UNCHANGED <<tables, seed, full, people, sums, wallets, server, spent>>

EndMigration(s) ==
    /\ scripts[s].at = "run" /\ Pending(s) = {}
    /\ scripts' = [scripts EXCEPT ![s] = Off]
    /\ UNCHANGED <<tables, versions, seed, full, people, sums, wallets, server, spent>>

MigrationDies(s) ==
    /\ scripts[s].at # "off" /\ spent.deaths < MaxDeaths
    /\ scripts' = [scripts EXCEPT ![s] = Off]
    /\ Uses("deaths")
    /\ UNCHANGED <<tables, versions, seed, full, people, sums, wallets, server>>
-----------------------------------------------------------------------------
(* seed.js *)

BeginSeed ==
    /\ NoScript /\ NoSeed /\ tables # {} /\ spent.seeds < MaxSeeds
    /\ seed' = [at |-> "truncate", k |-> 1, row |-> 1, base |-> 0]
    /\ Uses("seeds")
    /\ UNCHANGED <<tables, versions, scripts, full, people, sums, wallets, server>>

\* TRUNCATE commits, and numbers begin at 1 again; a table that is not there ends the
\* run with an error, and there is nothing left to roll back.
Truncate ==
    /\ seed.at = "truncate"
    /\ LET t == Truncated[seed.k]
       IN  IF t \notin tables
           THEN seed' = [seed EXCEPT !.at = "failed"] /\ UNCHANGED <<full, people, sums, wallets>>
           ELSE /\ seed' = IF seed.k < Len(Truncated) THEN [seed EXCEPT !.k = @ + 1]
                           ELSE [seed EXCEPT !.at = "fill", !.k = 1]
                /\ full' = IF t \in DOMAIN full THEN [full EXCEPT ![t] = 0] ELSE full
                /\ people' = IF t = "users" THEN 0 ELSE people
                /\ sums' = IF t = "wallet_transactions" THEN [u \in Ids |-> NoRow] ELSE sums
                /\ wallets' = IF t = "wallet_accounts" THEN [u \in Ids |-> NoRow] ELSE wallets
    /\ UNCHANGED <<tables, versions, scripts, server, spent>>

Filling(t) == seed.at = "fill" /\ seed.k <= Len(Filled) /\ Filled[seed.k] = t
Fills(t)  == full' = [full EXCEPT ![t] = @ + 1]
Advance   == [seed EXCEPT !.k = @ + 1]

\* Users who registered meanwhile came first.
FillUsers ==
    /\ Filling("users") /\ Fills("users")
    /\ people' = people + Cardinality(SeedUsers)
    /\ seed' = [Advance EXCEPT !.base = people]
    /\ UNCHANGED <<tables, versions, scripts, sums, wallets, server, spent>>

FillTable(t) ==
    /\ Filling(t) /\ Fills(t)
    /\ seed' = Advance
    /\ UNCHANGED <<tables, versions, scripts, people, sums, wallets, server, spent>>

WriteLedgerRow ==
    /\ Filling("wallet_transactions")
    /\ LET r == SeedLedger[seed.row]
           u == seed.base + r.user
       IN  sums' = [sums EXCEPT ![u] = Plus(@, r.account, r.amount)]
    /\ IF seed.row < Len(SeedLedger)
       THEN seed' = [seed EXCEPT !.row = @ + 1] /\ UNCHANGED full
       ELSE seed' = Advance /\ Fills("wallet_transactions")
    /\ UNCHANGED <<tables, versions, scripts, people, wallets, server, spent>>

HasLedger == {u \in Ids : sums[u] # NoRow}

\* Mutant: INSERT IGNORE.
ConflictsIgnored == FALSE

\* uk_user, and the foreign key to users.
Conflicts == \E u \in HasLedger : wallets[u] # NoRow \/ u > people

\* One statement: an account for everybody in the ledger, with what it adds up to.
AggregateWallets ==
    /\ Filling("wallet_accounts")
    /\ IF Conflicts
       THEN seed' = [seed EXCEPT !.at = "failed"] /\ UNCHANGED <<wallets, full>>
       ELSE /\ seed' = Advance /\ Fills("wallet_accounts")
            /\ wallets' = [u \in Ids |-> IF wallets[u] = NoRow THEN sums[u] ELSE wallets[u]]
    /\ UNCHANGED <<tables, versions, scripts, people, sums, server, spent>>

EndSeed ==
    /\ seed.at = "fill" /\ seed.k > Len(Filled)
    /\ seed' = [seed EXCEPT !.at = "done"]
    /\ UNCHANGED <<tables, versions, scripts, full, people, sums, wallets, server, spent>>

SeedDies ==
    /\ seed.at \in {"truncate", "fill"} /\ spent.deaths < MaxDeaths
    /\ seed' = [seed EXCEPT !.at = "failed"]
    /\ Uses("deaths")
    /\ UNCHANGED <<tables, versions, scripts, full, people, sums, wallets, server>>
-----------------------------------------------------------------------------
(* server.js, and what its users do to the money meanwhile *)

\* initRuntime needs the database, not its tables.
Ready == tables # {}

Start ==
    /\ server = "down" /\ Ready
    /\ server' = "up"
    /\ UNCHANGED <<tables, versions, scripts, seed, full, people, sums, wallets, spent>>

Stop ==
    /\ server = "up"
    /\ server' = "down"
    /\ UNCHANGED <<tables, versions, scripts, seed, full, people, sums, wallets, spent>>

Register ==
    /\ server = "up" /\ "users" \in tables /\ spent.new < MaxNew
    /\ people' = people + 1
    /\ Uses("new")
    /\ UNCHANGED <<tables, versions, scripts, seed, full, sums, wallets, server>>

\* walletService.record for a recharge, in its transaction: the account is created if
\* there is none, the row is written, and the account follows.
Recharge(u) ==
    /\ server = "up" /\ u <= people /\ spent.posts < MaxPosts
    /\ {"wallet_transactions", "wallet_accounts"} \subseteq tables
    /\ sums' = [sums EXCEPT ![u] = Plus(@, "balance", 1)]
    /\ wallets' = [wallets EXCEPT ![u] = Plus(@, "balance", 1)]
    /\ Uses("posts")
    /\ UNCHANGED <<tables, versions, scripts, seed, full, people, server>>

SetupNext ==
    \/ DropDatabase \/ BeginSeed \/ Truncate \/ FillUsers \/ WriteLedgerRow
    \/ AggregateWallets \/ EndSeed \/ SeedDies \/ Start \/ Stop \/ Register
    \/ \E s \in Scripts : \/ ReadApplied(s) \/ RunStatement(s) \/ RecordVersion(s)
                          \/ EndMigration(s) \/ MigrationDies(s)
    \/ \E t \in Elements(Filled) \ ({"users"} \cup Elements(MoneyTables)) : FillTable(t)
    \/ \E u \in Ids : Recharge(u)
=============================================================================
