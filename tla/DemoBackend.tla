---------------------------- MODULE DemoBackend ----------------------------
(***************************************************************************)
(* The demo backend as a whole: some open tabs of one browser, the copy of *)
(* the data in localStorage, and requests of any user of the data set (the *)
(* token is in localStorage too, so every tab can change its user).        *)
(*                                                                         *)
(* part is a bound: the kind of requests a behaviour makes.                *)
(***************************************************************************)
EXTENDS DemoTrade, DemoRisk, DemoForum, DemoAccount

CONSTANTS
    Visits,      \* for each part, the data of an earlier visit
    Fresh,       \* createDataset()
    MaxRequests  \* bound: the requests of a behaviour of each part

VARIABLE part

vars == <<storeVars, part>>

Init == part \in DOMAIN Visits /\ StoreInit(Visits[part])

\* handleRequest: the user of the token must be found in the tab and not be banned.
Request(t, u) ==
    /\ u \in db[t].members /\ Admitted(t, u)
    /\ \/ part = "trade"   /\ TradeNext(t, u)
       \/ part = "shelf"   /\ ShelfNext(t, u)
       \/ part = "risk"    /\ RiskNext(t, u)
       \/ part = "desk"    /\ (WordsNext(t, u) \/ DeskNext(t, u))
       \/ part = "forum"   /\ ForumNext(t, u)
       \/ part = "account" /\ AccountNext(t, u)

Next ==
    /\ UNCHANGED part
    /\ \/ \E t \in Tabs :
            \/ /\ requests < MaxRequests[part]
               /\ \/ \E u \in Users : Request(t, u)
                  \/ part = "account" /\ PublicNext(t)
                  \/ ResetDemoData(t, Fresh)
            \/ Save(t) \/ Reload(t)
       \/ NextDay

Spec == Init /\ [][Next]_vars
-----------------------------------------------------------------------------
Copies == {db[t] : t \in Tabs} \cup {stored}

\* No money appears or goes but by recharges.
MoneyAddsUp(d) ==
    SumFunction(d.balance) + SumFunction(d.frozen) = SumFunction(d.recharged)

Held     == {"paid", "shipped", "refund_requested", "return_requested", "disputed"}
PaidOut  == {"completed", "arbitrated_release"}
GaveBack == {"refunded", "arbitrated_refund"}

\* The rows of an order that the handlers post, and those it may be shipped with.
HoldRows   == {"pay:frozen", "seed-escrow_hold"}
SettleRows == {"release:seller", "seed-settle"}
BackRows   == {"refund:balance"}

HasRow(keys, o, rows) == \E n \in rows : <<o, n>> \in keys

\* An order with this status has the rows that it asks for ...
RowsOfStatus(keys, o, s) ==
    /\ s \in Held \cup PaidOut \cup GaveBack => HasRow(keys, o, HoldRows)
    /\ s \in PaidOut  => HasRow(keys, o, SettleRows)
    /\ s \in GaveBack => HasRow(keys, o, BackRows)

\* ... and none that it does not ask for.
StatusOfRows(keys, o, s) ==
    /\ HasRow(keys, o, HoldRows)   => s \in Held \cup PaidOut \cup GaveBack
    /\ HasRow(keys, o, SettleRows) => s \in PaidOut
    /\ HasRow(keys, o, BackRows)   => s \in GaveBack

\* The status of an order says which of its money rows are posted, save for those of
\* requests that threw.
StatusHasRows(d) ==
    \A o \in DOMAIN d.orders :
        /\ RowsOfStatus(d.keys, o, d.orders[o].status)
        /\ StatusOfRows(d.keys \ d.strays, o, d.orders[o].status)

Switches == {"mute", "trade_ban", "login_ban"}

SwitchedOn(row) ==
    {k \in Switches : row[k] # 0} \cup (IF row.permanent THEN {"permanent_ban"} ELSE {})

\* Whoever is restricted has a penalty of that kind that was not revoked.
BansHaveRows(d) ==
    \A u \in Users : \A k \in SwitchedOn(d.user[u]) :
        \E p \in Standing(d, u) : d.penalty[p].type = k
-----------------------------------------------------------------------------
\* In every tab and in storage the rows that the status of an order asks for are posted;
\* any other row was left by a request that threw, and no money appears or goes but by
\* recharges, although the handlers move the money first and ask the state machine
\* later, may be called in any order, are not undone when they throw, and do not see
\* the keys of the rows an order was shipped with, whose money a second call moves again.
StatusHasMoney == \A d \in Copies : MoneyAddsUp(d) /\ StatusHasRows(d)

\* What was answered survives: if the tab that stored last waits for no timer and its
\* data fits, storage has every answered change that the tab has.
AnswersAreStored ==
    \A t \in Tabs :
        lastSaver = t /\ ~saveTimer[t] /\ db[t].images <= Quota
            => stored.writes = db[t].writes

\* Whoever is restricted has a penalty of that kind that was not revoked, so there is
\* something to appeal against: in every tab and in storage.
BansHaveReasons == \A d \in Copies : BansHaveRows(d)
-----------------------------------------------------------------------------
(* What every data set is like, a new one and one that an earlier visit left: what the *)
(* properties ask of it, and what its steps need for that.                             *)

Tables == {"writes", "images", "user", "penalty", "credit", "balance", "frozen",
           "recharged", "keys", "strays", "orders", "books", "feeBps"}

\* The money rows that are only posted together.
RowGroups == {{"pay:balance", "pay:frozen"},
              {"release:buyer-frozen", "release:seller", "release:fee"},
              {"refund:frozen", "refund:balance"}}

RowsTogether(d) ==
    \A k \in d.keys, G \in RowGroups : k[2] \in G => \A n \in G : <<k[1], n>> \in d.keys

BookRows  == [seller : Users, price : Int, status : AnyBook, deleted : BOOLEAN]
OrderRows == [book : Nat, buyer : Users, seller : Users, amount : Int, fee : Int,
              status : DOMAIN Machine, escrow : {"none", "held", "released", "refunded"}]

MoneyTables(d) ==
    /\ d.balance \in [Users -> Int]
    /\ d.frozen \in [Users -> Int]
    /\ d.recharged \in [Users -> Int]
    /\ d.orders \in Seq(OrderRows)
    /\ NoKey \notin d.keys
    /\ \A k \in d.keys : k[1] \in DOMAIN d.orders \cup {0}

PeopleTables(d) ==
    /\ Users \subseteq DOMAIN d.user
    /\ \A u \in Users : /\ Switches \cup {"permanent"} \subseteq DOMAIN d.user[u]
                        /\ d.user[u].permanent \in BOOLEAN
    /\ d.penalty \in Seq(Range(d.penalty)) /\ d.credit \in Seq(Range(d.credit))
    /\ \A row \in Range(d.penalty) : {"user", "type", "status"} \subseteq DOMAIN row

ShopTables(d) == d.books \in Seq(BookRows) /\ d.feeBps \in Int

MoneySound(d)  == MoneyTables(d) /\ RowsTogether(d) /\ MoneyAddsUp(d) /\ StatusHasRows(d)
PeopleSound(d) == PeopleTables(d) /\ BansHaveRows(d)

Sound(d) == Tables \subseteq DOMAIN d /\ MoneySound(d) /\ PeopleSound(d) /\ ShopTables(d)

ASSUME UsersAssumption   == IsFiniteSet(Users)
ASSUME VisitsAssumption  == \A p \in DOMAIN Visits : Sound(Visits[p])
ASSUME FreshAssumption   == Sound(Fresh)
ASSUME AmountsAssumption == Prices \cup Fees \cup {TopUp} \subseteq Int
ASSUME LadderAssumption  ==
    /\ Ladder # <<>>
    /\ Ladder \in Seq([type : PenaltyTypes, days : Nat, delta : Int])
=============================================================================
