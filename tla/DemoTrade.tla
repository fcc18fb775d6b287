----------------------------- MODULE DemoTrade -----------------------------
(***************************************************************************)
(* Books, orders and wallets of the demo backend (trade.js, books.js and   *)
(* the content review of admin.js).  A request may come at any time, as    *)
(* from a page that shows an older state or from a second press of a       *)
(* button; one that is refused before it changed anything is no step.      *)
(***************************************************************************)
EXTENDS DemoRules

CONSTANTS
    Prices,      \* prices in use, in cents
    ShipBonus,   \* credit.rules.ship_on_time
    TopUp        \* bound: the sum that is recharged or withdrawn

\* configs["order.state_machine"].transitions
Machine ==
    [pending_payment |-> {"paid", "cancelled"},
     paid |-> {"shipped", "refund_requested", "disputed"},
     shipped |-> {"completed", "return_requested", "disputed"},
     refund_requested |-> {"refunded", "paid", "disputed"},
     return_requested |-> {"refunded", "shipped", "disputed"},
     disputed |-> {"arbitrated_refund", "arbitrated_release"},
     completed |-> {}, cancelled |-> {}, refunded |-> {},
     arbitrated_refund |-> {}, arbitrated_release |-> {}]

Active == {s \in DOMAIN Machine : Machine[s] # {}}

CanMove(d, o, to) == to \in Machine[d.orders[o].status]
Moved(d, o, to)   == [d EXCEPT !.orders[o].status = to]

\* setBookStatus
BookTo(d, b, from, to) ==
    IF d.books[b].status \in from THEN [d EXCEPT !.books[b].status = to] ELSE d

AnyBook == {"on_sale", "locked", "sold", "off_shelf", "deleted"}

ActiveOrders(d, b) == {o \in DOMAIN d.orders : d.orders[o].book = b /\ d.orders[o].status \in Active}
MaxBooks(d, u) == Tier(d.user[u].score).maxBooks
OnSale(d, u) == {b \in DOMAIN d.books : d.books[b].seller = u /\ d.books[b].status = "on_sale"}

\* ---- orders ---------------------------------------------------------------

CreateOrder(t, u, b) ==
    LET d    == db[t]
        book == d.books[b]
        fee  == (book.price * d.feeBps) \div 10000
    IN  /\ Verified(t, u) /\ MayTrade(t, u)
        /\ ~book.deleted /\ book.seller # u /\ book.status = "on_sale"
        /\ ActiveOrders(d, b) = {}
        /\ Answer(t, BookTo([d EXCEPT !.orders = Append(@, [book |-> b, buyer |-> u,
               seller |-> book.seller, amount |-> book.price, fee |-> fee,
               status |-> "pending_payment", escrow |-> "none"])], b, {"on_sale"}, "locked"))

\* Mutant: the status moves first, and the hold is left to find out that there is no money.
PayMovesFirst(t, u, o) ==
    LET moved == Moved(db[t], o, "paid")
    IN  /\ u = db[t].orders[o].buyer
        /\ CanMove(db[t], o, "paid")
        /\ IF db[t].balance[u] >= db[t].orders[o].amount
           THEN Answer(t, [EscrowHold(moved, o) EXCEPT !.orders[o].escrow = "held"])
           ELSE Keep(t, moved)

\* The money moves before the state machine is asked.
Pay(t, u, o) ==
    LET d    == db[t]
        held == EscrowHold(d, o)
    IN  /\ u = d.orders[o].buyer
        /\ d.balance[u] >= d.orders[o].amount
        /\ \/ /\ CanMove(d, o, "paid")
              /\ Answer(t, [Moved(held, o, "paid") EXCEPT !.orders[o].escrow = "held"])
           \/ ~CanMove(d, o, "paid") /\ Keep(t, Stranded(d, held))

Cancel(t, u, o) ==
    /\ u = db[t].orders[o].buyer
    /\ CanMove(db[t], o, "cancelled")
    /\ Answer(t, BookTo(Moved(db[t], o, "cancelled"), db[t].orders[o].book, {"locked"}, "on_sale"))

Ship(t, u, o) ==
    /\ u = db[t].orders[o].seller
    /\ CanMove(db[t], o, "shipped")
    /\ Answer(t, CreditDelta(Moved(db[t], o, "shipped"), u, ShipBonus, "ship_on_time", o))

Confirm(t, u, o) ==
    LET d        == db[t]
        released == EscrowRelease(d, o)
    IN  /\ u = d.orders[o].buyer
        /\ \/ /\ CanMove(d, o, "completed")
              /\ Answer(t, BookTo([Moved(released, o, "completed") EXCEPT !.orders[o].escrow = "released"],
                                  d.orders[o].book, {"locked", "on_sale"}, "sold"))
           \/ ~CanMove(d, o, "completed") /\ Keep(t, Stranded(d, released))

RefundRequest(t, u, o) ==
    /\ u = db[t].orders[o].buyer
    /\ CanMove(db[t], o, "refund_requested")
    /\ Answer(t, Moved(db[t], o, "refund_requested"))

ReturnRequest(t, u, o) ==
    /\ u = db[t].orders[o].buyer
    /\ CanMove(db[t], o, "return_requested")
    /\ Answer(t, Moved(db[t], o, "return_requested"))

AgreeRefund(t, u, o) ==
    LET d    == db[t]
        back == EscrowRefund(d, o)
    IN  /\ u = d.orders[o].seller
        /\ \/ /\ CanMove(d, o, "refunded")
              /\ Answer(t, BookTo([Moved(back, o, "refunded") EXCEPT !.orders[o].escrow = "refunded"],
                                  d.orders[o].book, {"locked"}, "on_sale"))
           \/ ~CanMove(d, o, "refunded") /\ Keep(t, Stranded(d, back))

RejectRefund(t, u, o) ==
    LET to == IF db[t].orders[o].status = "refund_requested" THEN "paid" ELSE "shipped"
    IN  /\ u = db[t].orders[o].seller
        /\ CanMove(db[t], o, to)
        /\ Answer(t, Moved(db[t], o, to))

Dispute(t, u, o) ==
    /\ u \in {db[t].orders[o].buyer, db[t].orders[o].seller}
    /\ CanMove(db[t], o, "disputed")
    /\ Answer(t, InsertTicket(Moved(db[t], o, "disputed"), "refund", u, TRUE, FALSE))

Arbitrate(t, o) ==
    LET d == db[t]
        b == d.orders[o].book
        released == Moved(EscrowRelease(d, o), o, "arbitrated_release")
        refunded == Moved(EscrowRefund(d, o), o, "arbitrated_refund")
    IN  /\ d.orders[o].status = "disputed"
        /\ \/ Answer(t, BookTo([released EXCEPT !.orders[o].escrow = "released"], b, AnyBook, "sold"))
           \/ Answer(t, BookTo([refunded EXCEPT !.orders[o].escrow = "refunded"], b, AnyBook, "on_sale"))

\* ---- wallet ---------------------------------------------------------------

\* A key of the client's that was sent before is answered again and moves nothing.
Recharge(t, u) ==
    \E key \in {NoKey, ClientKey} :
        Answer(t, [WalletRecord(db[t], u, "balance", TopUp, key) EXCEPT
                     !.recharged[u] = @ + IF key \in db[t].keys THEN 0 ELSE TopUp])

Withdraw(t, u) ==
    LET out == WalletRecord(db[t], u, "balance", -TopUp, NoKey)
    IN  /\ \E c \in DOMAIN db[t].cards : db[t].cards[c].user = u /\ db[t].cards[c].status = "active"
        /\ db[t].user[u].verified = "approved"
        /\ db[t].balance[u] >= TopUp
        /\ Answer(t, [WalletRecord(out, u, "frozen", TopUp, NoKey) EXCEPT !.withdrawn[u] = @ + TopUp])

\* ---- books ----------------------------------------------------------------

\* A blocked text throws after enforce did its part; the picture is inlined.
PublishBook(t, u, price, text) ==
    LET d == Enforce(db[t], u, text)
    IN  /\ Verified(t, u) /\ MayPublish(t, u)
        /\ Cardinality({b \in OnSale(db[t], u) : ~db[t].books[b].deleted}) < MaxBooks(db[t], u)
        /\ \/ Blocked(db[t], text) /\ Keep(t, d)
           \/ /\ ~Blocked(db[t], text)
              /\ Answer(t, [d EXCEPT !.images = @ + 1,
                   !.books = Append(@, [seller |-> u, price |-> price, status |-> "on_sale",
                                        deleted |-> FALSE])])

\* The price is set before the text is looked at.
EditBook(t, u, b, price, text) ==
    LET d == Enforce([db[t] EXCEPT !.books[b].price = price], u, text)
    IN  /\ ~db[t].books[b].deleted /\ db[t].books[b].seller = u
        /\ db[t].books[b].status \notin {"sold", "locked"}
        /\ \/ Blocked(db[t], text) /\ Keep(t, d)
           \/ ~Blocked(db[t], text) /\ Answer(t, d)

\* Only a locked book is refused: one that is sold goes off the shelf as well.
OffShelf(t, u, b) ==
    /\ ~db[t].books[b].deleted /\ db[t].books[b].seller = u
    /\ db[t].books[b].status # "locked"
    /\ Answer(t, [db[t] EXCEPT !.books[b].status = "off_shelf"])

Relist(t, u, b) ==
    /\ Verified(t, u) /\ MayPublish(t, u)
    /\ ~db[t].books[b].deleted /\ db[t].books[b].seller = u
    /\ db[t].books[b].status = "off_shelf"
    /\ Cardinality(OnSale(db[t], u)) < MaxBooks(db[t], u)
    /\ Answer(t, [db[t] EXCEPT !.books[b].status = "on_sale"])

\* Mutant: only what is posted is saved.
DeleteBookUnsaved(t, u, b) ==
    /\ ~db[t].books[b].deleted
    /\ db[t].books[b].seller = u \/ u \notin Students
    /\ Leaves(t, [db[t] EXCEPT !.books[b].deleted = TRUE, !.writes = @ + 1])
    /\ UNCHANGED saveTimer

DeleteBook(t, u, b) ==
    /\ ~db[t].books[b].deleted
    /\ db[t].books[b].seller = u \/ u \notin Students
    /\ Answer(t, [db[t] EXCEPT !.books[b].deleted = TRUE, !.books[b].status = "off_shelf"])

\* No look at what the status was: a locked book may be put on sale.
ReviewBook(t, b, to) ==
    /\ to \in {"on_sale", "off_shelf", "deleted"}
    /\ Answer(t, [db[t] EXCEPT !.books[b].status = to,
                               !.books[b].deleted = @ \/ to = "deleted"])

TradeNext(t, u) ==
    \/ \E b \in DOMAIN db[t].books : CreateOrder(t, u, b)
    \/ \E o \in DOMAIN db[t].orders :
         \/ Pay(t, u, o) \/ Cancel(t, u, o) \/ Ship(t, u, o) \/ Confirm(t, u, o)
         \/ RefundRequest(t, u, o) \/ ReturnRequest(t, u, o)
         \/ AgreeRefund(t, u, o) \/ RejectRefund(t, u, o) \/ Dispute(t, u, o)
         \/ u \in Staff /\ Arbitrate(t, o)
    \/ u \in Students /\ (Recharge(t, u) \/ Withdraw(t, u))

ShelfNext(t, u) ==
    \/ \E price \in Prices, text \in Words \cup {Clean} : PublishBook(t, u, price, text)
    \/ \E b \in DOMAIN db[t].books :
         \/ \E price \in Prices, text \in Words \cup {Clean} : EditBook(t, u, b, price, text)
         \/ OffShelf(t, u, b) \/ Relist(t, u, b) \/ DeleteBook(t, u, b)
         \/ u \in Staff /\ \E to \in {"on_sale", "off_shelf", "deleted"} : ReviewBook(t, b, to)
=============================================================================
