----------------------------- MODULE OrderEscrow -----------------------------
(***************************************************************************)
(* Orders, their books and the money in escrow: orderService, the escrow   *)
(* stages it drives through the wallet, the book routes it races with and  *)
(* the job that confirms receipt when the countdown has run out.           *)
(*                                                                         *)
(* Every order handler is one database transaction that first locks the    *)
(* order's row (create: the book's row), so each is one action.  The job   *)
(* reads its batch outside any transaction and confirms the orders of the  *)
(* batch one by one: scan and confirmation are separate actions.           *)
(***************************************************************************)
EXTENDS OrderMachine, Wallet, BookShelf

CONSTANTS
    Price,       \* the price of each book, in cents
    FeeBps,      \* the platform's service fee, in 1/10000 of the price
    Workers,     \* the runs of the order.auto_confirm job in flight
    BatchLimit,  \* how many orders a run of the job reads at most
    InitCredit,  \* everybody's credit score at the start
    MaxCredit,   \* upper bound of the credit score (credit.bounds)
    ShipBonus,   \* points a seller earns by shipping (credit.rules)
    UiOnly       \* TRUE: a seller rejects only the refunds the web client
                 \* shows him; FALSE: whatever the API accepts

ASSUME PriceAssumption    == Price \in [Books -> Nat \ {0}]
ASSUME SellerAssumption   == SellerOf \in [Books -> Users]
ASSUME FeeAssumption      == FeeBps \in 0..2000
ASSUME CreditAssumption   ==
    /\ MaxCredit \in Nat
    /\ InitCredit \in 0..MaxCredit
    /\ ShipBonus \in Nat
ASSUME BatchAssumption    == BatchLimit \in Nat \ {0}
ASSUME UiOnlyAssumption   == UiOnly \in BOOLEAN

VARIABLES
    orders,   \* orders, a function on the ids in use
    tickets,  \* orders for which a dispute opened an urgent ticket
    credit,   \* users.credit_score
    batch,    \* per worker: rows read by the scan and still to be confirmed
    earlier   \* <<x, y>>: the auto_confirm_at of x lies before that of y

jobVars == <<batch, earlier>>
vars == <<orders, tickets, credit, jobVars, walletVars, bookVars>>
-----------------------------------------------------------------------------
EscrowStatuses == {"none", "held", "released", "refunded"}

\* auto_confirm_at: not set, set and still ahead, or passed.
Countdowns == {"off", "running", "elapsed"}

Orders ==
    [status : Statuses, escrow : EscrowStatuses, countdown : Countdowns,
     book : Books, buyer : Users, seller : Users,
     amount : Nat \ {0}, fee : Nat]

ServiceFee(amount) == (amount * FeeBps) \div 10000

\* Mutant: the seller is paid the whole price on top of the platform's fee.
GrossIncome(o) == orders[o].amount

Income(o) == orders[o].amount - orders[o].fee

InStatus(S) == {o \in DOMAIN orders : orders[o].status \in S}
-----------------------------------------------------------------------------
(* escrowService: what each stage asks of the wallet *)

\* Mutant: the price leaves the balance and is not frozen.
HoldOutcomeUnfrozen(o) ==
    Try(Start, Entry("pay:balance", o, orders[o].buyer, "balance", "out",
                     orders[o].amount))

HoldOutcome(o) ==
    LET order == orders[o] IN
    Try(Try(Start,
      Entry("pay:balance", o, order.buyer, "balance", "out", order.amount)),
      Entry("pay:frozen", o, order.buyer, "frozen", "in", order.amount))

ReleaseOutcome(o) ==
    LET order == orders[o]
        paid  == Try(Try(Start,
          Entry("release:buyer-frozen", o, order.buyer, "frozen", "out",
                order.amount)),
          Entry("release:seller", o, order.seller, "balance", "in", Income(o)))
    IN  IF order.fee > 0
        THEN Try(paid,
               Entry("release:fee", o, Platform, "balance", "in", order.fee))
        ELSE paid

\* Mutant: the fee is kept back from a refund.
RefundOutcomeNet(o) ==
    LET order == orders[o] IN
    Try(Try(Start,
      Entry("refund:frozen", o, order.buyer, "frozen", "out", order.amount)),
      Entry("refund:balance", o, order.buyer, "balance", "in", Income(o)))

RefundOutcome(o) ==
    LET order == orders[o] IN
    Try(Try(Start,
      Entry("refund:frozen", o, order.buyer, "frozen", "out", order.amount)),
      Entry("refund:balance", o, order.buyer, "balance", "in", order.amount))
-----------------------------------------------------------------------------
TypeOK ==
    /\ WalletTypeOK
    /\ BookTypeOK
    /\ DOMAIN orders \subseteq OrderIds
    /\ orders \in [DOMAIN orders -> Orders]
    /\ tickets \subseteq DOMAIN orders
    /\ credit \in [Users -> 0..MaxCredit]
    /\ batch \in [Workers -> SUBSET OrderIds]
    /\ earlier \subseteq OrderIds \X OrderIds

Init ==
    /\ WalletInit
    /\ BookInit
    /\ orders = [o \in {} |-> {}]
    /\ tickets = {}
    /\ credit = [u \in Users |-> InitCredit]
    /\ batch = [w \in Workers |-> {}]
    /\ earlier = {}
-----------------------------------------------------------------------------
(* The handlers *)

\* The common part of every handler on an existing order: assertTransition on
\* the locked row, then the conditional update of the row.  update is what
\* the handler changes in the row besides the status.
Transition(o, to, escrow, countdown) ==
    /\ o \in DOMAIN orders
    /\ CanTransition(orders[o].status, to)
    /\ orders' = [orders EXCEPT ![o].status = to,
                                ![o].escrow = escrow,
                                ![o].countdown = countdown]

\* Mutant: only orders still to be paid keep others from ordering the book.
UnpaidOrdersOn(b) == {x \in InStatus({"pending_payment"}) : orders[x].book = b}

\* create's second test on the book, which the unique index uk_active_book
\* repeats.
ActiveOrdersOn(b) == {x \in InStatus(ActiveStatuses) : orders[x].book = b}

Create(o, buyer, b) ==
    /\ o \notin DOMAIN orders
    /\ ~books[b].deleted
    /\ SellerOf[b] # buyer
    /\ books[b].status = "on_sale"
    /\ ActiveOrdersOn(b) = {}
    /\ orders' =
         [x \in DOMAIN orders \cup {o} |->
            IF x = o
            THEN [status |-> InitialStatus, escrow |-> "none",
                  countdown |-> "off", book |-> b, buyer |-> buyer,
                  seller |-> SellerOf[b], amount |-> Price[b],
                  fee |-> ServiceFee(Price[b])]
            ELSE orders[x]]
    /\ SetBookStatus(b, {"on_sale"}, "locked")
    /\ UNCHANGED <<walletVars, bookReqs, tickets, credit, jobVars>>

Pay(o) ==
    /\ Transition(o, "paid", "held", orders[o].countdown)
    /\ Commit(HoldOutcome(o))
    /\ UNCHANGED <<withdrawals, bookVars, tickets, credit, jobVars>>

\* Shipping starts the countdown, also when the order is shipped again after
\* a return request, and earns the seller the on-time bonus.  The number of
\* days is the same for all orders, so the order shipped last is due last.
Ship(o) ==
    /\ Transition(o, "shipped", orders[o].escrow, "running")
    /\ credit' = [credit EXCEPT ![orders[o].seller] =
                    IF @ + ShipBonus > MaxCredit THEN MaxCredit
                                                 ELSE @ + ShipBonus]
    /\ earlier' = (earlier \ ({o} \X OrderIds)) \cup
                     ((DOMAIN orders \ {o}) \X {o})
    /\ UNCHANGED <<walletVars, bookVars, tickets, batch>>

ConfirmEffect(o) ==
    /\ Transition(o, "completed", "released", "off")
    /\ Commit(ReleaseOutcome(o))
    /\ SetBookStatus(orders[o].book, {"locked", "on_sale"}, "sold")
    /\ UNCHANGED <<withdrawals, bookReqs, tickets, credit, earlier>>

\* confirm, called by the buyer.
Confirm(o) == ConfirmEffect(o) /\ UNCHANGED batch

\* Mutant: cancelling leaves the book locked.
CancelKeepingLock(o) ==
    /\ Transition(o, "cancelled", orders[o].escrow, orders[o].countdown)
    /\ UNCHANGED <<walletVars, bookVars, tickets, credit, jobVars>>

Cancel(o) ==
    /\ Transition(o, "cancelled", orders[o].escrow, orders[o].countdown)
    /\ SetBookStatus(orders[o].book, {"locked"}, "on_sale")
    /\ UNCHANGED <<walletVars, bookReqs, tickets, credit, jobVars>>

RequestRefund(o) ==
    /\ Transition(o, "refund_requested", orders[o].escrow, orders[o].countdown)
    /\ UNCHANGED <<walletVars, bookVars, tickets, credit, jobVars>>

\* The countdown is left running.
RequestReturn(o) ==
    /\ Transition(o, "return_requested", orders[o].escrow, orders[o].countdown)
    /\ UNCHANGED <<walletVars, bookVars, tickets, credit, jobVars>>

AgreeRefund(o) ==
    /\ Transition(o, "refunded", "refunded", orders[o].countdown)
    /\ Commit(RefundOutcome(o))
    /\ SetBookStatus(orders[o].book, {"locked"}, "on_sale")
    /\ UNCHANGED <<withdrawals, bookReqs, tickets, credit, jobVars>>

\* Mutant: the web client shows "reject" on every order.
RejectAnyOrder(o) ==
    /\ Transition(o, "paid", orders[o].escrow, orders[o].countdown)
    /\ UNCHANGED <<walletVars, bookVars, tickets, credit, jobVars>>

\* The target is "paid" whatever the status, and the only test is the table's:
\* the server also lets a seller "reject" on an order still to be paid.
RejectRefund(o) ==
    /\ Transition(o, "paid", orders[o].escrow, orders[o].countdown)
    /\ UiOnly => orders[o].status \in {"refund_requested", "return_requested"}
    /\ UNCHANGED <<walletVars, bookVars, tickets, credit, jobVars>>

Dispute(o) ==
    /\ Transition(o, "disputed", orders[o].escrow, "off")
    /\ tickets' = tickets \cup {o}
    /\ UNCHANGED <<walletVars, bookVars, credit, jobVars>>

ArbitrateRelease(o) ==
    /\ Transition(o, "arbitrated_release", "released", "off")
    /\ Commit(ReleaseOutcome(o))
    /\ SetBookStatus(orders[o].book, {"locked"}, "sold")
    /\ UNCHANGED <<withdrawals, bookReqs, tickets, credit, jobVars>>

ArbitrateRefund(o) ==
    /\ Transition(o, "arbitrated_refund", "refunded", "off")
    /\ Commit(RefundOutcome(o))
    /\ SetBookStatus(orders[o].book, {"locked"}, "on_sale")
    /\ UNCHANGED <<withdrawals, bookReqs, tickets, credit, jobVars>>
-----------------------------------------------------------------------------
(* The order.auto_confirm job *)

\* Time passes: the countdown of an order runs out, in whatever status.
Elapse(o) ==
    /\ o \in DOMAIN orders
    /\ orders[o].countdown = "running"
    /\ orders' = [orders EXCEPT ![o].countdown = "elapsed"]
    /\ UNCHANGED <<walletVars, bookVars, tickets, credit, jobVars>>

DueOrders == {o \in InStatus({"shipped"}) : orders[o].countdown = "elapsed"}

\* Mutant: a scan without ORDER BY.
AnyOrders(due) == due \subseteq DueOrders

\* Nothing due for longer than an order of the batch is left out.
OldestOrders(due) ==
    \A x \in DueOrders, y \in due : <<x, y>> \in earlier => x \in due

\* The scan of autoConfirmDue, outside any transaction, of up to BatchLimit
\* rows.
Scan(w) ==
    /\ batch[w] = {}
    /\ \E due \in SUBSET DueOrders :
          /\ due # {}
          /\ Cardinality(due) <= BatchLimit
          /\ due = DueOrders \/ Cardinality(due) = BatchLimit
          /\ OldestOrders(due)
          /\ batch' = [batch EXCEPT ![w] = due]
    /\ UNCHANGED <<orders, walletVars, bookVars, tickets, credit, earlier>>

TakeFromBatch(w, o) ==
    /\ o \in batch[w]
    /\ batch' = [batch EXCEPT ![w] = @ \ {o}]

\* confirm with systemTriggered: the status is tested again, the countdown
\* is not.
AutoConfirm(w, o) == TakeFromBatch(w, o) /\ ConfirmEffect(o)

\* confirm throws; the job logs the error and goes on with its batch.
AutoConfirmFails(w, o) ==
    /\ TakeFromBatch(w, o)
    /\ ~ (/\ CanTransition(orders[o].status, "completed")
          /\ ReleaseOutcome(o).ok)
    /\ UNCHANGED <<orders, walletVars, bookVars, tickets, credit, earlier>>

\* The server process goes down between two confirmations; what is left of
\* the batch is in its memory only.
JobCrash(w) ==
    /\ batch[w] # {}
    /\ batch' = [batch EXCEPT ![w] = {}]
    /\ UNCHANGED <<orders, walletVars, bookVars, tickets, credit, earlier>>
-----------------------------------------------------------------------------
OrderNext ==
    \/ \E o \in OrderIds, u \in Users, b \in Books : Create(o, u, b)
    \/ \E o \in OrderIds :
          \/ Pay(o) \/ Ship(o) \/ Confirm(o) \/ Cancel(o)
          \/ RequestRefund(o) \/ RequestReturn(o)
          \/ AgreeRefund(o) \/ RejectRefund(o)
          \/ Dispute(o) \/ ArbitrateRelease(o) \/ ArbitrateRefund(o)

JobNext ==
    \/ \E o \in OrderIds : Elapse(o)
    \/ \E w \in Workers :
          \/ Scan(w) \/ JobCrash(w)
          \/ \E o \in OrderIds : AutoConfirm(w, o) \/ AutoConfirmFails(w, o)

Next ==
    \/ OrderNext
    \/ JobNext
    \/ WalletNext /\ UNCHANGED <<orders, bookVars, tickets, credit, jobVars>>
    \/ BookNext /\ UNCHANGED <<orders, walletVars, tickets, credit, jobVars>>

Spec == Init /\ [][Next]_vars

\* The clock runs and the scheduler keeps ticking; users owe the system
\* nothing.  A process may crash as often as it likes, but an order that it
\* reads again and again is not cut off by a crash every single time.
Fairness ==
    /\ \A o \in OrderIds : WF_vars(Elapse(o))
    /\ \A w \in Workers : WF_vars(Scan(w))
    /\ \A w \in Workers, o \in OrderIds :
          SF_vars(AutoConfirm(w, o) \/ AutoConfirmFails(w, o))

FairSpec == Spec /\ Fairness
=============================================================================
