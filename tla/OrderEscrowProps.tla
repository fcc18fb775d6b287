-------------------------- MODULE OrderEscrowProps --------------------------
(***************************************************************************)
(* What orders, books and escrow are meant to guarantee.                   *)
(***************************************************************************)
EXTENDS OrderEscrow, Functions

ReleasedStatuses == {"completed", "arbitrated_release"}
RefundedStatuses == {"refunded", "arbitrated_refund"}

ReleaseStages(o) ==
    {"release:buyer-frozen", "release:seller"} \cup
    (IF o \in DOMAIN orders /\ orders[o].fee > 0 THEN {"release:fee"} ELSE {})

RefundStages == {"refund:frozen", "refund:balance"}

\* The ledger and the status of an order always tell the same story: every
\* entry of the release has been posted exactly when the order ended in favour
\* of the seller, every entry of the refund exactly when it ended in favour of
\* the buyer.  So an order is settled at most once and never both ways, however
\* confirmations, refunds, arbitrations and the auto-confirm job interleave
\* (order.service.js confirm, agreeRefund, arbitrate).
SettlementMatchesStatus ==
    \A o \in OrderIds :
        /\ \A stage \in ReleaseStages(o) :
              Posted(wallet, <<stage, o>>) <=> o \in InStatus(ReleasedStatuses)
        /\ \A stage \in RefundStages :
              Posted(wallet, <<stage, o>>) <=> o \in InStatus(RefundedStatuses)

\* Overselling protection: at most one order of a book is neither finished nor
\* cancelled, even when stale shelf requests put a book back on sale while an
\* order on it is under way (create's second test and uk_active_book).
OneActiveOrderPerBook ==
    \A x, y \in DOMAIN orders :
        /\ orders[x].book = orders[y].book
        /\ orders[x].status \notin TerminalStatuses
        /\ orders[y].status \notin TerminalStatuses
        => x = y

\* A book never stays locked with nobody to unlock it: every locked book has
\* an unfinished order, so every way an order ends releases its book
\* (setBookStatus in cancel, confirm, agreeRefund and arbitrate).
LockedHasActiveOrder ==
    \A b \in Books : books[b].status = "locked" =>
        \E o \in DOMAIN orders :
            orders[o].book = b /\ orders[o].status \notin TerminalStatuses

\* What the ledger says an account holds.
LedgerSum(w, h, a) ==
    SumFunction([e \in {x \in w.ledger : x.user = h /\ x.account = a} |-> Signed(e)])

\* assertConsistency: both cached amounts of every account equal the sum of
\* its ledger entries, also after a stage is repeated under its key (paying
\* again out of refund_requested).
CacheMatchesLedger ==
    \A h \in Holders, a \in Accounts : wallet.money[h][a] = LedgerSum(wallet, h, a)

AllMoney(w) == SumFunction([x \in Holders \X Accounts |-> w.money[x[1]][x[2]]])

AmountPosted(w, stage) ==
    SumFunction([e \in {x \in w.ledger : x.key[1] = stage} |-> e.amount])

\* Orders only move money about: what all accounts hold together is what was
\* recharged minus what was paid out to withdrawals, so a sale's income and
\* fee add up to its price whatever the rounding.
MoneyConserved ==
    AllMoney(wallet) =
      AmountPosted(wallet, "recharge") - AmountPosted(wallet, "withdraw:paid")

HeldOf(u) == {o \in DOMAIN orders :
                orders[o].escrow = "held" /\ orders[o].buyer = u}

PendingOf(u) == {w \in DOMAIN withdrawals :
                   withdrawals[w].status = "pending" /\ withdrawals[w].user = u}

\* A buyer's frozen money is exactly the price of his orders in escrow plus
\* his pending withdrawals.  Every one of them can therefore be settled, and
\* none is settled with money frozen for another.
FrozenCoversClaims ==
    \A u \in Users :
        wallet.money[u]["frozen"] =
            SumFunction([o \in HeldOf(u) |-> orders[o].amount]) +
            SumFunction([w \in PendingOf(u) |-> withdrawals[w].amount])

\* A dispute freezes the payout: a disputed order changes in no way at all
\* until it is arbitrated, even if the auto-confirm job had it in its batch
\* before the dispute was opened (dispute, autoConfirmDue).
DisputedUnlessArbitrated ==
    \A o \in InStatus({"disputed"}) :
        \/ orders'[o] = orders[o]
        \/ orders'[o].status \in {"arbitrated_refund", "arbitrated_release"}

DisputeFreezes == [][DisputedUnlessArbitrated]_vars

UnpaidStatuses == {"pending_payment", "cancelled"}

EscrowOf(status) ==
    IF status \in UnpaidStatuses        THEN "none"
    ELSE IF status \in ReleasedStatuses THEN "released"
    ELSE IF status \in RefundedStatuses THEN "refunded"
    ELSE "held"

\* The two status columns of an order agree, whatever path it took there:
\* from payment to settlement the money is held, and no order that was not
\* paid is ever shipped, disputed or settled (escrow_status in pay, confirm,
\* agreeRefund and arbitrate; the web client rejects refunds only where the
\* buyer asked for one).
EscrowFollowsStatus ==
    \A o \in DOMAIN orders : orders[o].escrow = EscrowOf(orders[o].status)

\* The docs' reading of status paid, "funds in escrow".
PaidMeansHeld == \A o \in InStatus({"paid"}) : orders[o].escrow = "held"

\* A shipped order does not wait forever for a buyer who does nothing: the
\* job, or somebody before it, takes every shipped order to another status.
ShippedOrdersMoveOn ==
    \A o \in OrderIds :
        o \in InStatus({"shipped"}) ~> o \notin InStatus({"shipped"})
-----------------------------------------------------------------------------
\* The escrow's promise, with orders mapped to deals, escrow_status to the
\* stage of the money and balances to what each party can spend.  Frozen
\* amounts, statuses, books and the job have no counterpart.
Promise ==
    INSTANCE EscrowPromise WITH
        deals <- [o \in DOMAIN orders |->
                    [buyer |-> orders[o].buyer, seller |-> orders[o].seller,
                     price |-> orders[o].amount, fee |-> orders[o].fee]],
        stage <- [o \in DOMAIN orders |-> orders[o].escrow],
        spendable <- [h \in Holders |-> wallet.money[h]["balance"]]

\* Every step of the detailed system keeps the promise.
KeepsPromise == Promise!Spec
=============================================================================
