------------------------------- MODULE Wallet -------------------------------
(***************************************************************************)
(* The wallet: an append-only ledger of entries, one unique idempotency    *)
(* key per entry, and a cached balance and frozen amount per account.      *)
(*                                                                         *)
(* walletService.record is the single way money moves.  Handlers call it   *)
(* several times inside one database transaction, and one refused call     *)
(* rolls the whole transaction back; an Outcome carries the wallet through *)
(* such a chain of calls together with whether they were all accepted.     *)
(***************************************************************************)
EXTENDS Integers, FiniteSets

CONSTANTS
    Users,            \* students, who buy, sell, recharge and withdraw
    Platform,         \* the platform_admin account that collects the fees
    OrderIds,         \* bound: the orders that can ever exist
    TopUps,           \* bound: Idempotency-Keys a user recharges under
    WithdrawIds,      \* bound: the withdrawal requests that can ever exist
    RechargeAmounts,  \* amounts a recharge may ask for
    WithdrawAmounts   \* amounts a withdrawal may ask for

ASSUME PlatformAssumption == Platform \notin Users
ASSUME UsersAssumption == IsFiniteSet(Users)
ASSUME AmountsAssumption ==
    /\ RechargeAmounts \subseteq Nat \ {0}
    /\ WithdrawAmounts \subseteq Nat \ {0}

VARIABLES
    wallet,       \* wallet_accounts (money) and wallet_transactions (ledger)
    withdrawals   \* withdraw_requests: a function on the ids in use

walletVars == <<wallet, withdrawals>>
-----------------------------------------------------------------------------
Holders  == Users \cup {Platform}
Accounts == {"balance", "frozen"}

Stages ==
    {"recharge", "withdraw:freeze", "withdraw:frozen", "withdraw:paid",
     "pay:balance", "pay:frozen",
     "release:buyer-frozen", "release:seller", "release:fee",
     "refund:frozen", "refund:balance"}

\* What an entry is about: an order, a recharge request or a withdrawal.
Refs == OrderIds \cup (Users \X TopUps) \cup WithdrawIds

\* Idempotency keys: the stage of the business action and what it is about.
Keys == Stages \X Refs

Entries ==
    [key : Keys, user : Holders, account : Accounts,
     direction : {"in", "out"}, amount : Nat \ {0}]

WalletStates == [money : [Holders -> [Accounts -> Nat]], ledger : SUBSET Entries]

Entry(stage, ref, user, account, direction, amount) ==
    [key |-> <<stage, ref>>, user |-> user, account |-> account,
     direction |-> direction, amount |-> amount]

Signed(e) == IF e.direction = "in" THEN e.amount ELSE -e.amount

\* A unique index on idempotency_key: is there an entry under this key?
Posted(w, key) == \E e \in w.ledger : e.key = key
-----------------------------------------------------------------------------
(* record *)

\* Mutant: no test that the money is there.
CanRecordOverdraft(w, e) == e.amount > 0

\* The call throws unless the amount is positive and neither cached amount
\* goes below zero.  The test comes before the insert, so a repeated call is
\* refused too when the money is no longer there.
CanRecord(w, e) ==
    /\ e.amount > 0
    /\ w.money[e.user][e.account] + Signed(e) >= 0

\* Mutant: the cache is updated before the duplicate key is noticed.
RecordTwice(w, e) ==
    [money  |-> [w.money EXCEPT ![e.user][e.account] = @ + Signed(e)],
     ledger |-> IF Posted(w, e.key) THEN w.ledger ELSE w.ledger \cup {e}]

\* A duplicate key returns the stored entry and leaves the cache alone.
Record(w, e) ==
    IF Posted(w, e.key)
    THEN w
    ELSE [money  |-> [w.money EXCEPT ![e.user][e.account] = @ + Signed(e)],
          ledger |-> w.ledger \cup {e}]

Start == [ok |-> TRUE, wallet |-> wallet]

\* One more record in the same transaction.
Try(r, e) ==
    [ok     |-> r.ok /\ CanRecord(r.wallet, e),
     wallet |-> Record(r.wallet, e)]

\* The transaction commits: every record in it was accepted.
Commit(r) == r.ok /\ wallet' = r.wallet
-----------------------------------------------------------------------------
WalletTypeOK ==
    /\ wallet \in WalletStates
    /\ DOMAIN withdrawals \subseteq WithdrawIds
    /\ withdrawals \in
         [DOMAIN withdrawals ->
            [user : Users, amount : Nat \ {0}, status : {"pending", "paid"}]]

WalletInit ==
    /\ wallet = [money  |-> [h \in Holders |-> [a \in Accounts |-> 0]],
                ledger |-> {}]
    /\ withdrawals = [w \in {} |-> {}]

\* A recharge; asking again under the same key changes nothing.
Recharge(u, t, amount) ==
    /\ Commit(Try(Start, Entry("recharge", <<u, t>>, u, "balance", "in", amount)))
    /\ UNCHANGED withdrawals

\* A withdrawal request moves the amount from the balance to the frozen part.
\* A repeated Idempotency-Key violates withdraw_requests' unique index and
\* fails as a whole, hence the guard on w.
Withdraw(u, w, amount) ==
    /\ w \notin DOMAIN withdrawals
    /\ Commit(Try(Try(Start,
         Entry("withdraw:freeze", w, u, "balance", "out", amount)),
         Entry("withdraw:frozen", w, u, "frozen", "in", amount)))
    /\ withdrawals' =
         [x \in DOMAIN withdrawals \cup {w} |->
            IF x = w THEN [user |-> u, amount |-> amount, status |-> "pending"]
                     ELSE withdrawals[x]]

\* settleWithdraw: the request is paid out of the frozen part, once.  Its
\* entry has no idempotency key; the status guard makes it unique.
SettleWithdraw(w) ==
    /\ w \in DOMAIN withdrawals
    /\ withdrawals[w].status = "pending"
    /\ Commit(Try(Start,
         Entry("withdraw:paid", w, withdrawals[w].user, "frozen", "out",
               withdrawals[w].amount)))
    /\ withdrawals' = [withdrawals EXCEPT ![w].status = "paid"]

WalletNext ==
    \/ \E u \in Users, t \in TopUps, a \in RechargeAmounts : Recharge(u, t, a)
    \/ \E u \in Users, w \in WithdrawIds, a \in WithdrawAmounts :
          Withdraw(u, w, a)
    \/ \E w \in WithdrawIds : SettleWithdraw(w)
=============================================================================
