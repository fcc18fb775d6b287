-------------------------- MODULE OrderEscrowProofs --------------------------
(***************************************************************************)
(* Theorems about orders, books and escrow, for every set of users, books, *)
(* orders and requests, every price and every fee: the types, the safety   *)
(* properties of orders and books, each strengthened to an inductive       *)
(* invariant where needed, and the settlement of every order at most once  *)
(* and never both ways.                                                    *)
(*                                                                         *)
(* Then what the ledger adds up to, for any number of users, books, orders *)
(* and wallet requests: the cached amounts are its sums, money is          *)
(* conserved, frozen money is exactly what orders in escrow and pending    *)
(* withdrawals claim, and orders and wallet together implement             *)
(* EscrowPromise.                                                          *)
(*                                                                         *)
(* Every handler makes one to three records.  What a record adds to an     *)
(* account, to all the money and to a sum of entries is said once for any  *)
(* record (RecordMoney, RecordCaches, RecordSurplus), then for the chain   *)
(* of each stage of the escrow.  Which entries are there already follows   *)
(* from the statuses: of a settlement none before it is made (Story), of a *)
(* payment both exactly while, and after, the escrow has its price         *)
(* (PaidUnderKey), so that a second payment moves nothing.                 *)
(***************************************************************************)
EXTENDS OrderEscrowProps, Sums

\* What a chain of records must be about for the wallet to stay well typed:
\* the amount need not be positive, record refuses it if it is not.
Requests ==
    [key : Keys, user : Holders, account : Accounts,
     direction : {"in", "out"}, amount : Int]

OutcomeOK(r) == r.ok => r.wallet \in WalletStates

\* An accepted record leaves a well-typed wallet: no cached amount below zero
\* (walletService.record).
LEMMA RecordType ==
    ASSUME NEW w \in WalletStates, NEW e \in Requests, CanRecord(w, e)
    PROVE  Record(w, e) \in WalletStates
<1>1. e \in Entries
  <2>1. e.amount \in Nat \ {0}
    BY DEF Requests, CanRecord
  <2> QED
    BY <2>1 DEF Requests, Entries
<1>2. w.money \in [Holders -> [Accounts -> Nat]] /\ w.ledger \subseteq Entries
    BY DEF WalletStates
<1>3. CASE Posted(w, e.key)
    BY <1>3 DEF Record
<1>4. CASE ~Posted(w, e.key)
  <2>1. e.user \in Holders /\ e.account \in Accounts
    BY DEF Requests
  <2>2. w.money[e.user][e.account] + Signed(e) \in Nat
    <3>1. Signed(e) \in Int
      BY DEF Signed, Requests
    <3>2. w.money[e.user][e.account] \in Nat
      BY <1>2, <2>1
    <3> QED
      BY <3>1, <3>2 DEF CanRecord
  <2>3. [w.money EXCEPT ![e.user][e.account] = @ + Signed(e)]
           \in [Holders -> [Accounts -> Nat]]
    BY <1>2, <2>1, <2>2
  <2>4. w.ledger \cup {e} \in SUBSET Entries
    BY <1>1, <1>2
  <2> QED
    BY <1>4, <2>3, <2>4 DEF Record, WalletStates
<1> QED
    BY <1>3, <1>4

\* Chaining one more record keeps the outcome well typed.
LEMMA TryType ==
    ASSUME NEW r, OutcomeOK(r), NEW e \in Requests
    PROVE  OutcomeOK(Try(r, e))
BY RecordType DEF OutcomeOK, Try

\* A chain posts the keys of its entries and no others, whether or not they
\* had been posted before.
LEMMA TryPosts ==
    ASSUME NEW r, NEW e, NEW k
    PROVE  Posted(Try(r, e).wallet, k) <=> Posted(r.wallet, k) \/ k = e.key
BY DEF Try, Record, Posted

LEMMA EntryIsRequest ==
    ASSUME NEW stage \in Stages, NEW ref \in Refs,
           NEW user \in Holders, NEW account \in Accounts,
           NEW direction \in {"in", "out"}, NEW amount \in Int
    PROVE  /\ Entry(stage, ref, user, account, direction, amount) \in Requests
           /\ Entry(stage, ref, user, account, direction, amount).key = <<stage, ref>>
BY DEF Entry, Requests, Keys

-----------------------------------------------------------------------------
(* Type correctness *)

\* The stages of the escrow keep the wallet well typed if they are accepted
\* (escrowService.hold, release and refund).
LEMMA OutcomeTypes ==
    ASSUME TypeOK, NEW o \in DOMAIN orders
    PROVE  /\ OutcomeOK(HoldOutcome(o))
           /\ OutcomeOK(ReleaseOutcome(o))
           /\ OutcomeOK(RefundOutcome(o))
<1> DEFINE order == orders[o]
<1>1. OutcomeOK(Start)
    BY DEF TypeOK, WalletTypeOK, OutcomeOK, Start
<1>2. /\ o \in OrderIds
      /\ order.buyer \in Holders /\ order.seller \in Holders
      /\ Platform \in Holders
      /\ order.amount \in Int /\ order.fee \in Int /\ Income(o) \in Int
    BY DEF TypeOK, Orders, Holders, Income
<1> HIDE DEF order
<1>3. \A stage \in Stages, user \in {order.buyer, order.seller, Platform},
         account \in Accounts, direction \in {"in", "out"},
         amount \in {order.amount, order.fee, Income(o)} :
            Entry(stage, o, user, account, direction, amount) \in Requests
    BY <1>2, EntryIsRequest DEF Refs
<1>4. OutcomeOK(HoldOutcome(o))
  <2>1. /\ Entry("pay:balance", o, order.buyer, "balance", "out", order.amount)
             \in Requests
        /\ Entry("pay:frozen", o, order.buyer, "frozen", "in", order.amount)
             \in Requests
    BY <1>3 DEF Stages, Accounts
  <2> QED
    BY <1>1, <2>1, TryType DEF HoldOutcome, order
<1>5. OutcomeOK(ReleaseOutcome(o))
  <2>1. /\ Entry("release:buyer-frozen", o, order.buyer, "frozen", "out",
                 order.amount) \in Requests
        /\ Entry("release:seller", o, order.seller, "balance", "in", Income(o))
             \in Requests
        /\ Entry("release:fee", o, Platform, "balance", "in", order.fee)
             \in Requests
    BY <1>3 DEF Stages, Accounts
  <2> QED
    BY <1>1, <2>1, TryType DEF ReleaseOutcome, order
<1>6. OutcomeOK(RefundOutcome(o))
  <2>1. /\ Entry("refund:frozen", o, order.buyer, "frozen", "out",
                 order.amount) \in Requests
        /\ Entry("refund:balance", o, order.buyer, "balance", "in",
                 order.amount) \in Requests
    BY <1>3 DEF Stages, Accounts
  <2> QED
    BY <1>1, <2>1, TryType DEF RefundOutcome, order
<1> QED
    BY <1>4, <1>5, <1>6

\* A committed chain of records leaves a well-typed wallet.
LEMMA CommitType ==
    ASSUME NEW r, OutcomeOK(r), Commit(r)
    PROVE  wallet' \in WalletStates
BY DEF OutcomeOK, Commit

\* A handler's update of an order keeps the orders well typed.
LEMMA TransitionType ==
    ASSUME TypeOK, NEW o, NEW to \in Statuses, NEW escrow \in EscrowStatuses,
           NEW countdown \in Countdowns, Transition(o, to, escrow, countdown)
    PROVE  /\ o \in DOMAIN orders
           /\ DOMAIN orders' = DOMAIN orders
           /\ orders' \in [DOMAIN orders' -> Orders]
           /\ orders[o].book \in Books
<1>1. o \in DOMAIN orders /\ orders \in [DOMAIN orders -> Orders]
    BY DEF Transition, TypeOK
<1>2. [orders[o] EXCEPT !.status = to, !.escrow = escrow,
                        !.countdown = countdown] \in Orders
    BY <1>1 DEF Orders
<1>3. orders' = [orders EXCEPT ![o] = [orders[o] EXCEPT !.status = to,
                    !.escrow = escrow, !.countdown = countdown]]
    BY <1>1 DEF Transition
<1> QED
    BY <1>1, <1>2, <1>3 DEF Orders

\* The conditional update of a book keeps the books well typed.
LEMMA SetBookStatusType ==
    ASSUME BookTypeOK, NEW b \in Books, NEW from, NEW to \in BookStatuses,
           SetBookStatus(b, from, to)
    PROVE  books' \in [Books -> [status : BookStatuses, deleted : BOOLEAN]]
BY DEF BookTypeOK, SetBookStatus

LEMMA TypeInit == Init => TypeOK
<1> SUFFICES ASSUME Init PROVE TypeOK
    OBVIOUS
<1>1. WalletTypeOK
  <2>1. wallet \in WalletStates
    BY DEF Init, WalletInit, WalletStates
  <2>2. DOMAIN withdrawals = {}
    BY DEF Init, WalletInit
  <2> QED
    BY <2>1, <2>2 DEF Init, WalletInit, WalletTypeOK
<1>2. BookTypeOK
    BY DEF Init, BookInit, BookTypeOK, BookStatuses
<1>3. /\ DOMAIN orders = {}
      /\ orders \in [DOMAIN orders -> Orders]
    BY DEF Init
<1>4. /\ tickets \subseteq DOMAIN orders
      /\ credit \in [Users -> 0..MaxCredit]
      /\ batch \in [Workers -> SUBSET OrderIds]
      /\ earlier \subseteq OrderIds \X OrderIds
    BY CreditAssumption DEF Init
<1> QED
    BY <1>1, <1>2, <1>3, <1>4 DEF TypeOK

\* Opening an order keeps the orders well typed.
LEMMA CreateType ==
    ASSUME TypeOK, NEW o \in OrderIds, NEW u \in Users, NEW b \in Books,
           Create(o, u, b)
    PROVE  TypeOK'
<1> DEFINE new == [status |-> InitialStatus, escrow |-> "none",
                   countdown |-> "off", book |-> b, buyer |-> u,
                   seller |-> SellerOf[b], amount |-> Price[b],
                   fee |-> ServiceFee(Price[b])]
<1>1. new \in Orders
  <2>1. Price[b] \in Nat \ {0} /\ SellerOf[b] \in Users
    BY PriceAssumption, SellerAssumption
  <2>2. ServiceFee(Price[b]) \in Nat
    <3>1. FeeBps \in Nat /\ Price[b] \in Nat
      BY <2>1, FeeAssumption
    <3>2. PICK p, q : p = Price[b] /\ q = FeeBps
      OBVIOUS
    <3>3. p * q \in Nat
      BY <3>1, <3>2
    <3> QED
      BY <3>2, <3>3 DEF ServiceFee
  <2> QED
    BY <2>1, <2>2 DEF Orders, InitialStatus, Statuses, ActiveStatuses,
                      EscrowStatuses, Countdowns
<1>2. /\ DOMAIN orders' = DOMAIN orders \cup {o}
      /\ \A x \in DOMAIN orders' :
            orders'[x] = IF x = o THEN new ELSE orders[x]
      /\ orders' = [x \in DOMAIN orders' |-> orders'[x]]
    BY DEF Create
<1>3. /\ DOMAIN orders' \subseteq OrderIds
      /\ orders' \in [DOMAIN orders' -> Orders]
    BY <1>1, <1>2 DEF TypeOK
<1>4. BookTypeOK'
    BY SetBookStatusType DEF Create, TypeOK, BookTypeOK, BookStatuses
<1>5. WalletTypeOK'
    BY DEF Create, TypeOK, WalletTypeOK, walletVars
<1>6. tickets' \subseteq DOMAIN orders'
    BY <1>2 DEF Create, TypeOK
<1> QED
    BY <1>3, <1>4, <1>5, <1>6 DEF Create, TypeOK, jobVars

\* A handler that settles or holds money, and perhaps writes the book.
LEMMA MoneyHandlerType ==
    ASSUME TypeOK, NEW o, NEW to \in Statuses, NEW escrow \in EscrowStatuses,
           NEW countdown \in Countdowns, Transition(o, to, escrow, countdown),
           NEW r \in {HoldOutcome(o), ReleaseOutcome(o), RefundOutcome(o)},
           Commit(r), UNCHANGED <<withdrawals, tickets, credit, earlier>>,
           BookTypeOK', batch' \in [Workers -> SUBSET OrderIds]
    PROVE  TypeOK'
<1>1. /\ o \in DOMAIN orders
      /\ DOMAIN orders' = DOMAIN orders
      /\ orders' \in [DOMAIN orders' -> Orders]
    BY TransitionType
<1>2. wallet' \in WalletStates
    BY <1>1, OutcomeTypes, CommitType
<1>3. WalletTypeOK'
    BY <1>2 DEF TypeOK, WalletTypeOK
<1> QED
    BY <1>1, <1>3 DEF TypeOK

\* A handler that moves no money.
LEMMA PlainHandlerType ==
    ASSUME TypeOK, NEW o, NEW to \in Statuses, NEW escrow \in EscrowStatuses,
           NEW countdown \in Countdowns, Transition(o, to, escrow, countdown),
           UNCHANGED walletVars, BookTypeOK',
           tickets' \subseteq tickets \cup {o},
           credit' \in [Users -> 0..MaxCredit],
           batch' \in [Workers -> SUBSET OrderIds],
           earlier' \subseteq OrderIds \X OrderIds
    PROVE  TypeOK'
<1>1. /\ o \in DOMAIN orders
      /\ DOMAIN orders' = DOMAIN orders
      /\ orders' \in [DOMAIN orders' -> Orders]
    BY TransitionType
<1>2. WalletTypeOK'
    BY DEF TypeOK, WalletTypeOK, walletVars
<1> QED
    BY <1>1, <1>2 DEF TypeOK

\* The escrow and the countdown of a typed order.
LEMMA OrderFields ==
    ASSUME TypeOK, NEW o \in DOMAIN orders
    PROVE  /\ orders[o].escrow \in EscrowStatuses
           /\ orders[o].countdown \in Countdowns
           /\ orders[o].status \in Statuses
           /\ orders[o].book \in Books
           /\ orders[o].buyer \in Users
           /\ orders[o].seller \in Users
           /\ o \in OrderIds
BY DEF TypeOK, Orders

LEMMA ConfirmEffectType ==
    ASSUME TypeOK, NEW o, ConfirmEffect(o),
           batch' \in [Workers -> SUBSET OrderIds]
    PROVE  TypeOK'
<1>1. /\ Transition(o, "completed", "released", "off")
      /\ Commit(ReleaseOutcome(o))
      /\ SetBookStatus(orders[o].book, {"locked", "on_sale"}, "sold")
      /\ UNCHANGED <<withdrawals, bookReqs, tickets, credit, earlier>>
    BY DEF ConfirmEffect
<1>2. /\ "completed" \in Statuses /\ "released" \in EscrowStatuses
      /\ "off" \in Countdowns /\ "sold" \in BookStatuses
    BY DEF Statuses, TerminalStatuses, EscrowStatuses, Countdowns, BookStatuses
<1>3. orders[o].book \in Books
    BY <1>1, <1>2, TransitionType
<1>4. BookTypeOK'
    BY <1>1, <1>2, <1>3, SetBookStatusType DEF TypeOK, BookTypeOK
<1> QED
    BY <1>1, <1>2, <1>4, MoneyHandlerType

\* Every step of the wallet keeps the wallet well typed.
LEMMA WalletStepType ==
    ASSUME WalletTypeOK, WalletNext
    PROVE  WalletTypeOK'
<1>1. OutcomeOK(Start)
    BY DEF WalletTypeOK, OutcomeOK, Start
<1>2. ASSUME NEW u \in Users, NEW t \in TopUps, NEW a \in RechargeAmounts,
             Recharge(u, t, a)
      PROVE  WalletTypeOK'
  <2>1. Entry("recharge", <<u, t>>, u, "balance", "in", a) \in Requests
    BY EntryIsRequest, AmountsAssumption DEF Stages, Holders, Accounts, Refs
  <2>2. wallet' \in WalletStates
    BY <1>1, <1>2, <2>1, TryType, CommitType DEF Recharge
  <2> QED
    BY <1>2, <2>2 DEF Recharge, WalletTypeOK
<1>3. ASSUME NEW u \in Users, NEW w \in WithdrawIds, NEW a \in WithdrawAmounts,
             Withdraw(u, w, a)
      PROVE  WalletTypeOK'
  <2>0. w \in Refs
    BY DEF Refs
  <2>1. /\ Entry("withdraw:freeze", w, u, "balance", "out", a) \in Requests
        /\ Entry("withdraw:frozen", w, u, "frozen", "in", a) \in Requests
    BY <2>0, EntryIsRequest, AmountsAssumption DEF Stages, Holders, Accounts, Refs
  <2>2. wallet' \in WalletStates
    BY <1>1, <1>3, <2>1, TryType, CommitType DEF Withdraw
  <2>3. [user |-> u, amount |-> a, status |-> "pending"] \in
           [user : Users, amount : Nat \ {0}, status : {"pending", "paid"}]
    BY AmountsAssumption
  <2> QED
    BY <1>3, <2>2, <2>3 DEF Withdraw, WalletTypeOK
<1>4. ASSUME NEW w \in WithdrawIds, SettleWithdraw(w)
      PROVE  WalletTypeOK'
  <2>1. withdrawals[w] \in
           [user : Users, amount : Nat \ {0}, status : {"pending", "paid"}]
    BY <1>4 DEF SettleWithdraw, WalletTypeOK
  <2>2. Entry("withdraw:paid", w, withdrawals[w].user, "frozen", "out",
              withdrawals[w].amount) \in Requests
    BY <2>1, EntryIsRequest DEF Stages, Holders, Accounts, Refs
  <2>3. wallet' \in WalletStates
    BY <1>1, <1>4, <2>2, TryType, CommitType DEF SettleWithdraw
  <2>4. [withdrawals[w] EXCEPT !.status = "paid"] \in
           [user : Users, amount : Nat \ {0}, status : {"pending", "paid"}]
    BY <2>1
  <2> QED
    BY <1>4, <2>3, <2>4 DEF SettleWithdraw, WalletTypeOK
<1> QED
    BY <1>2, <1>3, <1>4 DEF WalletNext

\* Every step of the shelf requests keeps the books well typed.
LEMMA BookStepType ==
    ASSUME BookTypeOK, BookNext
    PROVE  BookTypeOK'
<1>1. ASSUME NEW b \in Books, NEW status \in BookStatuses,
             \/ books' = [books EXCEPT ![b].status = status]
             \/ books' = [books EXCEPT ![b] = [status |-> status,
                                               deleted |-> TRUE]],
             bookReqs' \subseteq bookReqs
      PROVE  BookTypeOK'
  <2>1. /\ [books[b] EXCEPT !.status = status] \in
             [status : BookStatuses, deleted : BOOLEAN]
        /\ [status |-> status, deleted |-> TRUE] \in
             [status : BookStatuses, deleted : BOOLEAN]
    BY DEF BookTypeOK
  <2>2. \/ books' = [books EXCEPT ![b] = [books[b] EXCEPT !.status = status]]
        \/ books' = [books EXCEPT ![b] = [status |-> status, deleted |-> TRUE]]
    BY <1>1 DEF BookTypeOK
  <2>3. books' \in [Books -> [status : BookStatuses, deleted : BOOLEAN]]
    BY <2>1, <2>2 DEF BookTypeOK
  <2> QED
    BY <1>1, <2>3 DEF BookTypeOK
<1>2. /\ "off_shelf" \in BookStatuses /\ "on_sale" \in BookStatuses
      /\ "deleted" \in BookStatuses
    BY DEF BookStatuses
<1>3. ASSUME NEW b \in Books, NEW op \in BookRequestKinds,
             CheckBookRequest(op, b)
      PROVE  BookTypeOK'
    BY <1>3 DEF CheckBookRequest, BookTypeOK
<1>4. ASSUME NEW b \in Books, NEW op \in BookRequestKinds,
             WriteBookRequest(op, b)
      PROVE  BookTypeOK'
  <2>1. bookReqs' \subseteq bookReqs
    BY <1>4 DEF WriteBookRequest
  <2>2. CASE op = "off_shelf"
    BY <1>1, <1>2, <1>4, <2>1, <2>2 DEF WriteBookRequest
  <2>3. CASE op = "relist"
    BY <1>2, <1>4, <2>1, <2>3, SetBookStatusType
    DEF WriteBookRequest, BookTypeOK
  <2>4. CASE op = "delete"
    BY <1>1, <1>2, <1>4, <2>1, <2>4 DEF WriteBookRequest
  <2> QED
    BY <1>4, <2>2, <2>3, <2>4 DEF WriteBookRequest
<1>5. ASSUME NEW b \in Books, NEW action \in ReviewActions,
             ReviewBook(action, b)
      PROVE  BookTypeOK'
  <2>1. CASE action = "approve"
    BY <1>1, <1>2, <1>5, <2>1 DEF ReviewBook
  <2>2. CASE action = "hide"
    BY <1>1, <1>2, <1>5, <2>2 DEF ReviewBook
  <2>3. CASE action = "erase"
    BY <1>1, <1>2, <1>5, <2>3 DEF ReviewBook
  <2> QED
    BY <1>5, <2>1, <2>2, <2>3 DEF ReviewBook
<1> QED
    BY <1>3, <1>4, <1>5 DEF BookNext

LEMMA StatusSets ==
    /\ {"pending_payment", "paid", "shipped", "refund_requested",
        "return_requested", "disputed", "completed", "cancelled", "refunded",
        "arbitrated_refund", "arbitrated_release"} \subseteq Statuses
    /\ {"none", "held", "released", "refunded"} \subseteq EscrowStatuses
    /\ {"off", "running", "elapsed"} \subseteq Countdowns
    /\ {"on_sale", "locked", "sold"} \subseteq BookStatuses
BY DEF Statuses, ActiveStatuses, TerminalStatuses, EscrowStatuses, Countdowns,
       BookStatuses

LEMMA TypeStep == TypeOK /\ [Next]_vars => TypeOK'
<1> SUFFICES ASSUME TypeOK, [Next]_vars PROVE TypeOK'
    OBVIOUS
<1>1. BookTypeOK /\ batch \in [Workers -> SUBSET OrderIds]
    BY DEF TypeOK
<1>2. ASSUME UNCHANGED bookVars PROVE BookTypeOK'
    BY <1>1, <1>2 DEF BookTypeOK, bookVars
<1>3. ASSUME NEW b \in Books, NEW from, NEW to \in BookStatuses,
             SetBookStatus(b, from, to), UNCHANGED bookReqs
      PROVE  BookTypeOK'
    BY <1>1, <1>3, SetBookStatusType DEF BookTypeOK
<1>4. ASSUME NEW o \in OrderIds, Pay(o) PROVE TypeOK'
  <2>1. o \in DOMAIN orders
    BY <1>4 DEF Pay, Transition
  <2> QED
    BY <1>1, <1>2, <1>4, <2>1, StatusSets, OrderFields, MoneyHandlerType
    DEF Pay, jobVars
<1>5. ASSUME NEW o \in OrderIds, Ship(o) PROVE TypeOK'
  <2>1. o \in DOMAIN orders
    BY <1>5 DEF Ship, Transition
  <2>2. credit' \in [Users -> 0..MaxCredit]
    <3>1. orders[o].seller \in Users
      BY <2>1, OrderFields
    <3>2. credit[orders[o].seller] \in 0..MaxCredit
      BY <3>1 DEF TypeOK
    <3>3. (IF credit[orders[o].seller] + ShipBonus > MaxCredit
           THEN MaxCredit ELSE credit[orders[o].seller] + ShipBonus)
             \in 0..MaxCredit
      BY <3>2, CreditAssumption
    <3> QED
      BY <1>5, <3>3 DEF Ship, TypeOK
  <2>3. earlier' \subseteq OrderIds \X OrderIds
    BY <1>5 DEF Ship, TypeOK
  <2> QED
    BY <1>1, <1>2, <1>5, <2>1, <2>2, <2>3, StatusSets, OrderFields,
       PlainHandlerType
    DEF Ship
<1>6. ASSUME NEW o \in OrderIds, ConfirmEffect(o),
             batch' \in [Workers -> SUBSET OrderIds]
      PROVE  TypeOK'
    BY <1>6, ConfirmEffectType
<1>7. ASSUME NEW o \in OrderIds, Cancel(o) PROVE TypeOK'
  <2>1. o \in DOMAIN orders /\ orders[o].book \in Books
    BY <1>7, OrderFields DEF Cancel, Transition
  <2>2. BookTypeOK'
    BY <1>3, <1>7, <2>1, StatusSets DEF Cancel
  <2> QED
    BY <1>1, <1>7, <2>1, <2>2, StatusSets, OrderFields, PlainHandlerType
    DEF Cancel, TypeOK, jobVars
<1>8. ASSUME NEW o \in OrderIds,
             \/ RequestRefund(o) \/ RequestReturn(o) \/ RejectRefund(o)
             \/ Dispute(o)
      PROVE  TypeOK'
  <2>1. o \in DOMAIN orders
    BY <1>8 DEF RequestRefund, RequestReturn, RejectRefund, Dispute, Transition
  <2>2. /\ orders[o].escrow \in EscrowStatuses
        /\ orders[o].countdown \in Countdowns
    BY <2>1, OrderFields
  <2>3. PICK to \in Statuses, countdown \in Countdowns :
          Transition(o, to, orders[o].escrow, countdown)
    BY <1>8, <2>2, StatusSets
    DEF RequestRefund, RequestReturn, RejectRefund, Dispute
  <2>4. /\ UNCHANGED <<walletVars, bookVars, credit, jobVars>>
        /\ tickets' \subseteq tickets \cup {o}
    BY <1>8 DEF RequestRefund, RequestReturn, RejectRefund, Dispute
  <2> QED
    BY <1>1, <1>2, <2>2, <2>3, <2>4, PlainHandlerType DEF TypeOK, jobVars
<1>9. ASSUME NEW o \in OrderIds,
             AgreeRefund(o) \/ ArbitrateRelease(o) \/ ArbitrateRefund(o)
      PROVE  TypeOK'
  <2>1. o \in DOMAIN orders
    BY <1>9 DEF AgreeRefund, ArbitrateRelease, ArbitrateRefund, Transition
  <2>2. orders[o].book \in Books /\ orders[o].countdown \in Countdowns
    BY <2>1, OrderFields
  <2>3. BookTypeOK'
    BY <1>3, <1>9, <2>2, StatusSets
    DEF AgreeRefund, ArbitrateRelease, ArbitrateRefund
  <2>4. PICK to \in Statuses, escrow \in EscrowStatuses,
             countdown \in Countdowns,
             r \in {ReleaseOutcome(o), RefundOutcome(o)} :
          Transition(o, to, escrow, countdown) /\ Commit(r)
    BY <1>9, <2>2, StatusSets DEF AgreeRefund, ArbitrateRelease, ArbitrateRefund
  <2>5. UNCHANGED <<withdrawals, tickets, credit, jobVars>>
    BY <1>9 DEF AgreeRefund, ArbitrateRelease, ArbitrateRefund
  <2> QED
    BY <1>1, <2>3, <2>4, <2>5, MoneyHandlerType DEF jobVars
<1>10. ASSUME NEW o \in OrderIds, Elapse(o) PROVE TypeOK'
  <2>1. o \in DOMAIN orders /\ orders[o] \in Orders
    BY <1>10 DEF Elapse, TypeOK
  <2>2. [orders[o] EXCEPT !.countdown = "elapsed"] \in Orders
    BY <2>1 DEF Orders, Countdowns
  <2>3. /\ DOMAIN orders' = DOMAIN orders
        /\ orders' \in [DOMAIN orders' -> Orders]
    BY <1>10, <2>1, <2>2 DEF Elapse, TypeOK
  <2> QED
    BY <1>2, <1>10, <2>3 DEF Elapse, TypeOK, WalletTypeOK, walletVars, jobVars
<1>11. ASSUME NEW w \in Workers,
              \/ Scan(w) \/ JobCrash(w)
              \/ \E o \in OrderIds : AutoConfirmFails(w, o)
       PROVE  TypeOK'
  <2>1. batch' \in [Workers -> SUBSET OrderIds]
    BY <1>1, <1>11
    DEF Scan, JobCrash, AutoConfirmFails, TakeFromBatch, DueOrders, InStatus,
        TypeOK
  <2>2. UNCHANGED <<orders, walletVars, bookVars, tickets, credit, earlier>>
    BY <1>11 DEF Scan, JobCrash, AutoConfirmFails
  <2> QED
    BY <1>2, <2>1, <2>2 DEF TypeOK, WalletTypeOK, walletVars
<1>12. CASE OrderNext
    BY <1>1, <1>4, <1>5, <1>6, <1>7, <1>8, <1>9, <1>12, CreateType
    DEF OrderNext, Confirm
<1>13. CASE JobNext
  <2>1. ASSUME NEW w \in Workers, NEW o \in OrderIds, AutoConfirm(w, o)
        PROVE  TypeOK'
    <3>1. batch' \in [Workers -> SUBSET OrderIds]
      BY <1>1, <2>1 DEF AutoConfirm, TakeFromBatch
    <3> QED
      BY <1>6, <2>1, <3>1 DEF AutoConfirm
  <2> QED
    BY <1>10, <1>11, <1>13, <2>1 DEF JobNext
<1>14. CASE WalletNext /\ UNCHANGED <<orders, bookVars, tickets, credit, jobVars>>
    BY <1>2, <1>14, WalletStepType DEF TypeOK, jobVars
<1>15. CASE BookNext /\ UNCHANGED <<orders, walletVars, tickets, credit, jobVars>>
    BY <1>15, BookStepType DEF TypeOK, WalletTypeOK, walletVars, jobVars
<1>16. CASE UNCHANGED vars
    BY <1>2, <1>16 DEF vars, TypeOK, WalletTypeOK, walletVars, jobVars
<1> QED
    BY <1>12, <1>13, <1>14, <1>15, <1>16 DEF Next

\* Every variable keeps its type.  The parts that could fail: no cached
\* amount ever goes below zero, whatever is paid, released, refunded or
\* withdrawn (walletService.record), and no bonus lifts a credit score over
\* its bound (creditService.applyDelta).
THEOREM TypeCorrect == Spec => []TypeOK
BY TypeInit, TypeStep, PTL DEF Spec
-----------------------------------------------------------------------------
(* Safety of orders and books *)

\* The parts of an order that no step ever changes.
SameDeal(o) ==
    /\ orders'[o].book = orders[o].book
    /\ orders'[o].buyer = orders[o].buyer
    /\ orders'[o].seller = orders[o].seller
    /\ orders'[o].amount = orders[o].amount
    /\ orders'[o].fee = orders[o].fee

\* At most order o changes.
OnlyOrder(o) ==
    /\ o \in DOMAIN orders
    /\ DOMAIN orders' = DOMAIN orders
    /\ \A x \in DOMAIN orders : x # o => orders'[x] = orders[x]
    /\ SameDeal(o)

\* What a handler does to the orders: it changes status, escrow and countdown
\* of one order, along an edge of the state machine.
LEMMA TransitionUpdates ==
    ASSUME TypeOK, NEW o, NEW to, NEW escrow, NEW countdown,
           Transition(o, to, escrow, countdown)
    PROVE  /\ OnlyOrder(o)
           /\ CanTransition(orders[o].status, to)
           /\ orders'[o].status = to
           /\ orders'[o].escrow = escrow
           /\ orders'[o].countdown = countdown
<1>1. o \in DOMAIN orders /\ orders[o] \in Orders
    BY DEF Transition, TypeOK
<1>2. orders'[o] = [orders[o] EXCEPT !.status = to, !.escrow = escrow,
                                     !.countdown = countdown]
    BY <1>1 DEF Transition
<1> QED
    BY <1>1, <1>2 DEF Transition, OnlyOrder, SameDeal, Orders

\* Time changes the countdown of one order and nothing else about it.
LEMMA ElapseUpdates ==
    ASSUME TypeOK, NEW o \in OrderIds, Elapse(o)
    PROVE  /\ OnlyOrder(o)
           /\ orders[o].countdown = "running"
           /\ orders'[o].status = orders[o].status
           /\ orders'[o].escrow = orders[o].escrow
<1>1. o \in DOMAIN orders /\ orders[o] \in Orders
    BY DEF Elapse, TypeOK
<1>2. orders'[o] = [orders[o] EXCEPT !.countdown = "elapsed"]
    BY <1>1 DEF Elapse
<1> QED
    BY <1>1, <1>2 DEF Elapse, OnlyOrder, SameDeal, Orders

\* What opening an order does to the orders.
LEMMA CreateUpdates ==
    ASSUME NEW o \in OrderIds, NEW u \in Users, NEW b \in Books,
           Create(o, u, b)
    PROVE  /\ o \notin DOMAIN orders
           /\ DOMAIN orders' = DOMAIN orders \cup {o}
           /\ \A x \in DOMAIN orders : orders'[x] = orders[x]
           /\ orders'[o] =
                [status |-> "pending_payment", escrow |-> "none",
                 countdown |-> "off", book |-> b, buyer |-> u,
                 seller |-> SellerOf[b], amount |-> Price[b],
                 fee |-> ServiceFee(Price[b])]
           /\ orders'[o].status = "pending_payment"
           /\ orders'[o].escrow = "none"
           /\ orders'[o].countdown = "off"
           /\ orders'[o].book = b
           /\ orders'[o].fee = ServiceFee(Price[b])
BY DEF Create, InitialStatus

\* Every step of the system, by what it does to the orders, the wallet and
\* the books.
LEMMA OrdersStep ==
    ASSUME TypeOK, [Next]_vars
    PROVE  \/ \E o \in OrderIds, u \in Users, b \in Books : Create(o, u, b)
           \/ \E o \in OrderIds :
                \/ Pay(o) \/ Ship(o) \/ ConfirmEffect(o) \/ Cancel(o)
                \/ RequestRefund(o) \/ RequestReturn(o)
                \/ AgreeRefund(o) \/ RejectRefund(o)
                \/ Dispute(o) \/ ArbitrateRelease(o) \/ ArbitrateRefund(o)
           \/ \E o \in OrderIds : Elapse(o)
           \/ /\ UNCHANGED orders
              /\ WalletNext \/ UNCHANGED walletVars
              /\ BookNext \/ UNCHANGED bookVars
BY DEF Next, OrderNext, JobNext, Confirm, AutoConfirm, AutoConfirmFails, Scan,
       JobCrash, vars

\* The state machine has no edge out of a terminal status.
LEMMA EdgesStartActive ==
    ASSUME NEW from, NEW to, CanTransition(from, to)
    PROVE  from \in ActiveStatuses /\ from \notin TerminalStatuses
BY DEF CanTransition, Transitions, ActiveStatuses, TerminalStatuses

LEMMA ActiveOrTerminal ==
    ASSUME NEW s \in Statuses
    PROVE  s \in ActiveStatuses <=> s \notin TerminalStatuses
BY DEF Statuses, ActiveStatuses, TerminalStatuses
-----------------------------------------------------------------------------
(* Overselling *)

LEMMA OneActiveStep ==
    TypeOK /\ OneActiveOrderPerBook /\ [Next]_vars => OneActiveOrderPerBook'
<1> SUFFICES ASSUME TypeOK, OneActiveOrderPerBook, [Next]_vars
             PROVE  OneActiveOrderPerBook'
    OBVIOUS
<1>1. ASSUME NEW o \in OrderIds, NEW u \in Users, NEW b \in Books,
             Create(o, u, b)
      PROVE  OneActiveOrderPerBook'
  <2>1. \A x \in DOMAIN orders :
           orders[x].book = b => orders[x].status \in TerminalStatuses
    <3> SUFFICES ASSUME NEW x \in DOMAIN orders, orders[x].book = b
                 PROVE  orders[x].status \in TerminalStatuses
        OBVIOUS
    <3>1. orders[x].status \notin ActiveStatuses
        BY <1>1 DEF Create, ActiveOrdersOn, InStatus
    <3> QED
        BY <3>1, OrderFields, ActiveOrTerminal
  <2>2. /\ o \notin DOMAIN orders
        /\ DOMAIN orders' = DOMAIN orders \cup {o}
        /\ \A x \in DOMAIN orders : orders'[x] = orders[x]
        /\ orders'[o].book = b
    BY <1>1, CreateUpdates
  <2> QED
    BY <2>1, <2>2 DEF OneActiveOrderPerBook
<1>2. ASSUME NEW o, OnlyOrder(o),
             \/ orders[o].status \notin TerminalStatuses
             \/ orders'[o].status = orders[o].status
      PROVE  OneActiveOrderPerBook'
    BY <1>2 DEF OneActiveOrderPerBook, OnlyOrder, SameDeal
<1>3. ASSUME NEW o \in OrderIds, NEW to, NEW escrow, NEW countdown,
             Transition(o, to, escrow, countdown)
      PROVE  OneActiveOrderPerBook'
    BY <1>2, <1>3, TransitionUpdates, EdgesStartActive
<1>4. ASSUME NEW o \in OrderIds, Elapse(o)
      PROVE  OneActiveOrderPerBook'
    BY <1>2, <1>4, ElapseUpdates
<1>5. CASE UNCHANGED orders
    BY <1>5 DEF OneActiveOrderPerBook
<1> QED
    BY <1>1, <1>3, <1>4, <1>5, OrdersStep
    DEF Pay, Ship, ConfirmEffect, Cancel, RequestRefund, RequestReturn,
        AgreeRefund, RejectRefund, Dispute, ArbitrateRelease, ArbitrateRefund

\* No book is ever sold to two buyers at once, whatever the shelf requests do
\* to the status of the book (orderService.create, uk_active_book).
THEOREM NoOverselling == Spec => []OneActiveOrderPerBook
<1>1. Init => OneActiveOrderPerBook
    BY DEF Init, OneActiveOrderPerBook
<1> QED
    BY <1>1, TypeCorrect, OneActiveStep, PTL DEF Spec
-----------------------------------------------------------------------------
(* Locked books *)

UnfinishedOrderOn(b) ==
    \E o \in DOMAIN orders :
        orders[o].book = b /\ orders[o].status \notin TerminalStatuses

LEMMA LockedStep ==
    TypeOK /\ LockedHasActiveOrder /\ [Next]_vars => LockedHasActiveOrder'
<1> SUFFICES ASSUME TypeOK, LockedHasActiveOrder, [Next]_vars
             PROVE  LockedHasActiveOrder'
    OBVIOUS
<1> DEFINE Locked(b) == books[b].status = "locked"
<1>1. /\ \A b \in Books : Locked(b) => UnfinishedOrderOn(b)
      /\ (\A b \in Books : Locked(b)' => UnfinishedOrderOn(b)') =>
            LockedHasActiveOrder'
    BY DEF LockedHasActiveOrder, UnfinishedOrderOn
<1>2. ASSUME NEW b \in Books, NEW from, NEW to, SetBookStatus(b, from, to)
      PROVE  /\ \A x \in Books : x # b => Locked(x)' = Locked(x)
             /\ to # "locked" /\ "locked" \in from => ~Locked(b)'
             /\ to # "locked" => (Locked(b)' => Locked(b))
    BY <1>2 DEF SetBookStatus, TypeOK, BookTypeOK
<1> HIDE DEF Locked
<1>3. ASSUME NEW o \in OrderIds, NEW u \in Users, NEW b \in Books,
             Create(o, u, b)
      PROVE  \A x \in Books : Locked(x)' => UnfinishedOrderOn(x)'
  <2>1. /\ DOMAIN orders' = DOMAIN orders \cup {o}
        /\ \A x \in DOMAIN orders : orders'[x] = orders[x]
        /\ orders'[o].status = "pending_payment"
        /\ orders'[o].book = b
        /\ o \notin DOMAIN orders
    BY <1>3, CreateUpdates
  <2>2. UnfinishedOrderOn(b)'
    BY <2>1 DEF UnfinishedOrderOn, TerminalStatuses
  <2>3. ASSUME NEW x \in Books, x # b, Locked(x)' PROVE UnfinishedOrderOn(x)'
    <3>1. Locked(x)
      BY <1>2, <1>3, <2>3 DEF Create
    <3> QED
      BY <1>1, <2>1, <3>1 DEF UnfinishedOrderOn
  <2> QED
    BY <2>2, <2>3
<1>4. ASSUME NEW o, OnlyOrder(o), NEW x \in Books, UnfinishedOrderOn(x),
             orders[o].book = x => orders'[o].status \notin TerminalStatuses
      PROVE  UnfinishedOrderOn(x)'
    BY <1>4 DEF UnfinishedOrderOn, OnlyOrder, SameDeal
<1>5. ASSUME NEW o \in OrderIds,
             \/ Pay(o) \/ Ship(o) \/ RequestRefund(o) \/ RequestReturn(o)
             \/ RejectRefund(o) \/ Dispute(o)
      PROVE  \A x \in Books : Locked(x)' => UnfinishedOrderOn(x)'
  <2>1. PICK to, escrow, countdown :
           /\ Transition(o, to, escrow, countdown)
           /\ to \in {"paid", "shipped", "refund_requested",
                      "return_requested", "disputed"}
    BY <1>5 DEF Pay, Ship, RequestRefund, RequestReturn, RejectRefund, Dispute
  <2>2. OnlyOrder(o) /\ orders'[o].status \notin TerminalStatuses
    BY <2>1, TransitionUpdates DEF TerminalStatuses
  <2>3. UNCHANGED books
    BY <1>5 DEF Pay, Ship, RequestRefund, RequestReturn, RejectRefund, Dispute,
                bookVars
  <2>4. \A x \in Books : Locked(x)' = Locked(x)
    BY <2>3 DEF Locked
  <2> QED
    BY <1>1, <1>4, <2>2, <2>4
<1>6. ASSUME NEW o \in OrderIds,
             \/ ConfirmEffect(o) \/ Cancel(o) \/ AgreeRefund(o)
             \/ ArbitrateRelease(o) \/ ArbitrateRefund(o)
      PROVE  \A x \in Books : Locked(x)' => UnfinishedOrderOn(x)'
  <2>1. PICK to, escrow, countdown : Transition(o, to, escrow, countdown)
    BY <1>6 DEF ConfirmEffect, Cancel, AgreeRefund, ArbitrateRelease,
                ArbitrateRefund
  <2>2. PICK b \in Books : OnlyOrder(o) /\ orders[o].book = b
    BY <2>1, TransitionUpdates, OrderFields DEF OnlyOrder
  <2>3. PICK from, shelf : /\ SetBookStatus(b, from, shelf)
                           /\ "locked" \in from
                           /\ shelf \in {"sold", "on_sale"}
    BY <1>6, <2>2 DEF ConfirmEffect, Cancel, AgreeRefund, ArbitrateRelease,
                      ArbitrateRefund
  <2>4. ~Locked(b)'
    BY <1>2, <2>3
  <2>5. \A x \in Books : x # b => Locked(x)' = Locked(x)
    BY <1>2, <2>2, <2>3
  <2> QED
    BY <1>1, <1>4, <2>2, <2>4, <2>5
<1>7. ASSUME NEW o \in OrderIds, Elapse(o)
      PROVE  \A x \in Books : Locked(x)' => UnfinishedOrderOn(x)'
  <2>1. OnlyOrder(o) /\ orders'[o].status = orders[o].status
    BY <1>7, ElapseUpdates
  <2>2. \A x \in Books : Locked(x)' = Locked(x)
    BY <1>7 DEF Elapse, bookVars, Locked
  <2> QED
    BY <1>1, <2>1, <2>2 DEF UnfinishedOrderOn, OnlyOrder, SameDeal
<1>8. CASE UNCHANGED orders /\ (BookNext \/ UNCHANGED bookVars)
  <2>1. \A x \in Books : Locked(x)' => Locked(x)
    <3>1. ASSUME NEW b \in Books, NEW op \in BookRequestKinds,
                 CheckBookRequest(op, b) \/ WriteBookRequest(op, b)
          PROVE  \A x \in Books : Locked(x)' => Locked(x)
      <4>1. UNCHANGED books \/ \/ books' = [books EXCEPT ![b].status = "off_shelf"]
                               \/ SetBookStatus(b, {"off_shelf"}, "on_sale")
                               \/ books' = [books EXCEPT ![b] =
                                    [status |-> "off_shelf", deleted |-> TRUE]]
        BY <3>1 DEF CheckBookRequest, WriteBookRequest
      <4> QED
        BY <1>2, <4>1 DEF Locked, TypeOK, BookTypeOK
    <3>2. ASSUME NEW b \in Books, NEW action \in ReviewActions,
                 ReviewBook(action, b)
          PROVE  \A x \in Books : Locked(x)' => Locked(x)
      BY <3>2 DEF ReviewBook, Locked, TypeOK, BookTypeOK
    <3>3. CASE UNCHANGED bookVars
      BY <3>3 DEF bookVars, Locked
    <3> QED
      BY <1>8, <3>1, <3>2, <3>3 DEF BookNext
  <2>2. \A x \in Books : UnfinishedOrderOn(x) => UnfinishedOrderOn(x)'
    BY <1>8 DEF UnfinishedOrderOn
  <2> QED
    BY <1>1, <2>1, <2>2
<1> QED
    BY <1>1, <1>3, <1>5, <1>6, <1>7, <1>8, OrdersStep

\* No book stays locked without an order that can still unlock it: each of
\* the five ways an order ends releases its book, and none of the shelf
\* requests locks one (setBookStatus; the routes of books.routes.js).
THEOREM NoOrphanedLock == Spec => []LockedHasActiveOrder
<1>1. Init => LockedHasActiveOrder
    BY DEF Init, BookInit, LockedHasActiveOrder
<1> QED
    BY <1>1, TypeCorrect, LockedStep, PTL DEF Spec
-----------------------------------------------------------------------------
(* Disputes *)

\* The countdown of a disputed order stands still.
DisputeStopsCountdown ==
    \A o \in InStatus({"disputed"}) : orders[o].countdown = "off"

LEMMA EdgesOutOfDispute ==
    ASSUME NEW to, CanTransition("disputed", to)
    PROVE  to \in {"arbitrated_refund", "arbitrated_release"}
BY DEF CanTransition, Transitions

\* Only the dispute handler itself leads to status disputed.
LEMMA HandlerTargets ==
    ASSUME NEW o,
           \/ Pay(o) \/ Ship(o) \/ ConfirmEffect(o) \/ Cancel(o)
           \/ RequestRefund(o) \/ RequestReturn(o)
           \/ AgreeRefund(o) \/ RejectRefund(o)
           \/ Dispute(o) \/ ArbitrateRelease(o) \/ ArbitrateRefund(o)
    PROVE  \E to, escrow, countdown :
              /\ Transition(o, to, escrow, countdown)
              /\ to = "disputed" => countdown = "off"
BY DEF Pay, Ship, ConfirmEffect, Cancel, RequestRefund, RequestReturn,
       AgreeRefund, RejectRefund, Dispute, ArbitrateRelease, ArbitrateRefund

LEMMA DisputeStep ==
    TypeOK /\ DisputeStopsCountdown /\ [Next]_vars =>
        DisputeStopsCountdown' /\ DisputedUnlessArbitrated
<1> SUFFICES ASSUME TypeOK, DisputeStopsCountdown, [Next]_vars
             PROVE  DisputeStopsCountdown' /\ DisputedUnlessArbitrated
    OBVIOUS
<1>1. ASSUME NEW o \in OrderIds, NEW u \in Users, NEW b \in Books,
             Create(o, u, b)
      PROVE  DisputeStopsCountdown' /\ DisputedUnlessArbitrated
  <2>1. /\ o \notin DOMAIN orders
        /\ DOMAIN orders' = DOMAIN orders \cup {o}
        /\ \A x \in DOMAIN orders : orders'[x] = orders[x]
        /\ orders'[o].countdown = "off"
    BY <1>1, CreateUpdates
  <2> QED
    BY <2>1 DEF DisputeStopsCountdown, DisputedUnlessArbitrated, InStatus
<1>2. ASSUME NEW o \in OrderIds, NEW to, NEW escrow, NEW countdown,
             Transition(o, to, escrow, countdown),
             to = "disputed" => countdown = "off"
      PROVE  DisputeStopsCountdown' /\ DisputedUnlessArbitrated
  <2>1. /\ OnlyOrder(o)
        /\ CanTransition(orders[o].status, to)
        /\ orders'[o].status = to
        /\ orders'[o].countdown = countdown
    BY <1>2, TransitionUpdates
  <2>2. DisputeStopsCountdown'
    BY <1>2, <2>1 DEF DisputeStopsCountdown, InStatus, OnlyOrder
  <2>3. DisputedUnlessArbitrated
    BY <2>1, EdgesOutOfDispute DEF DisputedUnlessArbitrated, InStatus, OnlyOrder
  <2> QED
    BY <2>2, <2>3
<1>3. ASSUME NEW o \in OrderIds, Elapse(o)
      PROVE  DisputeStopsCountdown' /\ DisputedUnlessArbitrated
  <2>1. /\ OnlyOrder(o)
        /\ orders'[o].status = orders[o].status
        /\ orders[o].status # "disputed"
    BY <1>3, ElapseUpdates DEF DisputeStopsCountdown, InStatus, OnlyOrder
  <2> QED
    BY <2>1 DEF DisputeStopsCountdown, DisputedUnlessArbitrated, InStatus,
                OnlyOrder
<1>4. CASE UNCHANGED orders
    BY <1>4 DEF DisputeStopsCountdown, DisputedUnlessArbitrated, InStatus
<1> QED
    BY <1>1, <1>2, <1>3, <1>4, OrdersStep, HandlerTargets

\* A dispute freezes the payout: until arbitration a disputed order does not
\* change at all, even when the auto-confirm job already holds it in its batch
\* (dispute, autoConfirmDue, confirm).
THEOREM DisputeIsFinalUntilArbitrated == Spec => DisputeFreezes
<1>1. Init => DisputeStopsCountdown
    BY DEF Init, DisputeStopsCountdown, InStatus
<1> QED
    BY <1>1, TypeCorrect, DisputeStep, PTL DEF Spec, DisputeFreezes
-----------------------------------------------------------------------------
(* Escrow status *)

LEMMA EscrowStep ==
    UiOnly /\ TypeOK /\ EscrowFollowsStatus /\ [Next]_vars =>
        EscrowFollowsStatus'
<1> SUFFICES ASSUME UiOnly, TypeOK, EscrowFollowsStatus, [Next]_vars
             PROVE  EscrowFollowsStatus'
    OBVIOUS
<1> USE DEF EscrowOf, UnpaidStatuses, ReleasedStatuses, RefundedStatuses
<1>1. ASSUME NEW o \in OrderIds, NEW u \in Users, NEW b \in Books,
             Create(o, u, b)
      PROVE  EscrowFollowsStatus'
  <2>1. /\ DOMAIN orders' = DOMAIN orders \cup {o}
        /\ \A x \in DOMAIN orders : orders'[x] = orders[x]
        /\ orders'[o].status = "pending_payment"
        /\ orders'[o].escrow = "none"
        /\ o \notin DOMAIN orders
    BY <1>1, CreateUpdates
  <2> QED
    BY <2>1 DEF EscrowFollowsStatus
<1>2. ASSUME NEW o, OnlyOrder(o),
             orders'[o].escrow = EscrowOf(orders'[o].status)
      PROVE  EscrowFollowsStatus'
    BY <1>2 DEF EscrowFollowsStatus, OnlyOrder
<1>3. ASSUME NEW o, NEW to, NEW escrow, NEW countdown,
             Transition(o, to, escrow, countdown), escrow = EscrowOf(to)
      PROVE  EscrowFollowsStatus'
    BY <1>2, <1>3, TransitionUpdates
<1>4. ASSUME NEW o \in OrderIds, NEW to, NEW countdown,
             Transition(o, to, orders[o].escrow, countdown),
             EscrowOf(orders[o].status) = EscrowOf(to)
      PROVE  EscrowFollowsStatus'
  <2>1. orders[o].escrow = EscrowOf(orders[o].status)
    BY <1>4 DEF EscrowFollowsStatus, Transition
  <2> QED
    BY <1>3, <1>4, <2>1
<1>5. ASSUME NEW o \in OrderIds,
             \/ Pay(o) \/ ConfirmEffect(o) \/ AgreeRefund(o)
             \/ ArbitrateRelease(o) \/ ArbitrateRefund(o)
      PROVE  EscrowFollowsStatus'
    BY <1>3, <1>5 DEF Pay, ConfirmEffect, AgreeRefund, ArbitrateRelease,
                      ArbitrateRefund
<1>6. ASSUME NEW o \in OrderIds,
             \/ Ship(o) \/ Cancel(o) \/ RequestRefund(o) \/ RequestReturn(o)
             \/ RejectRefund(o) \/ Dispute(o)
      PROVE  EscrowFollowsStatus'
  <2>1. PICK to, countdown :
          /\ Transition(o, to, orders[o].escrow, countdown)
          /\ \/ to \in {"shipped", "cancelled", "refund_requested",
                        "return_requested", "disputed"}
             \/ to = "paid" /\ orders[o].status \in {"refund_requested",
                                                     "return_requested"}
    BY <1>6 DEF Ship, Cancel, RequestRefund, RequestReturn, RejectRefund,
                Dispute
  <2>2. EscrowOf(orders[o].status) = EscrowOf(to)
    BY <2>1 DEF Transition, CanTransition, Transitions
  <2> QED
    BY <1>4, <2>1, <2>2
<1>7. ASSUME NEW o \in OrderIds, Elapse(o)
      PROVE  EscrowFollowsStatus'
    BY <1>2, <1>7, ElapseUpdates DEF EscrowFollowsStatus, OnlyOrder
<1>8. CASE UNCHANGED orders
    BY <1>8 DEF EscrowFollowsStatus
<1> QED
    BY <1>1, <1>5, <1>6, <1>7, <1>8, OrdersStep

\* As long as sellers reject only the refunds that buyers asked for, the two
\* status columns of every order agree: the money of an order is in escrow
\* exactly from its payment to its settlement (pay, confirm, agreeRefund,
\* arbitrate, rejectRefund).
THEOREM FundsFollowStatus == ASSUME UiOnly PROVE Spec => []EscrowFollowsStatus
<1>1. Init => EscrowFollowsStatus
    BY DEF Init, EscrowFollowsStatus
<1>2. TypeOK /\ EscrowFollowsStatus /\ [Next]_vars => EscrowFollowsStatus'
    BY EscrowStep
<1> QED
    BY <1>1, <1>2, TypeCorrect, PTL DEF Spec
-----------------------------------------------------------------------------
(* Settlement.  SettlementMatchesStatus becomes inductive once it also speaks about *)
(* the entry that only some releases make, the platform's fee.                      *)

SettleStages ==
    {"release:buyer-frozen", "release:seller", "release:fee",
     "refund:frozen", "refund:balance"}

OrderStages == SettleStages \cup {"pay:balance", "pay:frozen"}

FeeOnlyOnRelease ==
    \A o \in OrderIds :
        Posted(wallet, <<"release:fee", o>>) => o \in InStatus(ReleasedStatuses)

\* The two invariants, said of one order.
Story(o) ==
    /\ \A stage \in ReleaseStages(o) :
          Posted(wallet, <<stage, o>>) <=> o \in InStatus(ReleasedStatuses)
    /\ \A stage \in RefundStages :
          Posted(wallet, <<stage, o>>) <=> o \in InStatus(RefundedStatuses)
    /\ Posted(wallet, <<"release:fee", o>>) => o \in InStatus(ReleasedStatuses)

LEMMA StoryIsBoth ==
    (\A o \in OrderIds : Story(o)) <=> SettlementMatchesStatus /\ FeeOnlyOnRelease
BY DEF Story, SettlementMatchesStatus, FeeOnlyOnRelease

\* No entry about the settlement of order x appears.
SameSettlement(x) ==
    \A stage \in SettleStages :
        Posted(wallet', <<stage, x>>) <=> Posted(wallet, <<stage, x>>)

LEMMA TwoPost ==
    ASSUME NEW e1, NEW e2, NEW k
    PROVE  Posted(Try(Try(Start, e1), e2).wallet, k) <=>
             Posted(wallet, k) \/ k = e1.key \/ k = e2.key
<1>1. Posted(Try(Try(Start, e1), e2).wallet, k) <=>
        Posted(Try(Start, e1).wallet, k) \/ k = e2.key
    BY TryPosts
<1>2. Posted(Try(Start, e1).wallet, k) <=> Posted(Start.wallet, k) \/ k = e1.key
    BY TryPosts
<1>3. Start.wallet = wallet
    BY DEF Start
<1> QED
    BY <1>1, <1>2, <1>3

\* Which keys each stage of the escrow posts (hold, release, refund).
LEMMA HoldPosts ==
    ASSUME NEW o, NEW k
    PROVE  Posted(HoldOutcome(o).wallet, k) <=>
             \/ Posted(wallet, k)
             \/ k = <<"pay:balance", o>> \/ k = <<"pay:frozen", o>>
<1> DEFINE e1 == Entry("pay:balance", o, orders[o].buyer, "balance", "out",
                       orders[o].amount)
           e2 == Entry("pay:frozen", o, orders[o].buyer, "frozen", "in",
                       orders[o].amount)
<1>1. HoldOutcome(o) = Try(Try(Start, e1), e2)
    BY DEF HoldOutcome
<1>2. e1.key = <<"pay:balance", o>> /\ e2.key = <<"pay:frozen", o>>
    BY DEF Entry
<1> HIDE DEF e1, e2
<1> QED
    BY <1>1, <1>2, TwoPost

LEMMA ReleasePosts ==
    ASSUME NEW o, NEW k
    PROVE  Posted(ReleaseOutcome(o).wallet, k) <=>
             \/ Posted(wallet, k)
             \/ k = <<"release:buyer-frozen", o>> \/ k = <<"release:seller", o>>
             \/ orders[o].fee > 0 /\ k = <<"release:fee", o>>
<1> DEFINE e1 == Entry("release:buyer-frozen", o, orders[o].buyer, "frozen",
                       "out", orders[o].amount)
           e2 == Entry("release:seller", o, orders[o].seller, "balance", "in",
                       Income(o))
           e3 == Entry("release:fee", o, Platform, "balance", "in",
                       orders[o].fee)
           paid == Try(Try(Start, e1), e2)
<1>1. ReleaseOutcome(o) = IF orders[o].fee > 0 THEN Try(paid, e3) ELSE paid
    BY DEF ReleaseOutcome
<1>2. /\ e1.key = <<"release:buyer-frozen", o>>
      /\ e2.key = <<"release:seller", o>>
      /\ e3.key = <<"release:fee", o>>
    BY DEF Entry
<1> HIDE DEF e1, e2, e3
<1>3. Posted(paid.wallet, k) <=> Posted(wallet, k) \/ k = e1.key \/ k = e2.key
    BY TwoPost
<1> HIDE DEF paid
<1>4. Posted(Try(paid, e3).wallet, k) <=> Posted(paid.wallet, k) \/ k = e3.key
    BY TryPosts
<1> QED
    BY <1>1, <1>2, <1>3, <1>4

LEMMA RefundPosts ==
    ASSUME NEW o, NEW k
    PROVE  Posted(RefundOutcome(o).wallet, k) <=>
             \/ Posted(wallet, k)
             \/ k = <<"refund:frozen", o>> \/ k = <<"refund:balance", o>>
<1> DEFINE e1 == Entry("refund:frozen", o, orders[o].buyer, "frozen", "out",
                       orders[o].amount)
           e2 == Entry("refund:balance", o, orders[o].buyer, "balance", "in",
                       orders[o].amount)
<1>1. RefundOutcome(o) = Try(Try(Start, e1), e2)
    BY DEF RefundOutcome
<1>2. e1.key = <<"refund:frozen", o>> /\ e2.key = <<"refund:balance", o>>
    BY DEF Entry
<1> HIDE DEF e1, e2
<1> QED
    BY <1>1, <1>2, TwoPost

\* Recharges and withdrawals post no entry about an order.
LEMMA WalletStepPosts ==
    ASSUME WalletNext, NEW stage \in OrderStages, NEW x
    PROVE  Posted(wallet', <<stage, x>>) <=> Posted(wallet, <<stage, x>>)
<1>1. \A s, ref, user, account, direction, amount :
         Entry(s, ref, user, account, direction, amount).key = <<s, ref>>
    BY DEF Entry
<1>2. ASSUME NEW e1, NEW k, Commit(Try(Start, e1))
      PROVE  Posted(wallet', k) => Posted(wallet, k) \/ k = e1.key
    BY <1>2, TryPosts DEF Commit, Start
<1>3. ASSUME NEW e1, NEW e2, NEW k, Commit(Try(Try(Start, e1), e2))
      PROVE  Posted(wallet', k) => Posted(wallet, k) \/ k = e1.key \/ k = e2.key
    BY <1>3, TwoPost DEF Commit
<1>4. ASSUME NEW k PROVE Posted(wallet, k) => Posted(wallet', k)
  <2>1. ASSUME NEW e1, Commit(Try(Start, e1))
        PROVE  Posted(wallet, k) => Posted(wallet', k)
    BY <2>1, TryPosts DEF Commit, Start
  <2>2. ASSUME NEW e1, NEW e2, Commit(Try(Try(Start, e1), e2))
        PROVE  Posted(wallet, k) => Posted(wallet', k)
    BY <2>2, TwoPost DEF Commit
  <2> QED
    BY <2>1, <2>2 DEF WalletNext, Recharge, Withdraw, SettleWithdraw
<1>5. Posted(wallet', <<stage, x>>) => Posted(wallet, <<stage, x>>)
  <2>1. ASSUME NEW u \in Users, NEW t \in TopUps, NEW a \in RechargeAmounts,
               Recharge(u, t, a), Posted(wallet', <<stage, x>>)
        PROVE  Posted(wallet, <<stage, x>>)
    <3>1. stage # "recharge"
      BY DEF OrderStages, SettleStages
    <3> QED
      BY <1>1, <1>2, <2>1, <3>1 DEF Recharge
  <2>2. ASSUME NEW u \in Users, NEW w \in WithdrawIds,
               NEW a \in WithdrawAmounts,
               Withdraw(u, w, a), Posted(wallet', <<stage, x>>)
        PROVE  Posted(wallet, <<stage, x>>)
    <3>1. stage # "withdraw:freeze" /\ stage # "withdraw:frozen"
      BY DEF OrderStages, SettleStages
    <3> QED
      BY <1>1, <1>3, <2>2, <3>1 DEF Withdraw
  <2>3. ASSUME NEW w \in WithdrawIds, SettleWithdraw(w),
               Posted(wallet', <<stage, x>>)
        PROVE  Posted(wallet, <<stage, x>>)
    <3>1. stage # "withdraw:paid"
      BY DEF OrderStages, SettleStages
    <3> QED
      BY <1>1, <1>2, <2>3, <3>1 DEF SettleWithdraw
  <2> QED
    BY <2>1, <2>2, <2>3 DEF WalletNext
<1> QED
    BY <1>4, <1>5

\* The story of an order is kept by a step that does not settle it.
LEMMA StoryKept ==
    ASSUME NEW x, Story(x), SameSettlement(x),
           x \in InStatus(ReleasedStatuses)' <=> x \in InStatus(ReleasedStatuses),
           x \in InStatus(RefundedStatuses)' <=> x \in InStatus(RefundedStatuses),
           ReleaseStages(x)' \subseteq ReleaseStages(x) \/
              x \notin InStatus(ReleasedStatuses)
    PROVE  Story(x)'
<1>1. /\ ReleaseStages(x) \subseteq SettleStages
      /\ ReleaseStages(x)' \subseteq SettleStages
      /\ RefundStages \subseteq SettleStages
      /\ ReleaseStages(x)' \subseteq ReleaseStages(x) \cup {"release:fee"}
      /\ "release:fee" \in SettleStages
    BY DEF ReleaseStages, RefundStages, SettleStages
<1> QED
    BY <1>1 DEF Story, SameSettlement

\* Nothing is posted about an order that has not ended.
LEMMA UnsettledStory ==
    ASSUME NEW x, Story(x), x \notin InStatus(ReleasedStatuses),
           x \notin InStatus(RefundedStatuses), NEW stage \in SettleStages
    PROVE  ~Posted(wallet, <<stage, x>>)
BY DEF Story, ReleaseStages, RefundStages, SettleStages

\* The statuses an order handler starts from and leads to.
LEMMA HandlerStatuses ==
    ASSUME TypeOK, NEW o, NEW to \in Statuses, NEW escrow, NEW countdown,
           Transition(o, to, escrow, countdown)
    PROVE  /\ OnlyOrder(o)
           /\ o \notin InStatus(ReleasedStatuses)
           /\ o \notin InStatus(RefundedStatuses)
           /\ o \in InStatus(ReleasedStatuses)' <=> to \in ReleasedStatuses
           /\ o \in InStatus(RefundedStatuses)' <=> to \in RefundedStatuses
           /\ \A x : x # o =>
                /\ x \in InStatus(ReleasedStatuses)' <=> x \in InStatus(ReleasedStatuses)
                /\ x \in InStatus(RefundedStatuses)' <=> x \in InStatus(RefundedStatuses)
           /\ \A x : ReleaseStages(x)' = ReleaseStages(x)
<1>1. /\ OnlyOrder(o)
      /\ CanTransition(orders[o].status, to)
      /\ orders'[o].status = to
    BY TransitionUpdates
<1>2. orders[o].status \notin ReleasedStatuses \cup RefundedStatuses
    BY <1>1, EdgesStartActive
    DEF ReleasedStatuses, RefundedStatuses, TerminalStatuses
<1>3. \A x : ReleaseStages(x)' = ReleaseStages(x)
    BY <1>1 DEF OnlyOrder, SameDeal, ReleaseStages
<1> QED
    BY <1>1, <1>2, <1>3 DEF OnlyOrder, InStatus

LEMMA StoryStep ==
    TypeOK /\ (\A o \in OrderIds : Story(o)) /\ [Next]_vars =>
        (\A o \in OrderIds : Story(o))'
<1> SUFFICES ASSUME TypeOK, \A o \in OrderIds : Story(o), [Next]_vars
             PROVE  \A x \in OrderIds : Story(x)'
    OBVIOUS
<1>1. ASSUME NEW o \in OrderIds, NEW u \in Users, NEW b \in Books,
             Create(o, u, b)
      PROVE  \A x \in OrderIds : Story(x)'
  <2>1. /\ o \notin DOMAIN orders
        /\ DOMAIN orders' = DOMAIN orders \cup {o}
        /\ \A x \in DOMAIN orders : orders'[x] = orders[x]
        /\ orders'[o].status = "pending_payment"
    BY <1>1, CreateUpdates
  <2>2. ASSUME NEW x \in OrderIds
        PROVE  /\ x \in InStatus(ReleasedStatuses)' <=> x \in InStatus(ReleasedStatuses)
               /\ x \in InStatus(RefundedStatuses)' <=> x \in InStatus(RefundedStatuses)
               /\ \/ ReleaseStages(x)' = ReleaseStages(x)
                  \/ x \notin InStatus(ReleasedStatuses)
    BY <2>1 DEF InStatus, ReleasedStatuses, RefundedStatuses, ReleaseStages
  <2>3. UNCHANGED wallet
    BY <1>1 DEF Create, walletVars
  <2> QED
    BY <2>2, <2>3, StoryKept DEF SameSettlement
<1>2. ASSUME NEW o \in OrderIds, NEW to \in Statuses, NEW escrow,
             NEW countdown, Transition(o, to, escrow, countdown),
             to \notin ReleasedStatuses \cup RefundedStatuses,
             \A x \in OrderIds : SameSettlement(x)
      PROVE  \A x \in OrderIds : Story(x)'
    BY <1>2, HandlerStatuses, StoryKept
<1>3. ASSUME NEW o \in OrderIds, Pay(o)
      PROVE  \A x \in OrderIds : Story(x)'
  <2>1. Transition(o, "paid", "held", orders[o].countdown)
    BY <1>3 DEF Pay
  <2>2. ASSUME NEW x \in OrderIds PROVE SameSettlement(x)
    <3>1. wallet' = HoldOutcome(o).wallet
      BY <1>3 DEF Pay, Commit
    <3> QED
      BY <3>1, HoldPosts DEF SameSettlement, SettleStages
  <2>3. "paid" \in Statuses /\ "paid" \notin ReleasedStatuses \cup RefundedStatuses
    BY StatusSets DEF ReleasedStatuses, RefundedStatuses
  <2> QED
    BY <1>2, <2>1, <2>2, <2>3
<1>4. ASSUME NEW o \in OrderIds,
             \/ Ship(o) \/ Cancel(o) \/ RequestRefund(o) \/ RequestReturn(o)
             \/ RejectRefund(o) \/ Dispute(o)
      PROVE  \A x \in OrderIds : Story(x)'
  <2>1. PICK to, escrow, countdown :
          /\ Transition(o, to, escrow, countdown)
          /\ to \in {"paid", "shipped", "cancelled", "refund_requested",
                     "return_requested", "disputed"}
    BY <1>4 DEF Ship, Cancel, RequestRefund, RequestReturn, RejectRefund,
                Dispute
  <2>2. UNCHANGED wallet
    BY <1>4 DEF Ship, Cancel, RequestRefund, RequestReturn, RejectRefund,
                Dispute, walletVars
  <2>3. to \in Statuses /\ to \notin ReleasedStatuses \cup RefundedStatuses
    BY <2>1, StatusSets DEF ReleasedStatuses, RefundedStatuses
  <2> QED
    BY <1>2, <2>1, <2>2, <2>3 DEF SameSettlement
<1>5. ASSUME NEW o \in OrderIds, ConfirmEffect(o) \/ ArbitrateRelease(o)
      PROVE  \A x \in OrderIds : Story(x)'
  <2>1. PICK to \in {"completed", "arbitrated_release"} :
          /\ Transition(o, to, "released", "off")
          /\ wallet' = ReleaseOutcome(o).wallet
    BY <1>5 DEF ConfirmEffect, ArbitrateRelease, Commit
  <2>2. /\ to \in Statuses /\ to \in ReleasedStatuses
        /\ to \notin RefundedStatuses
    BY <2>1, StatusSets DEF ReleasedStatuses, RefundedStatuses
  <2>3. ASSUME NEW x \in OrderIds, x # o PROVE Story(x)'
    <3>1. SameSettlement(x)
      BY <2>1, <2>3, ReleasePosts DEF SameSettlement
    <3> QED
      BY <2>1, <2>2, <2>3, <3>1, HandlerStatuses, StoryKept
  <2>4. Story(o)'
    <3>1. \A stage \in SettleStages : ~Posted(wallet, <<stage, o>>)
      BY <2>1, <2>2, HandlerStatuses, UnsettledStory
    <3>2. /\ o \in InStatus(ReleasedStatuses)'
          /\ o \notin InStatus(RefundedStatuses)'
          /\ ReleaseStages(o)' = ReleaseStages(o)
          /\ o \in DOMAIN orders
      BY <2>1, <2>2, HandlerStatuses DEF OnlyOrder
    <3>3. \A stage \in ReleaseStages(o) : Posted(wallet', <<stage, o>>)
      BY <2>1, <3>2, ReleasePosts DEF ReleaseStages
    <3>4. \A stage \in RefundStages : ~Posted(wallet', <<stage, o>>)
      BY <2>1, <3>1, ReleasePosts DEF RefundStages, SettleStages
    <3> QED
      BY <3>2, <3>3, <3>4 DEF Story
  <2> QED
    BY <2>3, <2>4
<1>6. ASSUME NEW o \in OrderIds, AgreeRefund(o) \/ ArbitrateRefund(o)
      PROVE  \A x \in OrderIds : Story(x)'
  <2>1. PICK to \in {"refunded", "arbitrated_refund"},
             countdown \in {orders[o].countdown, "off"} :
          /\ Transition(o, to, "refunded", countdown)
          /\ wallet' = RefundOutcome(o).wallet
    BY <1>6 DEF AgreeRefund, ArbitrateRefund, Commit
  <2>2. /\ to \in Statuses /\ to \in RefundedStatuses
        /\ to \notin ReleasedStatuses
    BY <2>1, StatusSets DEF ReleasedStatuses, RefundedStatuses
  <2>3. ASSUME NEW x \in OrderIds, x # o PROVE Story(x)'
    <3>1. SameSettlement(x)
      BY <2>1, <2>3, RefundPosts DEF SameSettlement
    <3> QED
      BY <2>1, <2>2, <2>3, <3>1, HandlerStatuses, StoryKept
  <2>4. Story(o)'
    <3>1. \A stage \in SettleStages : ~Posted(wallet, <<stage, o>>)
      BY <2>1, <2>2, HandlerStatuses, UnsettledStory
    <3>2. /\ o \in InStatus(RefundedStatuses)'
          /\ o \notin InStatus(ReleasedStatuses)'
          /\ ReleaseStages(o)' = ReleaseStages(o)
      BY <2>1, <2>2, HandlerStatuses
    <3>3. \A stage \in RefundStages : Posted(wallet', <<stage, o>>)
      BY <2>1, RefundPosts DEF RefundStages
    <3>4. \A stage \in ReleaseStages(o) \cup {"release:fee"} :
             ~Posted(wallet', <<stage, o>>)
      BY <2>1, <3>1, RefundPosts DEF ReleaseStages, SettleStages
    <3> QED
      BY <3>2, <3>3, <3>4 DEF Story
  <2> QED
    BY <2>3, <2>4
<1>7. ASSUME NEW o \in OrderIds, Elapse(o)
      PROVE  \A x \in OrderIds : Story(x)'
  <2>1. OnlyOrder(o) /\ orders'[o].status = orders[o].status
    BY <1>7, ElapseUpdates
  <2>2. ASSUME NEW x \in OrderIds
        PROVE  /\ x \in InStatus(ReleasedStatuses)' <=> x \in InStatus(ReleasedStatuses)
               /\ x \in InStatus(RefundedStatuses)' <=> x \in InStatus(RefundedStatuses)
               /\ ReleaseStages(x)' = ReleaseStages(x)
    BY <2>1 DEF InStatus, OnlyOrder, SameDeal, ReleaseStages
  <2>3. UNCHANGED wallet
    BY <1>7 DEF Elapse, walletVars
  <2> QED
    BY <2>2, <2>3, StoryKept DEF SameSettlement
<1>8. CASE UNCHANGED orders /\ (WalletNext \/ UNCHANGED walletVars)
  <2>1. ASSUME NEW x \in OrderIds PROVE SameSettlement(x)
    BY <1>8, WalletStepPosts DEF SameSettlement, OrderStages, walletVars
  <2>2. ASSUME NEW x \in OrderIds
        PROVE  /\ x \in InStatus(ReleasedStatuses)' <=> x \in InStatus(ReleasedStatuses)
               /\ x \in InStatus(RefundedStatuses)' <=> x \in InStatus(RefundedStatuses)
               /\ ReleaseStages(x)' = ReleaseStages(x)
    BY <1>8 DEF InStatus, ReleaseStages
  <2> QED
    BY <2>1, <2>2, StoryKept
<1> QED
    BY <1>1, <1>3, <1>4, <1>5, <1>6, <1>7, <1>8, OrdersStep

\* Ledger and statuses tell the same story of every order: it is released
\* exactly when it ended for the seller, refunded exactly when it ended for
\* the buyer, and so neither twice nor both ways, whatever buyers, sellers,
\* arbitrators and runs of the auto-confirm job do at the same time (confirm,
\* agreeRefund, arbitrate, autoConfirmDue).
THEOREM SettledOnce == Spec => []SettlementMatchesStatus
<1>1. Init => \A o \in OrderIds : Story(o)
    BY DEF Init, WalletInit, Story, Posted, InStatus
<1>2. (\A o \in OrderIds : Story(o)) => SettlementMatchesStatus
    BY StoryIsBoth
<1> QED
    BY <1>1, <1>2, StoryStep, TypeCorrect, PTL DEF Spec
-----------------------------------------------------------------------------
(* One record *)

\* A wallet in the middle of a chain of records: amounts may be below zero there,
\* and what is refused may ask for any amount.
Sound(w) ==
    /\ w.money \in [Holders -> [Accounts -> Int]]
    /\ w.ledger \subseteq Requests
    /\ IsFiniteSet(w.ledger)

\* What a record adds to an account: nothing if its key is taken.
Added(w, e, h, a) ==
    IF h = e.user /\ a = e.account /\ ~Posted(w, e.key) THEN Signed(e) ELSE 0

LEMMA RecordKeys ==
    ASSUME NEW w, NEW e, NEW k
    PROVE  Posted(Record(w, e), k) <=> Posted(w, k) \/ k = e.key
BY DEF Record, Posted

LEMMA RecordMoney ==
    ASSUME NEW w, Sound(w), NEW e \in Requests
    PROVE  /\ Sound(Record(w, e))
           /\ \A h \in Holders, a \in Accounts :
                Record(w, e).money[h][a] = w.money[h][a] + Added(w, e, h, a)
<1>1. /\ w.money \in [Holders -> [Accounts -> Int]] /\ w.ledger \subseteq Requests
      /\ IsFiniteSet(w.ledger)
      /\ e.user \in Holders /\ e.account \in Accounts /\ Signed(e) \in Int
    BY DEF Sound, Requests, Signed
<1>2. CASE Posted(w, e.key)
  <2>1. Record(w, e) = w
    BY <1>2 DEF Record
  <2> QED BY <1>1, <1>2, <2>1 DEF Added
<1>3. CASE ~Posted(w, e.key)
  <2> DEFINE m == w.money
             row == [m[e.user] EXCEPT ![e.account] = @ + Signed(e)]
  <2>1. /\ Record(w, e).money = [m EXCEPT ![e.user] = row]
        /\ Record(w, e).ledger = w.ledger \cup {e}
    BY <1>1, <1>3 DEF Record
  <2>2. row \in [Accounts -> Int]
    BY <1>1
  <2>3. Record(w, e).money \in [Holders -> [Accounts -> Int]]
    BY <1>1, <2>1, <2>2
  <2>4. Sound(Record(w, e))
    <3>1. IsFiniteSet(w.ledger \cup {e})
      BY <1>1, FS_AddElement
    <3> QED BY <1>1, <2>1, <2>3, <3>1 DEF Sound
  <2>5. ASSUME NEW h \in Holders, NEW a \in Accounts
        PROVE  Record(w, e).money[h][a] = m[h][a] + Added(w, e, h, a)
    <3>1. m[h][a] \in Int
      BY <1>1
    <3>2. CASE h = e.user
      BY <1>1, <1>3, <2>1, <3>1, <3>2 DEF Added
    <3>3. CASE h # e.user
      BY <1>1, <1>3, <2>1, <3>1, <3>3 DEF Added
    <3> QED BY <3>2, <3>3
  <2> QED BY <2>4, <2>5
<1> QED BY <1>2, <1>3

\* Several records in a row, under different keys.
LEMMA TwoRecordMoney ==
    ASSUME NEW w, Sound(w), NEW e1 \in Requests, NEW e2 \in Requests, e1.key # e2.key
    PROVE  /\ Sound(Record(Record(w, e1), e2))
           /\ \A h \in Holders, a \in Accounts :
                Record(Record(w, e1), e2).money[h][a] =
                  w.money[h][a] + Added(w, e1, h, a) + Added(w, e2, h, a)
<1> DEFINE v == Record(w, e1)
<1>1. /\ Sound(v)
      /\ \A h \in Holders, a \in Accounts : v.money[h][a] = w.money[h][a] + Added(w, e1, h, a)
      /\ Posted(v, e2.key) <=> Posted(w, e2.key)
    BY RecordMoney, RecordKeys
<1> HIDE DEF v
<1>2. /\ Sound(Record(v, e2))
      /\ \A h \in Holders, a \in Accounts :
            Record(v, e2).money[h][a] = v.money[h][a] + Added(v, e2, h, a)
    BY <1>1, RecordMoney
<1>3. \A h, a : Added(v, e2, h, a) = Added(w, e2, h, a)
    BY <1>1 DEF Added
<1> QED BY <1>1, <1>2, <1>3 DEF v

LEMMA ThreeRecordMoney ==
    ASSUME NEW w, Sound(w), NEW e1 \in Requests, NEW e2 \in Requests, NEW e3 \in Requests,
           e1.key # e2.key, e1.key # e3.key, e2.key # e3.key
    PROVE  \A h \in Holders, a \in Accounts :
             Record(Record(Record(w, e1), e2), e3).money[h][a] =
               w.money[h][a] + Added(w, e1, h, a) + Added(w, e2, h, a) + Added(w, e3, h, a)
<1> DEFINE v == Record(Record(w, e1), e2)
<1>1. /\ Sound(v)
      /\ \A h \in Holders, a \in Accounts :
            v.money[h][a] = w.money[h][a] + Added(w, e1, h, a) + Added(w, e2, h, a)
    BY TwoRecordMoney
<1>2. Posted(v, e3.key) <=> Posted(w, e3.key)
    BY RecordKeys
<1> HIDE DEF v
<1>3. \A h \in Holders, a \in Accounts :
         Record(v, e3).money[h][a] = v.money[h][a] + Added(v, e3, h, a)
    BY <1>1, RecordMoney
<1>4. \A h, a : Added(v, e3, h, a) = Added(w, e3, h, a)
    BY <1>2 DEF Added
<1> QED BY <1>1, <1>3, <1>4 DEF v

\* The cache and the ledger move together (record, both updates in one call).
Cached(w) == \A h \in Holders, a \in Accounts : w.money[h][a] = LedgerSum(w, h, a)

LEMMA RecordCaches ==
    ASSUME NEW w, Sound(w), Cached(w), NEW e \in Requests
    PROVE  Cached(Record(w, e))
<1> SUFFICES ASSUME NEW h \in Holders, NEW a \in Accounts
             PROVE  Record(w, e).money[h][a] = LedgerSum(Record(w, e), h, a)
    BY DEF Cached
<1>1. /\ w.ledger \subseteq Requests /\ IsFiniteSet(w.ledger)
      /\ w.money[h][a] = LedgerSum(w, h, a)
      /\ \A x \in Requests : Signed(x) \in Int
    BY DEF Sound, Cached, Requests, Signed
<1>2. Record(w, e).money[h][a] = w.money[h][a] + Added(w, e, h, a)
    BY RecordMoney
<1> DEFINE S == {x \in w.ledger : x.user = h /\ x.account = a}
           T == {x \in Record(w, e).ledger : x.user = h /\ x.account = a}
           f == [x \in S |-> Signed(x)]
           g == [x \in T |-> Signed(x)]
<1>3. LedgerSum(w, h, a) = SumFunction(f) /\ LedgerSum(Record(w, e), h, a) = SumFunction(g)
    BY DEF LedgerSum
<1>4. IsFiniteSet(S) /\ \A x \in S : f[x] \in Int
    BY <1>1, FS_Subset
<1>5. SumFunction(f) \in Int
    BY <1>4, SumType
<1>6. CASE h = e.user /\ a = e.account /\ ~Posted(w, e.key)
  <2>1. T = S \cup {e} /\ e \notin S
    BY <1>6 DEF Record, Posted
  <2>2. SumFunction(g) = SumFunction(f) + g[e]
    <3>1. /\ DOMAIN f = S /\ DOMAIN g = S \cup {e} /\ g[e] = Signed(e) /\ Signed(e) \in Int
          /\ \A x \in S : g[x] = f[x]
      BY <1>1, <2>1
    <3> HIDE DEF f, g, S, T
    <3> QED BY <1>4, <2>1, <3>1, SumGrows
  <2>3. g[e] = Added(w, e, h, a)
    BY <1>6, <2>1 DEF Added
  <2> QED BY <1>1, <1>2, <1>3, <2>2, <2>3
<1>7. CASE ~(h = e.user /\ a = e.account /\ ~Posted(w, e.key))
  <2>1. T = S
    BY <1>7 DEF Record
  <2>2. g = f
    BY <2>1
  <2> QED BY <1>1, <1>2, <1>3, <1>5, <1>7, <2>2 DEF Added
<1> QED BY <1>6, <1>7

LEMMA AllPlacesFinite == IsFiniteSet(Holders \X Accounts)
<1>1. IsFiniteSet(Holders)
    BY UsersAssumption, FS_AddElement DEF Holders
<1>2. IsFiniteSet({"balance"} \cup {"frozen"})
    BY FS_Singleton, FS_AddElement
<1>3. Accounts = {"balance"} \cup {"frozen"}
    BY DEF Accounts
<1> QED BY <1>1, <1>2, <1>3, FS_Product

LEMMA AllMoneyType == ASSUME NEW w, Sound(w) PROVE AllMoney(w) \in Int
<1> DEFINE f == [x \in Holders \X Accounts |-> w.money[x[1]][x[2]]]
<1>1. DOMAIN f = Holders \X Accounts /\ \A x \in DOMAIN f : f[x] \in Int
    BY DEF Sound
<1>2. SumFunction(f) \in Int
  <2> HIDE DEF f
  <2> QED BY <1>1, AllPlacesFinite, SumType
<1> QED BY <1>2 DEF AllMoney

LEMMA AmountType ==
    ASSUME NEW w, Sound(w), NEW stage
    PROVE  AmountPosted(w, stage) \in Int
<1> DEFINE S == {x \in w.ledger : x.key[1] = stage}
           f == [x \in S |-> x.amount]
<1>1. IsFiniteSet(S) /\ DOMAIN f = S /\ \A x \in S : f[x] \in Int
  <2>1. /\ w.ledger \subseteq Requests /\ IsFiniteSet(w.ledger)
        /\ \A x \in Requests : x.amount \in Int
    BY DEF Sound, Requests
  <2> QED BY <2>1, FS_Subset
<1>2. SumFunction(f) \in Int
  <2> HIDE DEF S, f
  <2> QED BY <1>1, SumType
<1> QED BY <1>2 DEF AmountPosted

\* What an unposted record adds to all the money there is.
LEMMA RecordAllMoney ==
    ASSUME NEW w, Sound(w), NEW e \in Requests
    PROVE  AllMoney(Record(w, e)) =
             AllMoney(w) + (IF Posted(w, e.key) THEN 0 ELSE Signed(e))
<1> DEFINE S == Holders \X Accounts
           f == [x \in S |-> w.money[x[1]][x[2]]]
           v == Record(w, e)
           g == [x \in S |-> v.money[x[1]][x[2]]]
           p == <<e.user, e.account>>
<1>1. IsFiniteSet(S)
    BY AllPlacesFinite
<1>2. /\ Sound(v)
      /\ \A h \in Holders, a \in Accounts :
           v.money[h][a] = w.money[h][a] + Added(w, e, h, a)
    BY RecordMoney
<1>3. e.user \in Holders /\ e.account \in Accounts /\ p \in S /\ Signed(e) \in Int
    BY DEF Requests, Signed
<1>4. /\ DOMAIN f = S /\ DOMAIN g = S
      /\ \A x \in S : f[x] \in Int /\ g[x] \in Int
    BY <1>2 DEF Sound
<1>5. g[p] - f[p] = IF Posted(w, e.key) THEN 0 ELSE Signed(e)
    BY <1>2, <1>3 DEF Added, Sound
<1>6. \A x \in S \ {p} : g[x] = f[x]
    BY <1>2 DEF Added, Sound
<1>7. AllMoney(w) = SumFunction(f) /\ AllMoney(v) = SumFunction(g)
    BY DEF AllMoney
<1>8. SumFunction(f) \in Int
  <2> HIDE DEF S, f
  <2> QED BY <1>1, <1>4, SumType
<1>9. SumFunction(g) = SumFunction(f) + (g[p] - f[p])
  <2> HIDE DEF S, f, g, p
  <2> QED BY <1>1, <1>3, <1>4, <1>6, SumMoves
<1> QED BY <1>5, <1>7, <1>8, <1>9

LEMMA RecordPosts ==
    ASSUME NEW w, Sound(w), NEW e \in Requests, NEW stage
    PROVE  AmountPosted(Record(w, e), stage) =
             AmountPosted(w, stage) +
               (IF e.key[1] = stage /\ ~Posted(w, e.key) THEN e.amount ELSE 0)
<1> DEFINE S == {x \in w.ledger : x.key[1] = stage}
           T == {x \in Record(w, e).ledger : x.key[1] = stage}
           f == [x \in S |-> x.amount]
           g == [x \in T |-> x.amount]
<1>1. /\ IsFiniteSet(S) /\ e.amount \in Int
      /\ DOMAIN f = S /\ \A x \in S : f[x] \in Int
  <2>1. /\ w.ledger \subseteq Requests /\ IsFiniteSet(w.ledger)
        /\ \A x \in Requests : x.amount \in Int
    BY DEF Sound, Requests
  <2> QED BY <2>1, FS_Subset
<1>2. /\ AmountPosted(w, stage) = SumFunction(f)
      /\ AmountPosted(Record(w, e), stage) = SumFunction(g)
    BY DEF AmountPosted
<1>3. SumFunction(f) \in Int
  <2> HIDE DEF S, f
  <2> QED BY <1>1, SumType
<1>4. CASE e.key[1] = stage /\ ~Posted(w, e.key)
  <2>1. T = S \cup {e} /\ e \notin S
    BY <1>4 DEF Record, Posted
  <2>2. /\ DOMAIN g = S \cup {e} /\ g[e] = e.amount
        /\ \A x \in S : g[x] = f[x]
    BY <2>1
  <2>3. SumFunction(g) = SumFunction(f) + g[e]
    <3> HIDE DEF f, g, S, T
    <3> QED BY <1>1, <2>1, <2>2, SumGrows
  <2> QED BY <1>2, <1>3, <1>4, <2>2, <2>3
<1>5. CASE ~(e.key[1] = stage /\ ~Posted(w, e.key))
  <2>1. T = S
    BY <1>5 DEF Record
  <2>2. g = f
    BY <2>1
  <2> QED BY <1>2, <1>3, <1>5, <2>2
<1> QED BY <1>4, <1>5

\* The money that neither came in by a recharge nor will go out with a withdrawal.
Surplus(w) ==
    AllMoney(w) - AmountPosted(w, "recharge") + AmountPosted(w, "withdraw:paid")

LEMMA RecordSurplus ==
    ASSUME NEW w, Sound(w), NEW e \in Requests,
           e.key[1] = "recharge" => e.direction = "in",
           e.key[1] = "withdraw:paid" => e.direction = "out"
    PROVE  /\ Surplus(w) \in Int
           /\ Surplus(Record(w, e)) =
                Surplus(w) + (IF Posted(w, e.key) \/ e.key[1] \in {"recharge", "withdraw:paid"}
                              THEN 0 ELSE Signed(e))
<1> DEFINE v == Record(w, e)
<1>1. e.amount \in Int /\ Signed(e) = (IF e.direction = "in" THEN e.amount ELSE -e.amount)
    BY DEF Requests, Signed
<1>2. /\ AllMoney(w) \in Int
      /\ AllMoney(v) = AllMoney(w) + (IF Posted(w, e.key) THEN 0 ELSE Signed(e))
    BY RecordAllMoney, AllMoneyType
<1>3. /\ AmountPosted(w, "recharge") \in Int
      /\ AmountPosted(v, "recharge") = AmountPosted(w, "recharge") +
           (IF e.key[1] = "recharge" /\ ~Posted(w, e.key) THEN e.amount ELSE 0)
    BY RecordPosts, AmountType
<1>4. /\ AmountPosted(w, "withdraw:paid") \in Int
      /\ AmountPosted(v, "withdraw:paid") = AmountPosted(w, "withdraw:paid") +
           (IF e.key[1] = "withdraw:paid" /\ ~Posted(w, e.key) THEN e.amount ELSE 0)
    BY RecordPosts, AmountType
<1> HIDE DEF v
<1>5. /\ Surplus(w) = AllMoney(w) - AmountPosted(w, "recharge") + AmountPosted(w, "withdraw:paid")
      /\ Surplus(v) = AllMoney(v) - AmountPosted(v, "recharge") + AmountPosted(v, "withdraw:paid")
    BY DEF Surplus
<1>6. Surplus(v) = Surplus(w) + (IF Posted(w, e.key) \/ e.key[1] \in {"recharge", "withdraw:paid"}
                              THEN 0 ELSE Signed(e))
  <2>1. CASE Posted(w, e.key)
    BY <1>2, <1>3, <1>4, <1>5, <2>1
  <2>2. CASE ~Posted(w, e.key) /\ e.key[1] = "recharge"
    BY <1>1, <1>2, <1>3, <1>4, <1>5, <2>2
  <2>3. CASE ~Posted(w, e.key) /\ e.key[1] = "withdraw:paid"
    BY <1>1, <1>2, <1>3, <1>4, <1>5, <2>3
  <2>4. CASE ~Posted(w, e.key) /\ e.key[1] \notin {"recharge", "withdraw:paid"}
    BY <1>1, <1>2, <1>3, <1>4, <1>5, <2>4
  <2> QED BY <2>1, <2>2, <2>3, <2>4
<1> QED BY <1>2, <1>3, <1>4, <1>5, <1>6 DEF v
-----------------------------------------------------------------------------
(* The chains of records *)

PayOut(o)     == Entry("pay:balance", o, orders[o].buyer, "balance", "out", orders[o].amount)
PayIn(o)      == Entry("pay:frozen", o, orders[o].buyer, "frozen", "in", orders[o].amount)
ReleaseOut(o) == Entry("release:buyer-frozen", o, orders[o].buyer, "frozen", "out",
                       orders[o].amount)
ReleaseIn(o)  == Entry("release:seller", o, orders[o].seller, "balance", "in", Income(o))
ReleaseFee(o) == Entry("release:fee", o, Platform, "balance", "in", orders[o].fee)
RefundOut(o)  == Entry("refund:frozen", o, orders[o].buyer, "frozen", "out",
                       orders[o].amount)
RefundIn(o)   == Entry("refund:balance", o, orders[o].buyer, "balance", "in",
                       orders[o].amount)

LEMMA OrderEntries ==
    ASSUME TypeOK, NEW o \in DOMAIN orders
    PROVE  /\ {PayOut(o), PayIn(o), ReleaseOut(o), ReleaseIn(o), ReleaseFee(o),
               RefundOut(o), RefundIn(o)} \subseteq Requests
           /\ orders[o].amount \in Int /\ orders[o].fee \in Nat /\ Income(o) \in Int
           /\ o \in Refs
           /\ {orders[o].buyer, orders[o].seller, Platform} \subseteq Holders
<1>1. /\ {orders[o].buyer, orders[o].seller, Platform} \subseteq Holders
      /\ orders[o].amount \in Int /\ orders[o].fee \in Nat
      /\ o \in OrderIds
    BY DEF TypeOK, Orders, Holders
<1>2. o \in Refs /\ Income(o) \in Int /\ {"balance", "frozen"} \subseteq Accounts
    BY <1>1 DEF Refs, Income, Accounts
<1>3. {"pay:balance", "pay:frozen", "release:buyer-frozen", "release:seller",
       "release:fee", "refund:frozen", "refund:balance"} \subseteq Stages
    BY DEF Stages
<1>4. PayOut(o) \in Requests /\ PayIn(o) \in Requests
    BY <1>1, <1>2, <1>3, EntryIsRequest DEF PayOut, PayIn
<1>5. ReleaseOut(o) \in Requests /\ ReleaseIn(o) \in Requests
    BY <1>1, <1>2, <1>3, EntryIsRequest DEF ReleaseOut, ReleaseIn
<1>6. ReleaseFee(o) \in Requests
    BY <1>1, <1>2, <1>3, EntryIsRequest DEF ReleaseFee
<1>7. RefundOut(o) \in Requests /\ RefundIn(o) \in Requests
    BY <1>1, <1>2, <1>3, EntryIsRequest DEF RefundOut, RefundIn
<1> QED BY <1>1, <1>2, <1>4, <1>5, <1>6, <1>7

\* What the stages of the escrow record, one after the other.
LEMMA OutcomesRecord ==
    ASSUME NEW o
    PROVE  /\ HoldOutcome(o).wallet = Record(Record(wallet, PayOut(o)), PayIn(o))
           /\ RefundOutcome(o).wallet = Record(Record(wallet, RefundOut(o)), RefundIn(o))
           /\ ReleaseOutcome(o).wallet =
                IF orders[o].fee > 0
                THEN Record(Record(Record(wallet, ReleaseOut(o)), ReleaseIn(o)),
                            ReleaseFee(o))
                ELSE Record(Record(wallet, ReleaseOut(o)), ReleaseIn(o))
<1>1. ASSUME NEW e1, NEW e2
      PROVE  Try(Try(Start, e1), e2).wallet = Record(Record(wallet, e1), e2)
    BY DEF Try, Start
<1>2. ASSUME NEW e1, NEW e2, NEW e3
      PROVE  Try(Try(Try(Start, e1), e2), e3).wallet =
               Record(Record(Record(wallet, e1), e2), e3)
    BY DEF Try, Start
<1>3. HoldOutcome(o) = Try(Try(Start, PayOut(o)), PayIn(o))
    BY DEF HoldOutcome, PayOut, PayIn
<1>4. RefundOutcome(o) = Try(Try(Start, RefundOut(o)), RefundIn(o))
    BY DEF RefundOutcome, RefundOut, RefundIn
<1>5. ReleaseOutcome(o) =
        IF orders[o].fee > 0
        THEN Try(Try(Try(Start, ReleaseOut(o)), ReleaseIn(o)), ReleaseFee(o))
        ELSE Try(Try(Start, ReleaseOut(o)), ReleaseIn(o))
    BY DEF ReleaseOutcome, ReleaseOut, ReleaseIn, ReleaseFee
<1> QED BY <1>1, <1>2, <1>3, <1>4, <1>5

TopUp(u, t, a) == Entry("recharge", <<u, t>>, u, "balance", "in", a)
FreezeOut(u, w, a) == Entry("withdraw:freeze", w, u, "balance", "out", a)
FreezeIn(u, w, a)  == Entry("withdraw:frozen", w, u, "frozen", "in", a)
PaidOut(w) == Entry("withdraw:paid", w, withdrawals[w].user, "frozen", "out",
                    withdrawals[w].amount)

LEMMA WalletRecords ==
    ASSUME TypeOK
    PROVE  /\ \A u \in Users, t \in TopUps, a \in RechargeAmounts :
                /\ TopUp(u, t, a) \in Requests
                /\ Recharge(u, t, a) => wallet' = Record(wallet, TopUp(u, t, a))
           /\ \A u \in Users, w \in WithdrawIds, a \in WithdrawAmounts :
                /\ a \in Int
                /\ FreezeOut(u, w, a) \in Requests /\ FreezeIn(u, w, a) \in Requests
                /\ Withdraw(u, w, a) =>
                     wallet' = Record(Record(wallet, FreezeOut(u, w, a)), FreezeIn(u, w, a))
           /\ \A w \in WithdrawIds : SettleWithdraw(w) =>
                /\ PaidOut(w) \in Requests
                /\ withdrawals[w].user \in Users /\ withdrawals[w].amount \in Int
                /\ wallet' = Record(wallet, PaidOut(w))
<1>1. Users \subseteq Holders /\ {"balance", "frozen"} \subseteq Accounts
    BY DEF Holders, Accounts
<1>2. {"recharge", "withdraw:freeze", "withdraw:frozen", "withdraw:paid"} \subseteq Stages
    BY DEF Stages
<1>3. WithdrawIds \subseteq Refs /\ \A u \in Users, t \in TopUps : <<u, t>> \in Refs
    BY DEF Refs
<1>4. RechargeAmounts \subseteq Int /\ WithdrawAmounts \subseteq Int
    BY AmountsAssumption
<1>5. ASSUME NEW u \in Users, NEW t \in TopUps, NEW a \in RechargeAmounts
      PROVE  /\ TopUp(u, t, a) \in Requests
             /\ Recharge(u, t, a) => wallet' = Record(wallet, TopUp(u, t, a))
  <2>1. TopUp(u, t, a) \in Requests
    BY <1>1, <1>2, <1>3, <1>4, EntryIsRequest DEF TopUp
  <2>2. Recharge(u, t, a) => wallet' = Try(Start, TopUp(u, t, a)).wallet
    BY DEF Recharge, Commit, TopUp
  <2>3. Try(Start, TopUp(u, t, a)).wallet = Record(wallet, TopUp(u, t, a))
    BY DEF Try, Start
  <2> QED BY <2>1, <2>2, <2>3
<1>6. ASSUME NEW u \in Users, NEW w \in WithdrawIds, NEW a \in WithdrawAmounts
      PROVE  /\ a \in Int
             /\ FreezeOut(u, w, a) \in Requests /\ FreezeIn(u, w, a) \in Requests
             /\ Withdraw(u, w, a) =>
                  wallet' = Record(Record(wallet, FreezeOut(u, w, a)), FreezeIn(u, w, a))
  <2>1. a \in Int /\ FreezeOut(u, w, a) \in Requests /\ FreezeIn(u, w, a) \in Requests
    BY <1>1, <1>2, <1>3, <1>4, EntryIsRequest DEF FreezeOut, FreezeIn
  <2>2. Withdraw(u, w, a) =>
          wallet' = Try(Try(Start, FreezeOut(u, w, a)), FreezeIn(u, w, a)).wallet
    BY DEF Withdraw, Commit, FreezeOut, FreezeIn
  <2>3. Try(Try(Start, FreezeOut(u, w, a)), FreezeIn(u, w, a)).wallet =
          Record(Record(wallet, FreezeOut(u, w, a)), FreezeIn(u, w, a))
    BY DEF Try, Start
  <2> QED BY <2>1, <2>2, <2>3
<1>7. ASSUME NEW w \in WithdrawIds, SettleWithdraw(w)
      PROVE  /\ PaidOut(w) \in Requests
             /\ withdrawals[w].user \in Users /\ withdrawals[w].amount \in Int
             /\ wallet' = Record(wallet, PaidOut(w))
  <2>1. withdrawals[w].user \in Users /\ withdrawals[w].amount \in Int
    BY <1>7 DEF SettleWithdraw, TypeOK, WalletTypeOK
  <2>2. PaidOut(w) \in Requests
    BY <1>1, <1>2, <1>3, <2>1, EntryIsRequest DEF PaidOut
  <2>3. wallet' = Try(Start, PaidOut(w)).wallet
    BY <1>7 DEF SettleWithdraw, Commit, PaidOut
  <2>4. Try(Start, PaidOut(w)).wallet = Record(wallet, PaidOut(w))
    BY DEF Try, Start
  <2> QED BY <2>1, <2>2, <2>3, <2>4
<1> QED BY <1>5, <1>6, <1>7

\* Every step of the system leaves the wallet alone or makes one to three records.
LEMMA StepRecords ==
    ASSUME TypeOK, [Next]_vars
    PROVE  \/ UNCHANGED wallet
           \/ \E e \in Requests : wallet' = Record(wallet, e)
           \/ \E e1, e2 \in Requests : wallet' = Record(Record(wallet, e1), e2)
           \/ \E e1, e2, e3 \in Requests :
                 wallet' = Record(Record(Record(wallet, e1), e2), e3)
<1>1. ASSUME NEW o \in OrderIds,
             \/ Pay(o) \/ ConfirmEffect(o)
             \/ AgreeRefund(o) \/ ArbitrateRelease(o) \/ ArbitrateRefund(o)
      PROVE  \/ \E e1, e2 \in Requests : wallet' = Record(Record(wallet, e1), e2)
             \/ \E e1, e2, e3 \in Requests :
                   wallet' = Record(Record(Record(wallet, e1), e2), e3)
  <2>1. o \in DOMAIN orders
    BY <1>1 DEF Pay, ConfirmEffect, AgreeRefund, ArbitrateRelease, ArbitrateRefund,
                Transition
  <2>2. \/ wallet' = HoldOutcome(o).wallet
        \/ wallet' = ReleaseOutcome(o).wallet
        \/ wallet' = RefundOutcome(o).wallet
    BY <1>1 DEF Pay, ConfirmEffect, AgreeRefund, ArbitrateRelease, ArbitrateRefund,
                Commit
  <2> QED BY <2>1, <2>2, OrderEntries, OutcomesRecord
<1>2. ASSUME WalletNext
      PROVE  \/ \E e \in Requests : wallet' = Record(wallet, e)
             \/ \E e1, e2 \in Requests : wallet' = Record(Record(wallet, e1), e2)
  <2>1. CASE \E u \in Users, t \in TopUps, a \in RechargeAmounts : Recharge(u, t, a)
    BY <2>1, WalletRecords
  <2>2. CASE \E u \in Users, w \in WithdrawIds, a \in WithdrawAmounts : Withdraw(u, w, a)
    BY <2>2, WalletRecords
  <2>3. CASE \E w \in WithdrawIds : SettleWithdraw(w)
    BY <2>3, WalletRecords
  <2> QED BY <1>2, <2>1, <2>2, <2>3 DEF WalletNext
<1>3. ASSUME NEW o \in OrderIds,
             \/ Ship(o) \/ Cancel(o) \/ RequestRefund(o) \/ RequestReturn(o)
             \/ RejectRefund(o) \/ Dispute(o) \/ Elapse(o)
             \/ \E u \in Users, b \in Books : Create(o, u, b)
      PROVE  UNCHANGED wallet
    BY <1>3 DEF Ship, Cancel, RequestRefund, RequestReturn, RejectRefund, Dispute,
                Elapse, Create, walletVars
<1> QED BY <1>1, <1>2, <1>3, OrdersStep DEF walletVars
-----------------------------------------------------------------------------
(* The ledger's books balance *)

LEMMA TypedIsSound == ASSUME TypeOK, IsFiniteSet(wallet.ledger) PROVE Sound(wallet)
<1>1. wallet.money \in [Holders -> [Accounts -> Nat]] /\ wallet.ledger \subseteq Entries
    BY DEF TypeOK, WalletTypeOK, WalletStates
<1>2. Entries \subseteq Requests
    BY DEF Entries, Requests
<1> QED BY <1>1, <1>2 DEF Sound

CacheInv == IsFiniteSet(wallet.ledger) /\ CacheMatchesLedger

LEMMA CacheStep == TypeOK /\ CacheInv /\ [Next]_vars => CacheInv'
<1> SUFFICES ASSUME TypeOK, CacheInv, [Next]_vars PROVE CacheInv'
    OBVIOUS
<1> DEFINE OK(w) == Sound(w) /\ Cached(w)
<1>1. OK(wallet)
    BY TypedIsSound DEF CacheInv, CacheMatchesLedger, Cached
<1>2. ASSUME NEW w, OK(w), NEW e \in Requests PROVE OK(Record(w, e))
    BY <1>2, RecordMoney, RecordCaches
<1>3. OK(wallet') => CacheInv'
    BY DEF CacheInv, CacheMatchesLedger, Cached, Sound
<1> HIDE DEF OK
<1>4. OK(wallet')
  <2>1. CASE UNCHANGED wallet
    BY <1>1, <2>1
  <2>2. CASE \E e \in Requests : wallet' = Record(wallet, e)
    BY <1>1, <1>2, <2>2
  <2>3. CASE \E e1, e2 \in Requests : wallet' = Record(Record(wallet, e1), e2)
    BY <1>1, <1>2, <2>3
  <2>4. CASE \E e1, e2, e3 \in Requests :
               wallet' = Record(Record(Record(wallet, e1), e2), e3)
    BY <1>1, <1>2, <2>4
  <2> QED BY <2>1, <2>2, <2>3, <2>4, StepRecords
<1> QED BY <1>3, <1>4

LEMMA CacheInit == Init => CacheInv
<1> SUFFICES ASSUME Init PROVE CacheInv
    OBVIOUS
<1>1. /\ wallet.ledger = {}
      /\ \A h \in Holders, a \in Accounts : wallet.money[h][a] = 0
    BY DEF Init, WalletInit
<1>2. ASSUME NEW h \in Holders, NEW a \in Accounts PROVE LedgerSum(wallet, h, a) = 0
  <2> DEFINE S == {x \in wallet.ledger : x.user = h /\ x.account = a}
             f == [x \in S |-> Signed(x)]
  <2>1. DOMAIN f = {}
    BY <1>1
  <2>2. SumFunction(f) = 0
    <3> HIDE DEF f
    <3> QED BY <2>1, SumOfNone
  <2> QED BY <2>2 DEF LedgerSum
<1> QED BY <1>1, <1>2, FS_EmptySet DEF CacheInv, CacheMatchesLedger

\* Whatever is recharged, paid, settled, refunded and withdrawn, and however often under
\* the same key, the cached amounts of every account are the sums of its ledger entries
\* (wallet.service.js record, assertConsistency).
THEOREM CacheIsTheLedger == Spec => []CacheMatchesLedger
<1>1. Spec => []CacheInv
    BY CacheInit, CacheStep, TypeCorrect, PTL DEF Spec
<1>2. CacheInv => CacheMatchesLedger
    BY DEF CacheInv
<1> QED BY <1>1, <1>2, PTL
-----------------------------------------------------------------------------
(* Money is conserved *)

\* Both entries of a payment, and both of a withdrawal, are in the ledger or neither is;
\* a withdrawal has its entries exactly if it was asked for, and paid out.
PaidInPairs ==
    \A o \in OrderIds :
        Posted(wallet, <<"pay:balance", o>>) <=> Posted(wallet, <<"pay:frozen", o>>)

WithdrawalsPosted ==
    \A w \in WithdrawIds :
        /\ Posted(wallet, <<"withdraw:freeze", w>>) <=> w \in DOMAIN withdrawals
        /\ Posted(wallet, <<"withdraw:frozen", w>>) <=> w \in DOMAIN withdrawals
        /\ Posted(wallet, <<"withdraw:paid", w>>) <=>
             w \in DOMAIN withdrawals /\ withdrawals[w].status = "paid"

PairsInv == PaidInPairs /\ WithdrawalsPosted

LEMMA PairsStep == TypeOK /\ PairsInv /\ [Next]_vars => PairsInv'
<1> SUFFICES ASSUME TypeOK, PairsInv, [Next]_vars PROVE PairsInv'
    OBVIOUS
<1>1. ASSUME NEW o \in OrderIds,
             \/ Pay(o) \/ ConfirmEffect(o)
             \/ AgreeRefund(o) \/ ArbitrateRelease(o) \/ ArbitrateRefund(o)
      PROVE  PairsInv'
  <2>1. UNCHANGED withdrawals
    BY <1>1 DEF Pay, ConfirmEffect, AgreeRefund, ArbitrateRelease, ArbitrateRefund
  <2>2. \/ wallet' = HoldOutcome(o).wallet
        \/ wallet' = ReleaseOutcome(o).wallet
        \/ wallet' = RefundOutcome(o).wallet
    BY <1>1 DEF Pay, ConfirmEffect, AgreeRefund, ArbitrateRelease, ArbitrateRefund,
                Commit
  <2>3. ASSUME NEW stage \in {"withdraw:freeze", "withdraw:frozen", "withdraw:paid"},
               NEW w
        PROVE  Posted(wallet', <<stage, w>>) <=> Posted(wallet, <<stage, w>>)
    BY <2>2, HoldPosts, ReleasePosts, RefundPosts
  <2>4. WithdrawalsPosted'
    BY <2>1, <2>3 DEF PairsInv, WithdrawalsPosted
  <2>5. ASSUME NEW x \in OrderIds
        PROVE  Posted(wallet', <<"pay:balance", x>>) <=> Posted(wallet', <<"pay:frozen", x>>)
    <3>1. Posted(wallet, <<"pay:balance", x>>) <=> Posted(wallet, <<"pay:frozen", x>>)
      BY DEF PairsInv, PaidInPairs
    <3> QED BY <2>2, <3>1, HoldPosts, ReleasePosts, RefundPosts
  <2> QED BY <2>4, <2>5 DEF PairsInv, PaidInPairs
<1>2. ASSUME WalletNext PROVE PairsInv'
  <2>1. PaidInPairs'
    <3>1. {"pay:balance", "pay:frozen"} \subseteq OrderStages
      BY DEF OrderStages
    <3> QED BY <1>2, <3>1, WalletStepPosts DEF PairsInv, PaidInPairs
  <2>2. ASSUME NEW u \in Users, NEW t \in TopUps, NEW a \in RechargeAmounts,
               Recharge(u, t, a)
        PROVE  WithdrawalsPosted'
    <3>1. wallet' = Record(wallet, TopUp(u, t, a)) /\ UNCHANGED withdrawals
      BY <2>2, WalletRecords DEF Recharge
    <3>2. TopUp(u, t, a).key = <<"recharge", <<u, t>>>>
      BY DEF TopUp, Entry
    <3>3. ASSUME NEW k
          PROVE  Posted(wallet', k) <=> Posted(wallet, k) \/ k = <<"recharge", <<u, t>>>>
      BY <3>1, <3>2, RecordKeys
    <3> QED BY <3>1, <3>3 DEF PairsInv, WithdrawalsPosted
  <2>3. ASSUME NEW u \in Users, NEW w \in WithdrawIds, NEW a \in WithdrawAmounts,
               Withdraw(u, w, a)
        PROVE  WithdrawalsPosted'
    <3>1. wallet' = Record(Record(wallet, FreezeOut(u, w, a)), FreezeIn(u, w, a))
      BY <2>3, WalletRecords
    <3>2. /\ FreezeOut(u, w, a).key = <<"withdraw:freeze", w>>
          /\ FreezeIn(u, w, a).key = <<"withdraw:frozen", w>>
      BY DEF FreezeOut, FreezeIn, Entry
    <3>3. ASSUME NEW k
          PROVE  Posted(wallet', k) <=> \/ Posted(wallet, k)
                                        \/ k = <<"withdraw:freeze", w>>
                                        \/ k = <<"withdraw:frozen", w>>
      BY <3>1, <3>2, RecordKeys
    <3>4. /\ w \notin DOMAIN withdrawals
          /\ DOMAIN withdrawals' = DOMAIN withdrawals \cup {w}
          /\ withdrawals'[w].status = "pending"
          /\ \A x \in DOMAIN withdrawals : withdrawals'[x] = withdrawals[x]
      BY <2>3 DEF Withdraw
    <3> QED BY <3>3, <3>4 DEF PairsInv, WithdrawalsPosted
  <2>4. ASSUME NEW w \in WithdrawIds, SettleWithdraw(w)
        PROVE  WithdrawalsPosted'
    <3>1. wallet' = Record(wallet, PaidOut(w))
      BY <2>4, WalletRecords
    <3>2. PaidOut(w).key = <<"withdraw:paid", w>>
      BY DEF PaidOut, Entry
    <3>3. /\ w \in DOMAIN withdrawals
          /\ DOMAIN withdrawals' = DOMAIN withdrawals
          /\ withdrawals'[w].status = "paid"
          /\ \A x \in DOMAIN withdrawals \ {w} : withdrawals'[x] = withdrawals[x]
      BY <2>4 DEF SettleWithdraw, TypeOK, WalletTypeOK
    <3>4. ASSUME NEW k
          PROVE  Posted(wallet', k) <=> Posted(wallet, k) \/ k = <<"withdraw:paid", w>>
      BY <3>1, <3>2, RecordKeys
    <3> QED BY <3>3, <3>4 DEF PairsInv, WithdrawalsPosted
  <2> QED BY <1>2, <2>1, <2>2, <2>3, <2>4 DEF PairsInv, WalletNext
<1>3. ASSUME UNCHANGED walletVars PROVE PairsInv'
    BY <1>3 DEF walletVars, PairsInv, PaidInPairs, WithdrawalsPosted
<1>4. ASSUME NEW o \in OrderIds,
             \/ Ship(o) \/ Cancel(o) \/ RequestRefund(o) \/ RequestReturn(o)
             \/ RejectRefund(o) \/ Dispute(o) \/ Elapse(o)
             \/ \E u \in Users, b \in Books : Create(o, u, b)
      PROVE  UNCHANGED walletVars
    BY <1>4 DEF Ship, Cancel, RequestRefund, RequestReturn, RejectRefund, Dispute,
                Elapse, Create, walletVars
<1> QED BY <1>1, <1>2, <1>3, <1>4, OrdersStep

\* Two records that cancel out leave the surplus as it was, and so do three.
LEMMA TwoCancel ==
    ASSUME NEW w, Sound(w), NEW e1 \in Requests, NEW e2 \in Requests,
           e1.key[1] \notin {"recharge", "withdraw:paid"},
           e2.key[1] \notin {"recharge", "withdraw:paid"},
           e1.key # e2.key, Posted(w, e1.key) <=> Posted(w, e2.key),
           Signed(e1) + Signed(e2) = 0
    PROVE  Surplus(Record(Record(w, e1), e2)) = Surplus(w)
<1> DEFINE v == Record(w, e1)
<1>1. /\ Sound(v)
      /\ Posted(v, e2.key) <=> Posted(w, e2.key)
      /\ Signed(e1) \in Int /\ Signed(e2) \in Int
    BY RecordMoney, RecordKeys DEF Requests, Signed
<1>2. /\ Surplus(w) \in Int
      /\ Surplus(v) = Surplus(w) + (IF Posted(w, e1.key) THEN 0 ELSE Signed(e1))
    BY RecordSurplus
<1> HIDE DEF v
<1>3. Surplus(Record(v, e2)) = Surplus(v) + (IF Posted(v, e2.key) THEN 0 ELSE Signed(e2))
    BY <1>1, RecordSurplus
<1> QED BY <1>1, <1>2, <1>3 DEF v

LEMMA ThreeCancel ==
    ASSUME NEW w, Sound(w), NEW e1 \in Requests, NEW e2 \in Requests, NEW e3 \in Requests,
           e1.key[1] \notin {"recharge", "withdraw:paid"},
           e2.key[1] \notin {"recharge", "withdraw:paid"},
           e3.key[1] \notin {"recharge", "withdraw:paid"},
           e1.key # e2.key, e1.key # e3.key, e2.key # e3.key,
           ~Posted(w, e1.key), ~Posted(w, e2.key), ~Posted(w, e3.key),
           Signed(e1) + Signed(e2) + Signed(e3) = 0
    PROVE  Surplus(Record(Record(Record(w, e1), e2), e3)) = Surplus(w)
<1> DEFINE v == Record(w, e1)
           x == Record(v, e2)
<1>1. /\ Sound(v) /\ ~Posted(v, e2.key) /\ ~Posted(v, e3.key)
      /\ Signed(e1) \in Int /\ Signed(e2) \in Int /\ Signed(e3) \in Int
    BY RecordMoney, RecordKeys DEF Requests, Signed
<1>2. Surplus(w) \in Int /\ Surplus(v) = Surplus(w) + Signed(e1)
    BY RecordSurplus
<1> HIDE DEF v
<1>3. Sound(x) /\ ~Posted(x, e3.key)
    BY <1>1, RecordMoney, RecordKeys
<1>4. Surplus(x) = Surplus(v) + Signed(e2)
    BY <1>1, RecordSurplus
<1> HIDE DEF x
<1>5. Surplus(Record(x, e3)) = Surplus(x) + Signed(e3)
    BY <1>1, <1>3, RecordSurplus
<1> QED BY <1>1, <1>2, <1>4, <1>5 DEF v, x

SurplusInv == IsFiniteSet(wallet.ledger) /\ Surplus(wallet) = 0

LEMMA SurplusStep ==
    TypeOK /\ (\A o \in OrderIds : Story(o)) /\ PairsInv /\ CacheInv /\ SurplusInv
      /\ [Next]_vars => SurplusInv'
<1> SUFFICES ASSUME TypeOK, \A o \in OrderIds : Story(o), PairsInv, CacheInv, SurplusInv,
                    [Next]_vars
             PROVE  Surplus(wallet') = 0
    BY CacheStep DEF SurplusInv, CacheInv
<1>1. Sound(wallet) /\ Surplus(wallet) = 0
    BY TypedIsSound DEF SurplusInv
<1>2. ASSUME NEW o \in OrderIds, Pay(o) PROVE Surplus(wallet') = 0
  <2>1. o \in DOMAIN orders /\ wallet' = Record(Record(wallet, PayOut(o)), PayIn(o))
    BY <1>2, OutcomesRecord DEF Pay, Transition, Commit
  <2>2. orders[o].amount \in Int /\ PayOut(o) \in Requests /\ PayIn(o) \in Requests
    BY <2>1, OrderEntries
  <2>3. /\ PayOut(o).key = <<"pay:balance", o>> /\ Signed(PayOut(o)) = -orders[o].amount
        /\ PayIn(o).key = <<"pay:frozen", o>> /\ Signed(PayIn(o)) = orders[o].amount
    BY DEF PayOut, PayIn, Entry, Signed
  <2>4. Posted(wallet, PayOut(o).key) <=> Posted(wallet, PayIn(o).key)
    BY <2>3 DEF PairsInv, PaidInPairs
  <2> QED BY <1>1, <2>1, <2>2, <2>3, <2>4, TwoCancel
<1>3. ASSUME NEW o \in OrderIds, AgreeRefund(o) \/ ArbitrateRefund(o)
      PROVE  Surplus(wallet') = 0
  <2>1. o \in DOMAIN orders /\ wallet' = Record(Record(wallet, RefundOut(o)), RefundIn(o))
    BY <1>3, OutcomesRecord DEF AgreeRefund, ArbitrateRefund, Transition, Commit
  <2>2. orders[o].amount \in Int /\ RefundOut(o) \in Requests /\ RefundIn(o) \in Requests
    BY <2>1, OrderEntries
  <2>3. /\ RefundOut(o).key = <<"refund:frozen", o>>
        /\ Signed(RefundOut(o)) = -orders[o].amount
        /\ RefundIn(o).key = <<"refund:balance", o>>
        /\ Signed(RefundIn(o)) = orders[o].amount
    BY DEF RefundOut, RefundIn, Entry, Signed
  <2>4. Posted(wallet, RefundOut(o).key) <=> Posted(wallet, RefundIn(o).key)
    BY <2>3 DEF Story, RefundStages
  <2> QED BY <1>1, <2>1, <2>2, <2>3, <2>4, TwoCancel
<1>4. ASSUME NEW o \in OrderIds, ConfirmEffect(o) \/ ArbitrateRelease(o)
      PROVE  Surplus(wallet') = 0
  <2>1. /\ o \in DOMAIN orders
        /\ wallet' = IF orders[o].fee > 0
                     THEN Record(Record(Record(wallet, ReleaseOut(o)), ReleaseIn(o)),
                                 ReleaseFee(o))
                     ELSE Record(Record(wallet, ReleaseOut(o)), ReleaseIn(o))
    BY <1>4, OutcomesRecord DEF ConfirmEffect, ArbitrateRelease, Transition, Commit
  <2>2. /\ orders[o].amount \in Int /\ orders[o].fee \in Nat
        /\ ReleaseOut(o) \in Requests /\ ReleaseIn(o) \in Requests
        /\ ReleaseFee(o) \in Requests
    BY <2>1, OrderEntries
  <2>3. /\ ReleaseOut(o).key = <<"release:buyer-frozen", o>>
        /\ Signed(ReleaseOut(o)) = -orders[o].amount
        /\ ReleaseIn(o).key = <<"release:seller", o>>
        /\ Signed(ReleaseIn(o)) = orders[o].amount - orders[o].fee
        /\ ReleaseFee(o).key = <<"release:fee", o>>
        /\ Signed(ReleaseFee(o)) = orders[o].fee
    BY DEF ReleaseOut, ReleaseIn, ReleaseFee, Entry, Signed, Income
  <2>4. \A stage \in SettleStages : ~Posted(wallet, <<stage, o>>)
    <3>1. \E to \in ReleasedStatuses : \E escrow, countdown : Transition(o, to, escrow, countdown)
      BY <1>4 DEF ConfirmEffect, ArbitrateRelease, ReleasedStatuses
    <3>2. ReleasedStatuses \subseteq Statuses
      BY StatusSets DEF ReleasedStatuses
    <3> QED BY <3>1, <3>2, HandlerStatuses, UnsettledStory
  <2>5. /\ ~Posted(wallet, ReleaseOut(o).key) /\ ~Posted(wallet, ReleaseIn(o).key)
        /\ ~Posted(wallet, ReleaseFee(o).key)
    BY <2>3, <2>4 DEF SettleStages
  <2>6. CASE orders[o].fee > 0
    BY <1>1, <2>1, <2>2, <2>3, <2>5, <2>6, ThreeCancel
  <2>7. CASE orders[o].fee = 0
    BY <1>1, <2>1, <2>2, <2>3, <2>5, <2>7, TwoCancel
  <2> QED BY <2>2, <2>6, <2>7
<1>5. ASSUME WalletNext PROVE Surplus(wallet') = 0
  <2>1. ASSUME NEW u \in Users, NEW t \in TopUps, NEW a \in RechargeAmounts,
               Recharge(u, t, a)
        PROVE  Surplus(wallet') = 0
    <3>1. wallet' = Record(wallet, TopUp(u, t, a)) /\ TopUp(u, t, a) \in Requests
      BY <2>1, WalletRecords
    <3>2. TopUp(u, t, a).key[1] = "recharge" /\ TopUp(u, t, a).direction = "in"
      BY DEF TopUp, Entry
    <3> QED BY <1>1, <3>1, <3>2, RecordSurplus
  <2>2. ASSUME NEW u \in Users, NEW w \in WithdrawIds, NEW a \in WithdrawAmounts,
               Withdraw(u, w, a)
        PROVE  Surplus(wallet') = 0
    <3>1. /\ wallet' = Record(Record(wallet, FreezeOut(u, w, a)), FreezeIn(u, w, a))
          /\ FreezeOut(u, w, a) \in Requests /\ FreezeIn(u, w, a) \in Requests
          /\ a \in Int
      BY <2>2, WalletRecords
    <3>2. /\ FreezeOut(u, w, a).key = <<"withdraw:freeze", w>>
          /\ Signed(FreezeOut(u, w, a)) = -a
          /\ FreezeIn(u, w, a).key = <<"withdraw:frozen", w>>
          /\ Signed(FreezeIn(u, w, a)) = a
      BY DEF FreezeOut, FreezeIn, Entry, Signed
    <3>3. Posted(wallet, FreezeOut(u, w, a).key) <=> Posted(wallet, FreezeIn(u, w, a).key)
      BY <3>2 DEF PairsInv, WithdrawalsPosted
    <3> QED BY <1>1, <3>1, <3>2, <3>3, TwoCancel
  <2>3. ASSUME NEW w \in WithdrawIds, SettleWithdraw(w)
        PROVE  Surplus(wallet') = 0
    <3>1. wallet' = Record(wallet, PaidOut(w)) /\ PaidOut(w) \in Requests
      BY <2>3, WalletRecords
    <3>2. PaidOut(w).key[1] = "withdraw:paid" /\ PaidOut(w).direction = "out"
      BY DEF PaidOut, Entry
    <3> QED BY <1>1, <3>1, <3>2, RecordSurplus
  <2> QED BY <1>5, <2>1, <2>2, <2>3 DEF WalletNext
<1>6. ASSUME NEW o \in OrderIds,
             \/ Ship(o) \/ Cancel(o) \/ RequestRefund(o) \/ RequestReturn(o)
             \/ RejectRefund(o) \/ Dispute(o) \/ Elapse(o)
             \/ \E u \in Users, b \in Books : Create(o, u, b)
      PROVE  UNCHANGED wallet
    BY <1>6 DEF Ship, Cancel, RequestRefund, RequestReturn, RejectRefund, Dispute,
                Elapse, Create, walletVars
<1> QED BY <1>1, <1>2, <1>3, <1>4, <1>5, <1>6, OrdersStep DEF walletVars

LEMMA MoneyInit == Init => PairsInv /\ SurplusInv
<1> SUFFICES ASSUME Init PROVE PairsInv /\ SurplusInv
    OBVIOUS
<1>1. /\ wallet.ledger = {} /\ DOMAIN withdrawals = {}
      /\ \A h \in Holders, a \in Accounts : wallet.money[h][a] = 0
    BY DEF Init, WalletInit
<1>2. PairsInv
    BY <1>1 DEF PairsInv, PaidInPairs, WithdrawalsPosted, Posted
<1>3. ASSUME NEW stage PROVE AmountPosted(wallet, stage) = 0
  <2> DEFINE f == [e \in {x \in wallet.ledger : x.key[1] = stage} |-> e.amount]
  <2>1. DOMAIN f = {}
    BY <1>1
  <2>2. SumFunction(f) = 0
    <3> HIDE DEF f
    <3> QED BY <2>1, SumOfNone
  <2> QED BY <2>2 DEF AmountPosted
<1>4. AllMoney(wallet) = 0
  <2> DEFINE f == [x \in Holders \X Accounts |-> wallet.money[x[1]][x[2]]]
  <2>1. DOMAIN f = Holders \X Accounts /\ \A x \in DOMAIN f : f[x] = 0
    BY <1>1
  <2>2. SumFunction(f) = 0
    <3> HIDE DEF f
    <3> QED BY <2>1, AllPlacesFinite, SumOfZeros
  <2> QED BY <2>2 DEF AllMoney
<1> QED BY <1>1, <1>2, <1>3, <1>4, FS_EmptySet DEF SurplusInv, Surplus

\* Money is neither made nor lost: what all accounts hold is what was recharged less
\* what was paid out, whatever orders are paid, settled and refunded, by whomever and
\* how often (escrow.service.js, wallet.service.js).
THEOREM MoneyIsConserved == Spec => []MoneyConserved
<1> DEFINE Stories == \A o \in OrderIds : Story(o)
<1>1. Init => Stories
    BY DEF Init, WalletInit, Story, Posted, InStatus
<1>2. TypeOK /\ Stories /\ [Next]_vars => Stories'
    BY StoryStep
<1>3. TypeOK /\ Stories /\ PairsInv /\ CacheInv /\ SurplusInv /\ [Next]_vars => SurplusInv'
    BY SurplusStep
<1>4. TypeOK /\ SurplusInv => MoneyConserved
  <2> SUFFICES ASSUME TypeOK, SurplusInv PROVE MoneyConserved
      OBVIOUS
  <2>1. /\ AllMoney(wallet) \in Int
        /\ AmountPosted(wallet, "recharge") \in Int
        /\ AmountPosted(wallet, "withdraw:paid") \in Int
    BY TypedIsSound, AllMoneyType, AmountType DEF SurplusInv
  <2>2. AllMoney(wallet) - AmountPosted(wallet, "recharge")
          + AmountPosted(wallet, "withdraw:paid") = 0
    BY DEF SurplusInv, Surplus
  <2> QED BY <2>1, <2>2 DEF MoneyConserved
<1> HIDE DEF Stories
<1> QED
    BY <1>1, <1>2, <1>3, <1>4, MoneyInit, PairsStep, CacheInit, CacheStep, TypeCorrect, PTL
    DEF Spec
-----------------------------------------------------------------------------
(* What the stages of the escrow do to the accounts *)

\* Whatever is handed over in a chain of records was under its keys before, or not at all.
LEMMA HoldMoney ==
    ASSUME TypeOK, Sound(wallet), PaidInPairs, NEW o \in DOMAIN orders, NEW h \in Holders
    PROVE  LET price == IF h = orders[o].buyer /\ ~Posted(wallet, <<"pay:balance", o>>)
                        THEN orders[o].amount ELSE 0
               after == HoldOutcome(o).wallet.money[h]
           IN  /\ after["balance"] = wallet.money[h]["balance"] - price
               /\ after["frozen"] = wallet.money[h]["frozen"] + price
<1>1. /\ PayOut(o) \in Requests /\ PayIn(o) \in Requests /\ o \in OrderIds
      /\ orders[o].amount \in Int
      /\ wallet.money[h]["balance"] \in Int /\ wallet.money[h]["frozen"] \in Int
      /\ {"balance", "frozen"} \subseteq Accounts
    BY OrderEntries DEF TypeOK, Sound, Accounts
<1>2. /\ PayOut(o).key = <<"pay:balance", o>> /\ PayIn(o).key = <<"pay:frozen", o>>
      /\ PayOut(o).user = orders[o].buyer /\ PayIn(o).user = orders[o].buyer
      /\ PayOut(o).account = "balance" /\ PayIn(o).account = "frozen"
      /\ Signed(PayOut(o)) = -orders[o].amount /\ Signed(PayIn(o)) = orders[o].amount
    BY DEF PayOut, PayIn, Entry, Signed
<1>3. \A a \in Accounts : HoldOutcome(o).wallet.money[h][a] =
         wallet.money[h][a] + Added(wallet, PayOut(o), h, a) + Added(wallet, PayIn(o), h, a)
  <2>1. HoldOutcome(o).wallet = Record(Record(wallet, PayOut(o)), PayIn(o))
    BY OutcomesRecord
  <2> QED BY <1>1, <1>2, <2>1, TwoRecordMoney
<1>4. Posted(wallet, PayOut(o).key) <=> Posted(wallet, PayIn(o).key)
    BY <1>1, <1>2 DEF PaidInPairs
<1> QED BY <1>1, <1>2, <1>3, <1>4 DEF Added

LEMMA RefundMoney ==
    ASSUME TypeOK, Sound(wallet), NEW o \in DOMAIN orders, NEW h \in Holders,
           \A stage \in SettleStages : ~Posted(wallet, <<stage, o>>)
    PROVE  LET price == IF h = orders[o].buyer THEN orders[o].amount ELSE 0
               after == RefundOutcome(o).wallet.money[h]
           IN  /\ after["balance"] = wallet.money[h]["balance"] + price
               /\ after["frozen"] = wallet.money[h]["frozen"] - price
<1>1. /\ RefundOut(o) \in Requests /\ RefundIn(o) \in Requests
      /\ orders[o].amount \in Int
      /\ wallet.money[h]["balance"] \in Int /\ wallet.money[h]["frozen"] \in Int
      /\ {"balance", "frozen"} \subseteq Accounts
    BY OrderEntries DEF Sound, Accounts
<1>2. /\ RefundOut(o).key = <<"refund:frozen", o>> /\ RefundIn(o).key = <<"refund:balance", o>>
      /\ RefundOut(o).user = orders[o].buyer /\ RefundIn(o).user = orders[o].buyer
      /\ RefundOut(o).account = "frozen" /\ RefundIn(o).account = "balance"
      /\ Signed(RefundOut(o)) = -orders[o].amount /\ Signed(RefundIn(o)) = orders[o].amount
    BY DEF RefundOut, RefundIn, Entry, Signed
<1>3. \A a \in Accounts : RefundOutcome(o).wallet.money[h][a] =
         wallet.money[h][a] + Added(wallet, RefundOut(o), h, a)
                            + Added(wallet, RefundIn(o), h, a)
  <2>1. RefundOutcome(o).wallet = Record(Record(wallet, RefundOut(o)), RefundIn(o))
    BY OutcomesRecord
  <2> QED BY <1>1, <1>2, <2>1, TwoRecordMoney
<1>4. ~Posted(wallet, RefundOut(o).key) /\ ~Posted(wallet, RefundIn(o).key)
    BY <1>2 DEF SettleStages
<1> QED BY <1>1, <1>2, <1>3, <1>4 DEF Added

LEMMA ReleaseMoney ==
    ASSUME TypeOK, Sound(wallet), NEW o \in DOMAIN orders, NEW h \in Holders,
           \A stage \in SettleStages : ~Posted(wallet, <<stage, o>>)
    PROVE  LET after == ReleaseOutcome(o).wallet.money[h]
           IN  /\ after["balance"] =
                    wallet.money[h]["balance"] +
                      (IF h = orders[o].seller THEN Income(o) ELSE 0) +
                      (IF h = Platform THEN orders[o].fee ELSE 0)
               /\ after["frozen"] =
                    wallet.money[h]["frozen"] -
                      (IF h = orders[o].buyer THEN orders[o].amount ELSE 0)
<1> DEFINE e1 == ReleaseOut(o)
           e2 == ReleaseIn(o)
           e3 == ReleaseFee(o)
<1>1. /\ e1 \in Requests /\ e2 \in Requests /\ e3 \in Requests
      /\ orders[o].amount \in Int /\ orders[o].fee \in Nat /\ Income(o) \in Int
      /\ wallet.money[h]["balance"] \in Int /\ wallet.money[h]["frozen"] \in Int
      /\ {"balance", "frozen"} \subseteq Accounts
    BY OrderEntries DEF Sound, Accounts
<1>2. /\ e1.key = <<"release:buyer-frozen", o>> /\ e2.key = <<"release:seller", o>>
      /\ e3.key = <<"release:fee", o>>
      /\ e1.user = orders[o].buyer /\ e2.user = orders[o].seller /\ e3.user = Platform
      /\ e1.account = "frozen" /\ e2.account = "balance" /\ e3.account = "balance"
      /\ Signed(e1) = -orders[o].amount /\ Signed(e2) = Income(o) /\ Signed(e3) = orders[o].fee
    BY DEF ReleaseOut, ReleaseIn, ReleaseFee, Entry, Signed
<1>3. ReleaseOutcome(o).wallet = IF orders[o].fee > 0
                                 THEN Record(Record(Record(wallet, e1), e2), e3)
                                 ELSE Record(Record(wallet, e1), e2)
    BY OutcomesRecord
<1>4. ~Posted(wallet, e1.key) /\ ~Posted(wallet, e2.key) /\ ~Posted(wallet, e3.key)
    BY <1>2 DEF SettleStages
<1> HIDE DEF e1, e2, e3
<1>5. \A a \in Accounts : ReleaseOutcome(o).wallet.money[h][a] =
         wallet.money[h][a] + Added(wallet, e1, h, a) + Added(wallet, e2, h, a)
           + (IF orders[o].fee > 0 THEN Added(wallet, e3, h, a) ELSE 0)
  <2>1. \A a \in Accounts : /\ wallet.money[h][a] \in Int
                            /\ Added(wallet, e1, h, a) \in Int
                            /\ Added(wallet, e2, h, a) \in Int
    BY <1>1, <1>2 DEF Sound, Added
  <2>2. CASE orders[o].fee > 0
    BY <1>1, <1>2, <1>3, <2>2, ThreeRecordMoney
  <2>3. CASE ~(orders[o].fee > 0)
    BY <1>1, <1>2, <1>3, <2>1, <2>3, TwoRecordMoney
  <2> QED BY <2>2, <2>3
<1>6. /\ \A a \in Accounts : Added(wallet, e1, h, a) =
            IF h = orders[o].buyer /\ a = "frozen" THEN -orders[o].amount ELSE 0
      /\ \A a \in Accounts : Added(wallet, e2, h, a) =
            IF h = orders[o].seller /\ a = "balance" THEN Income(o) ELSE 0
      /\ \A a \in Accounts : Added(wallet, e3, h, a) =
            IF h = Platform /\ a = "balance" THEN orders[o].fee ELSE 0
    BY <1>2, <1>4 DEF Added
<1> QED BY <1>1, <1>5, <1>6

\* What recharges and withdrawals do to the accounts of anybody.
LEMMA WalletMoney ==
    ASSUME TypeOK, Sound(wallet), WithdrawalsPosted, NEW h \in Holders
    PROVE  /\ \A u \in Users, t \in TopUps, a \in RechargeAmounts : Recharge(u, t, a) =>
                /\ h # u => wallet'.money[h]["balance"] = wallet.money[h]["balance"]
                /\ wallet'.money[h]["frozen"] = wallet.money[h]["frozen"]
           /\ \A u \in Users, w \in WithdrawIds, a \in WithdrawAmounts : Withdraw(u, w, a) =>
                /\ h # u => wallet'.money[h]["balance"] = wallet.money[h]["balance"]
                /\ wallet'.money[h]["frozen"] =
                     wallet.money[h]["frozen"] + (IF h = u THEN a ELSE 0)
           /\ \A w \in WithdrawIds : SettleWithdraw(w) =>
                /\ wallet'.money[h]["balance"] = wallet.money[h]["balance"]
                /\ wallet'.money[h]["frozen"] =
                     wallet.money[h]["frozen"] -
                       (IF h = withdrawals[w].user THEN withdrawals[w].amount ELSE 0)
<1>1. /\ wallet.money[h]["balance"] \in Int /\ wallet.money[h]["frozen"] \in Int
      /\ {"balance", "frozen"} \subseteq Accounts
    BY DEF Sound, Accounts
<1>2. ASSUME NEW u \in Users, NEW t \in TopUps, NEW a \in RechargeAmounts, Recharge(u, t, a)
      PROVE  /\ h # u => wallet'.money[h]["balance"] = wallet.money[h]["balance"]
             /\ wallet'.money[h]["frozen"] = wallet.money[h]["frozen"]
  <2>1. wallet' = Record(wallet, TopUp(u, t, a)) /\ TopUp(u, t, a) \in Requests
    BY <1>2, WalletRecords
  <2>2. TopUp(u, t, a).user = u /\ TopUp(u, t, a).account = "balance"
    BY DEF TopUp, Entry
  <2>3. \A c \in Accounts :
           wallet'.money[h][c] = wallet.money[h][c] + Added(wallet, TopUp(u, t, a), h, c)
    BY <2>1, RecordMoney
  <2> QED BY <1>1, <2>2, <2>3 DEF Added
<1>3. ASSUME NEW u \in Users, NEW w \in WithdrawIds, NEW a \in WithdrawAmounts,
             Withdraw(u, w, a)
      PROVE  /\ h # u => wallet'.money[h]["balance"] = wallet.money[h]["balance"]
             /\ wallet'.money[h]["frozen"] =
                  wallet.money[h]["frozen"] + (IF h = u THEN a ELSE 0)
  <2> DEFINE e1 == FreezeOut(u, w, a)
             e2 == FreezeIn(u, w, a)
  <2>1. /\ wallet' = Record(Record(wallet, e1), e2)
        /\ e1 \in Requests /\ e2 \in Requests /\ a \in Int
    BY <1>3, WalletRecords
  <2>2. /\ e1.user = u /\ e1.account = "balance" /\ e1.key = <<"withdraw:freeze", w>>
        /\ e2.user = u /\ e2.account = "frozen" /\ e2.key = <<"withdraw:frozen", w>>
        /\ Signed(e2) = a
    BY DEF FreezeOut, FreezeIn, Entry, Signed
  <2>3. ~Posted(wallet, e2.key)
    BY <1>3, <2>2 DEF Withdraw, WithdrawalsPosted
  <2> HIDE DEF e1, e2
  <2>4. \A c \in Accounts : wallet'.money[h][c] =
           wallet.money[h][c] + Added(wallet, e1, h, c) + Added(wallet, e2, h, c)
    BY <2>1, <2>2, TwoRecordMoney
  <2> QED BY <1>1, <2>1, <2>2, <2>3, <2>4 DEF Added
<1>4. ASSUME NEW w \in WithdrawIds, SettleWithdraw(w)
      PROVE  /\ wallet'.money[h]["balance"] = wallet.money[h]["balance"]
             /\ wallet'.money[h]["frozen"] =
                  wallet.money[h]["frozen"] -
                    (IF h = withdrawals[w].user THEN withdrawals[w].amount ELSE 0)
  <2>1. /\ wallet' = Record(wallet, PaidOut(w)) /\ PaidOut(w) \in Requests
        /\ withdrawals[w].amount \in Int
    BY <1>4, WalletRecords
  <2>2. /\ PaidOut(w).user = withdrawals[w].user /\ PaidOut(w).account = "frozen"
        /\ PaidOut(w).key = <<"withdraw:paid", w>>
        /\ Signed(PaidOut(w)) = -withdrawals[w].amount
    BY DEF PaidOut, Entry, Signed
  <2>3. ~Posted(wallet, PaidOut(w).key)
    BY <1>4, <2>2 DEF SettleWithdraw, WithdrawalsPosted
  <2>4. \A c \in Accounts :
           wallet'.money[h][c] = wallet.money[h][c] + Added(wallet, PaidOut(w), h, c)
    BY <2>1, RecordMoney
  <2> QED BY <1>1, <2>1, <2>2, <2>3, <2>4 DEF Added
<1> QED BY <1>2, <1>3, <1>4
-----------------------------------------------------------------------------
(* Frozen money *)

OrderClaims(u)      == SumFunction([o \in HeldOf(u) |-> orders[o].amount])
WithdrawalClaims(u) == SumFunction([w \in PendingOf(u) |-> withdrawals[w].amount])

FiniteClaims == IsFiniteSet(DOMAIN orders) /\ IsFiniteSet(DOMAIN withdrawals)

\* The row of one order changes: its price joins its buyer's claims, or leaves them.
LEMMA ClaimsMove ==
    ASSUME TypeOK, FiniteClaims, NEW o, OnlyOrder(o), NEW u \in Users
    PROVE  LET price == IF u = orders[o].buyer THEN orders[o].amount ELSE 0
           IN  OrderClaims(u)' = OrderClaims(u)
                 + (IF orders'[o].escrow = "held" THEN price ELSE 0)
                 - (IF orders[o].escrow = "held" THEN price ELSE 0)
<1> DEFINE S == HeldOf(u)
           T == HeldOf(u)'
           f == [x \in S |-> orders[x].amount]
           g == [x \in T |-> orders'[x].amount]
<1>1. /\ o \in DOMAIN orders /\ DOMAIN orders' = DOMAIN orders
      /\ orders'[o].buyer = orders[o].buyer
      /\ \A x \in DOMAIN orders : /\ orders[x].amount \in Int
                                  /\ orders'[x].amount = orders[x].amount
      /\ \A x \in DOMAIN orders : x # o => orders'[x] = orders[x]
    BY DEF OnlyOrder, SameDeal, TypeOK, Orders
<1>2. /\ S \subseteq DOMAIN orders /\ T \subseteq DOMAIN orders
      /\ IsFiniteSet(S) /\ IsFiniteSet(T)
  <2>1. S \subseteq DOMAIN orders /\ T \subseteq DOMAIN orders
    BY <1>1 DEF HeldOf
  <2> QED BY <2>1, FS_Subset DEF FiniteClaims
<1>3. OrderClaims(u) = SumFunction(f) /\ OrderClaims(u)' = SumFunction(g)
    BY DEF OrderClaims
<1>4. /\ DOMAIN f = S /\ DOMAIN g = T
      /\ \A x \in S : f[x] = orders[x].amount /\ f[x] \in Int
      /\ \A x \in T : g[x] = orders[x].amount /\ g[x] \in Int
    BY <1>1, <1>2
<1>5. /\ \A x : x # o => (x \in T <=> x \in S)
      /\ o \in S <=> u = orders[o].buyer /\ orders[o].escrow = "held"
      /\ o \in T <=> u = orders[o].buyer /\ orders'[o].escrow = "held"
    BY <1>1 DEF HeldOf
<1>6. SumFunction(f) \in Int /\ SumFunction(g) \in Int
  <2> HIDE DEF f, g, S, T
  <2> QED BY <1>2, <1>4, SumType
<1>7. CASE o \in S <=> o \in T
  <2>1. S = T
    BY <1>5, <1>7
  <2>2. f = g
    BY <1>1, <1>2, <2>1
  <2> HIDE DEF f, g, S, T
  <2> QED BY <1>1, <1>3, <1>5, <1>6, <1>7, <2>2
<1>8. CASE o \notin S /\ o \in T
  <2>1. T = S \cup {o}
    BY <1>5, <1>8
  <2>2. /\ IsFiniteSet(DOMAIN f) /\ \A y \in DOMAIN f : f[y] \in Int
        /\ o \notin DOMAIN f /\ DOMAIN g = DOMAIN f \cup {o}
        /\ g[o] = orders[o].amount /\ g[o] \in Int
        /\ \A y \in DOMAIN f : g[y] = f[y]
    <3> HIDE DEF f, g, S, T
    <3> QED BY <1>2, <1>4, <1>8, <2>1
  <2>3. SumFunction(g) = SumFunction(f) + g[o]
    <3> HIDE DEF f, g, S, T
    <3> QED BY <2>2, SumGrows
  <2>4. /\ OrderClaims(u)' = OrderClaims(u) + orders[o].amount
        /\ u = orders[o].buyer /\ orders[o].escrow # "held" /\ orders'[o].escrow = "held"
    BY <1>3, <1>5, <1>8, <2>2, <2>3
  <2> HIDE DEF f, g, S, T
  <2> QED BY <1>1, <1>3, <1>6, <2>4
<1>9. CASE o \in S /\ o \notin T
  <2>1. S = T \cup {o}
    BY <1>5, <1>9
  <2>2. SumFunction(f) = SumFunction(g) + f[o]
    <3> HIDE DEF f, g, S, T
    <3> QED BY <1>2, <1>4, <1>9, <2>1, SumGrows
  <2>3. f[o] = orders[o].amount
    BY <1>4, <1>9
  <2> HIDE DEF f, g, S, T
  <2> QED BY <1>1, <1>3, <1>5, <1>6, <1>9, <2>2, <2>3
<1> QED BY <1>7, <1>8, <1>9

\* A new order makes no claim yet.
LEMMA NoClaimYet ==
    ASSUME TypeOK, NEW o \in OrderIds, NEW v \in Users, NEW b \in Books, Create(o, v, b),
           NEW u \in Users
    PROVE  OrderClaims(u)' = OrderClaims(u)
<1> DEFINE f == [x \in HeldOf(u) |-> orders[x].amount]
           g == [x \in HeldOf(u)' |-> orders'[x].amount]
<1>1. /\ o \notin DOMAIN orders
      /\ DOMAIN orders' = DOMAIN orders \cup {o}
      /\ \A x \in DOMAIN orders : orders'[x] = orders[x]
      /\ orders'[o].escrow = "none"
    BY CreateUpdates
<1>2. HeldOf(u)' = HeldOf(u) /\ HeldOf(u) \subseteq DOMAIN orders
    BY <1>1 DEF HeldOf
<1>3. f = g
    BY <1>1, <1>2
<1> QED BY <1>3 DEF OrderClaims

\* A withdrawal that was asked for is a claim until it is paid out.
LEMMA WithdrawalsMove ==
    ASSUME TypeOK, FiniteClaims, NEW u \in Users
    PROVE  /\ \A v \in Users, w \in WithdrawIds, a \in WithdrawAmounts : Withdraw(v, w, a) =>
                WithdrawalClaims(u)' = WithdrawalClaims(u) + (IF u = v THEN a ELSE 0)
           /\ \A w \in WithdrawIds : SettleWithdraw(w) =>
                WithdrawalClaims(u)' = WithdrawalClaims(u) -
                  (IF u = withdrawals[w].user THEN withdrawals[w].amount ELSE 0)
<1> DEFINE S == PendingOf(u)
           T == PendingOf(u)'
           f == [x \in S |-> withdrawals[x].amount]
           g == [x \in T |-> withdrawals'[x].amount]
<1>1. WithdrawalClaims(u) = SumFunction(f) /\ WithdrawalClaims(u)' = SumFunction(g)
    BY DEF WithdrawalClaims
<1>2. /\ S \subseteq DOMAIN withdrawals /\ IsFiniteSet(S)
      /\ DOMAIN f = S /\ DOMAIN g = T
      /\ \A x \in DOMAIN withdrawals : withdrawals[x].amount \in Int
      /\ \A x \in S : f[x] \in Int
  <2>1. /\ S \subseteq DOMAIN withdrawals
        /\ \A x \in DOMAIN withdrawals : withdrawals[x].amount \in Int
    BY DEF PendingOf, TypeOK, WalletTypeOK
  <2> QED BY <2>1, FS_Subset DEF FiniteClaims
<1>3. SumFunction(f) \in Int
  <2> HIDE DEF f, S
  <2> QED BY <1>2, SumType
<1>4. ASSUME NEW v \in Users, NEW w \in WithdrawIds, NEW a \in WithdrawAmounts,
             Withdraw(v, w, a)
      PROVE  SumFunction(g) = SumFunction(f) + (IF u = v THEN a ELSE 0)
  <2>1. /\ w \notin DOMAIN withdrawals /\ a \in Int
        /\ DOMAIN withdrawals' = DOMAIN withdrawals \cup {w}
        /\ \A x \in DOMAIN withdrawals : withdrawals'[x] = withdrawals[x]
        /\ withdrawals'[w] = [user |-> v, amount |-> a, status |-> "pending"]
    BY <1>4, AmountsAssumption DEF Withdraw
  <2>2. CASE u = v
    <3>1. T = S \cup {w} /\ w \notin S
      BY <2>1, <2>2 DEF PendingOf
    <3>2. g[w] = a /\ g[w] \in Int /\ \A x \in S : g[x] = f[x]
      BY <1>2, <2>1, <3>1
    <3>3. DOMAIN g = DOMAIN f \cup {w} /\ w \notin DOMAIN f
      BY <1>2, <3>1
    <3>4. SumFunction(g) = SumFunction(f) + g[w]
      <4>1. IsFiniteSet(DOMAIN f) /\ \A x \in DOMAIN f : f[x] \in Int /\ g[x] = f[x]
        BY <1>2, <3>2
      <4> HIDE DEF f, g, S, T
      <4> QED BY <3>2, <3>3, <4>1, SumGrows
    <3> QED BY <2>2, <3>2, <3>4
  <2>3. CASE u # v
    <3>1. T = S
      BY <2>1, <2>3 DEF PendingOf
    <3>2. g = f
      BY <1>2, <2>1, <3>1
    <3> QED BY <1>3, <2>3, <3>2
  <2> QED BY <2>2, <2>3
<1>5. ASSUME NEW w \in WithdrawIds, SettleWithdraw(w)
      PROVE  SumFunction(g) = SumFunction(f) -
               (IF u = withdrawals[w].user THEN withdrawals[w].amount ELSE 0)
  <2>1. /\ w \in DOMAIN withdrawals /\ withdrawals[w].status = "pending"
        /\ DOMAIN withdrawals' = DOMAIN withdrawals
        /\ withdrawals'[w].status = "paid"
        /\ \A x \in DOMAIN withdrawals \ {w} : withdrawals'[x] = withdrawals[x]
    BY <1>5 DEF SettleWithdraw, TypeOK, WalletTypeOK
  <2>2. CASE u = withdrawals[w].user
    <3>1. S = T \cup {w} /\ w \notin T /\ T = S \ {w}
      BY <2>1, <2>2 DEF PendingOf
    <3>2. f[w] = withdrawals[w].amount /\ \A x \in T : g[x] = f[x]
      BY <1>2, <2>1, <3>1
    <3>3. IsFiniteSet(T)
      <4> HIDE DEF S, T
      <4> QED BY <1>2, <3>1, FS_Subset
    <3>4. (\A x \in T : g[x] \in Int) /\ f[w] \in Int
      BY <1>2, <3>1, <3>2
    <3>5. SumFunction(f) = SumFunction(g) + f[w] /\ SumFunction(g) \in Int
      <4> HIDE DEF f, g, S, T
      <4> QED BY <1>2, <3>1, <3>2, <3>3, <3>4, SumGrows, SumType
    <3> QED BY <2>2, <3>2, <3>4, <3>5
  <2>3. CASE u # withdrawals[w].user
    <3>1. T = S
      BY <2>1, <2>3 DEF PendingOf
    <3>2. w \notin S
      BY <2>3 DEF PendingOf
    <3>3. g = f
      BY <1>2, <2>1, <3>1, <3>2
    <3> QED BY <1>3, <2>3, <3>3
  <2> QED BY <2>2, <2>3
<1> QED BY <1>1, <1>4, <1>5
\* The price of an order has left the buyer's balance under its key exactly if the
\* escrow has it, or had it.
PaidUnderKey ==
    \A o \in OrderIds :
        Posted(wallet, <<"pay:balance", o>>) <=>
            o \in DOMAIN orders /\ orders[o].escrow # "none"

\* What a handler that settles an order finds: the money is held, and nothing about
\* its settlement is posted.
LEMMA SettledFromHeld ==
    ASSUME TypeOK, EscrowFollowsStatus, \A x \in OrderIds : Story(x),
           NEW o, NEW to \in ReleasedStatuses \cup RefundedStatuses,
           NEW escrow, NEW countdown, Transition(o, to, escrow, countdown)
    PROVE  /\ orders[o].escrow = "held"
           /\ \A stage \in SettleStages : ~Posted(wallet, <<stage, o>>)
<1>1. o \in DOMAIN orders /\ CanTransition(orders[o].status, to)
    BY DEF Transition
<1>2. orders[o].escrow = "held"
  <2>1. orders[o].status \in {"shipped", "refund_requested", "return_requested", "disputed"}
    BY <1>1 DEF CanTransition, Transitions, ReleasedStatuses, RefundedStatuses
  <2> QED
    BY <1>1, <2>1
    DEF EscrowFollowsStatus, EscrowOf, UnpaidStatuses, ReleasedStatuses, RefundedStatuses
<1>3. to \in Statuses /\ o \in OrderIds
    BY <1>1, OrderFields, StatusSets DEF ReleasedStatuses, RefundedStatuses
<1> QED
    BY <1>2, <1>3, HandlerStatuses, UnsettledStory

LEMMA PaidKeyStep ==
    TypeOK /\ EscrowFollowsStatus /\ (\A o \in OrderIds : Story(o)) /\ PaidUnderKey
      /\ [Next]_vars => PaidUnderKey'
<1> SUFFICES ASSUME TypeOK, EscrowFollowsStatus, \A o \in OrderIds : Story(o),
                    PaidUnderKey, [Next]_vars
             PROVE  PaidUnderKey'
    OBVIOUS
<1> DEFINE Key(x) == <<"pay:balance", x>>
<1>1. ASSUME NEW o \in OrderIds, NEW u \in Users, NEW b \in Books, Create(o, u, b)
      PROVE  PaidUnderKey'
  <2>1. /\ o \notin DOMAIN orders
        /\ DOMAIN orders' = DOMAIN orders \cup {o}
        /\ \A x \in DOMAIN orders : orders'[x] = orders[x]
        /\ orders'[o].escrow = "none"
    BY <1>1, CreateUpdates
  <2>2. UNCHANGED wallet
    BY <1>1 DEF Create, walletVars
  <2> QED
    BY <2>1, <2>2 DEF PaidUnderKey
<1>2. ASSUME NEW o, OnlyOrder(o),
             orders'[o].escrow = "none" <=> orders[o].escrow = "none",
             \A x \in OrderIds : Posted(wallet', Key(x)) <=> Posted(wallet, Key(x))
      PROVE  PaidUnderKey'
    BY <1>2 DEF PaidUnderKey, OnlyOrder
<1>3. ASSUME NEW o \in OrderIds, Pay(o) PROVE PaidUnderKey'
  <2>1. OnlyOrder(o) /\ orders'[o].escrow = "held"
    BY <1>3, TransitionUpdates DEF Pay
  <2>2. wallet' = HoldOutcome(o).wallet
    BY <1>3 DEF Pay, Commit
  <2>3. \A x : Posted(wallet', Key(x)) <=> Posted(wallet, Key(x)) \/ x = o
    BY <2>2, HoldPosts
  <2> QED
    BY <2>1, <2>3 DEF PaidUnderKey, OnlyOrder
<1>4. ASSUME NEW o \in OrderIds,
             \/ Ship(o) \/ Cancel(o) \/ RequestRefund(o) \/ RequestReturn(o)
             \/ RejectRefund(o) \/ Dispute(o)
      PROVE  PaidUnderKey'
  <2>1. PICK to, countdown : Transition(o, to, orders[o].escrow, countdown)
    BY <1>4 DEF Ship, Cancel, RequestRefund, RequestReturn, RejectRefund, Dispute
  <2>2. UNCHANGED wallet
    BY <1>4 DEF Ship, Cancel, RequestRefund, RequestReturn, RejectRefund, Dispute,
                walletVars
  <2> QED
    BY <1>2, <2>1, <2>2, TransitionUpdates
<1>5. ASSUME NEW o \in OrderIds,
             ConfirmEffect(o) \/ ArbitrateRelease(o) \/ AgreeRefund(o) \/ ArbitrateRefund(o)
      PROVE  PaidUnderKey'
  <2>1. PICK to, escrow, countdown :
          /\ to \in ReleasedStatuses \cup RefundedStatuses
          /\ escrow \in {"released", "refunded"}
          /\ Transition(o, to, escrow, countdown)
    BY <1>5 DEF ConfirmEffect, ArbitrateRelease, AgreeRefund, ArbitrateRefund,
                ReleasedStatuses, RefundedStatuses
  <2>2. wallet' = ReleaseOutcome(o).wallet \/ wallet' = RefundOutcome(o).wallet
    BY <1>5 DEF ConfirmEffect, ArbitrateRelease, AgreeRefund, ArbitrateRefund, Commit
  <2>3. \A x : Posted(wallet', Key(x)) <=> Posted(wallet, Key(x))
    BY <2>2, ReleasePosts, RefundPosts
  <2>4. orders[o].escrow = "held" /\ OnlyOrder(o) /\ orders'[o].escrow = escrow
    BY <2>1, SettledFromHeld, TransitionUpdates
  <2> QED
    BY <1>2, <2>1, <2>3, <2>4
<1>6. ASSUME NEW o \in OrderIds, Elapse(o) PROVE PaidUnderKey'
  <2>1. UNCHANGED wallet
    BY <1>6 DEF Elapse, walletVars
  <2> QED
    BY <1>2, <1>6, <2>1, ElapseUpdates
<1>7. CASE UNCHANGED orders /\ (WalletNext \/ UNCHANGED walletVars)
  <2>1. \A x : Posted(wallet', Key(x)) <=> Posted(wallet, Key(x))
    BY <1>7, WalletStepPosts DEF OrderStages, walletVars
  <2> QED
    BY <1>7, <2>1 DEF PaidUnderKey
<1> QED
    BY <1>1, <1>3, <1>4, <1>5, <1>6, <1>7, OrdersStep

\* Both sums of a user's claims are numbers.
LEMMA ClaimsType ==
    ASSUME TypeOK, FiniteClaims, NEW u \in Users
    PROVE  OrderClaims(u) \in Int /\ WithdrawalClaims(u) \in Int
<1> DEFINE f == [o \in HeldOf(u) |-> orders[o].amount]
           g == [w \in PendingOf(u) |-> withdrawals[w].amount]
<1>1. HeldOf(u) \subseteq DOMAIN orders /\ PendingOf(u) \subseteq DOMAIN withdrawals
    BY DEF HeldOf, PendingOf
<1>2. /\ \A o \in HeldOf(u) : orders[o].amount \in Int
      /\ \A w \in PendingOf(u) : withdrawals[w].amount \in Int
    BY <1>1 DEF TypeOK, Orders, WalletTypeOK
<1>3. /\ IsFiniteSet(DOMAIN f) /\ \A o \in DOMAIN f : f[o] \in Int
      /\ IsFiniteSet(DOMAIN g) /\ \A w \in DOMAIN g : g[w] \in Int
    BY <1>1, <1>2, FS_Subset DEF FiniteClaims
<1>4. SumFunction(f) \in Int /\ SumFunction(g) \in Int
  <2> HIDE DEF f, g
  <2> QED BY <1>3, SumType
<1> QED BY <1>4 DEF OrderClaims, WithdrawalClaims

FrozenInv == FiniteClaims /\ FrozenCoversClaims

\* The sums depend on nothing but the rows.
LEMMA SameRows ==
    ASSUME NEW u
    PROVE  /\ UNCHANGED orders => OrderClaims(u)' = OrderClaims(u)
           /\ UNCHANGED withdrawals => WithdrawalClaims(u)' = WithdrawalClaims(u)
BY DEF OrderClaims, WithdrawalClaims, HeldOf, PendingOf

LEMMA FrozenStep ==
    TypeOK /\ EscrowFollowsStatus /\ (\A o \in OrderIds : Story(o)) /\ PairsInv
      /\ PaidUnderKey /\ CacheInv /\ FrozenInv /\ [Next]_vars => FrozenInv'
<1> SUFFICES ASSUME TypeOK, EscrowFollowsStatus, \A o \in OrderIds : Story(o), PairsInv,
                    PaidUnderKey, CacheInv, FrozenInv, [Next]_vars
             PROVE  FrozenInv'
    OBVIOUS
<1>1. Sound(wallet) /\ PaidInPairs /\ WithdrawalsPosted /\ FiniteClaims
    BY TypedIsSound DEF CacheInv, PairsInv, FrozenInv
<1>2. \A u \in Users :
        /\ u \in Holders /\ wallet.money[u]["frozen"] \in Int
        /\ OrderClaims(u) \in Int /\ WithdrawalClaims(u) \in Int
        /\ wallet.money[u]["frozen"] = OrderClaims(u) + WithdrawalClaims(u)
    BY <1>1, ClaimsType DEF FrozenInv, FrozenCoversClaims, OrderClaims, WithdrawalClaims,
       Holders, Sound, Accounts
<1>3. ASSUME IsFiniteSet(DOMAIN orders'), IsFiniteSet(DOMAIN withdrawals'),
             \A u \in Users : wallet'.money[u]["frozen"] =
                                OrderClaims(u)' + WithdrawalClaims(u)'
      PROVE  FrozenInv'
    BY <1>3 DEF FrozenInv, FiniteClaims, FrozenCoversClaims, OrderClaims, WithdrawalClaims
<1>4. ASSUME NEW o \in OrderIds, NEW v \in Users, NEW b \in Books, Create(o, v, b)
      PROVE  FrozenInv'
  <2>1. UNCHANGED <<wallet, withdrawals>>
    BY <1>4 DEF Create, walletVars
  <2>2. IsFiniteSet(DOMAIN orders')
    <3>1. DOMAIN orders' = DOMAIN orders \cup {o}
      BY <1>4, CreateUpdates
    <3> QED BY <1>1, <3>1, FS_AddElement DEF FiniteClaims
  <2> QED BY <1>1, <1>2, <1>3, <1>4, <2>1, <2>2, NoClaimYet, SameRows DEF FiniteClaims
<1>5. ASSUME NEW o, OnlyOrder(o), UNCHANGED withdrawals,
             \A u \in Users : wallet'.money[u]["frozen"] = wallet.money[u]["frozen"]
               + (IF u = orders[o].buyer /\ orders'[o].escrow = "held"
                  THEN orders[o].amount ELSE 0)
               - (IF u = orders[o].buyer /\ orders[o].escrow = "held"
                  THEN orders[o].amount ELSE 0)
      PROVE  FrozenInv'
  <2>1. DOMAIN orders' = DOMAIN orders /\ orders[o].amount \in Int
    BY <1>5 DEF OnlyOrder, TypeOK, Orders
  <2>2. ASSUME NEW u \in Users
        PROVE  wallet'.money[u]["frozen"] = OrderClaims(u)' + WithdrawalClaims(u)'
    <3>1. OrderClaims(u)' = OrderClaims(u)
            + (IF orders'[o].escrow = "held"
               THEN (IF u = orders[o].buyer THEN orders[o].amount ELSE 0) ELSE 0)
            - (IF orders[o].escrow = "held"
               THEN (IF u = orders[o].buyer THEN orders[o].amount ELSE 0) ELSE 0)
      BY <1>1, <1>5, ClaimsMove
    <3>2. WithdrawalClaims(u)' = WithdrawalClaims(u)
      BY <1>5, SameRows
    <3> QED BY <1>2, <1>5, <2>1, <3>1, <3>2
  <2> QED BY <1>1, <1>3, <1>5, <2>1, <2>2 DEF FiniteClaims
<1>6. ASSUME NEW o, OnlyOrder(o), orders'[o].escrow = orders[o].escrow,
             UNCHANGED walletVars
      PROVE  FrozenInv'
  <2>1. orders[o].amount \in Int /\ UNCHANGED <<wallet, withdrawals>>
    BY <1>6 DEF OnlyOrder, TypeOK, Orders, walletVars
  <2> QED BY <1>2, <1>5, <1>6, <2>1
<1>7. ASSUME NEW o \in OrderIds, Pay(o) PROVE FrozenInv'
  <2>1. /\ OnlyOrder(o) /\ orders'[o].escrow = "held"
        /\ CanTransition(orders[o].status, "paid") /\ o \in DOMAIN orders
        /\ wallet' = HoldOutcome(o).wallet /\ UNCHANGED withdrawals
        /\ orders[o].amount \in Int
    BY <1>7, TransitionUpdates DEF Pay, Commit, OnlyOrder, TypeOK, Orders
  <2>2. orders[o].escrow \in {"none", "held"}
    BY <2>1
    DEF EscrowFollowsStatus, EscrowOf, UnpaidStatuses, ReleasedStatuses, RefundedStatuses,
        CanTransition, Transitions
  <2>3. Posted(wallet, <<"pay:balance", o>>) <=> orders[o].escrow = "held"
    BY <2>1, <2>2 DEF PaidUnderKey
  <2>4. \A u \in Users : wallet'.money[u]["frozen"] = wallet.money[u]["frozen"] +
          (IF u = orders[o].buyer /\ ~Posted(wallet, <<"pay:balance", o>>)
           THEN orders[o].amount ELSE 0)
    BY <1>1, <1>2, <2>1, HoldMoney
  <2> QED BY <1>2, <1>5, <2>1, <2>3, <2>4
<1>8. ASSUME NEW o \in OrderIds,
             \/ ConfirmEffect(o) \/ ArbitrateRelease(o)
             \/ AgreeRefund(o) \/ ArbitrateRefund(o)
      PROVE  FrozenInv'
  <2>1. PICK to \in ReleasedStatuses \cup RefundedStatuses,
             escrow \in {"released", "refunded"}, countdown \in {"off", orders[o].countdown} :
          Transition(o, to, escrow, countdown)
    BY <1>8 DEF ConfirmEffect, ArbitrateRelease, AgreeRefund, ArbitrateRefund,
                ReleasedStatuses, RefundedStatuses
  <2>2. /\ OnlyOrder(o) /\ orders'[o].escrow # "held" /\ o \in DOMAIN orders
        /\ orders[o].escrow = "held" /\ orders[o].amount \in Int
        /\ \A stage \in SettleStages : ~Posted(wallet, <<stage, o>>)
    <3>1. OnlyOrder(o) /\ orders'[o].escrow = escrow
      BY <2>1, TransitionUpdates
    <3>2. /\ orders[o].escrow = "held"
          /\ \A stage \in SettleStages : ~Posted(wallet, <<stage, o>>)
      BY <2>1, SettledFromHeld
    <3>3. o \in DOMAIN orders /\ orders[o].amount \in Int
      BY <3>1 DEF OnlyOrder, TypeOK, Orders
    <3> QED BY <3>1, <3>2, <3>3
  <2>3. /\ wallet' = ReleaseOutcome(o).wallet \/ wallet' = RefundOutcome(o).wallet
        /\ UNCHANGED withdrawals
    BY <1>8 DEF ConfirmEffect, ArbitrateRelease, AgreeRefund, ArbitrateRefund, Commit
  <2>4. \A u \in Users : wallet'.money[u]["frozen"] = wallet.money[u]["frozen"] -
          (IF u = orders[o].buyer THEN orders[o].amount ELSE 0)
    BY <1>1, <1>2, <2>2, <2>3, ReleaseMoney, RefundMoney
  <2> QED BY <1>2, <1>5, <2>2, <2>3, <2>4
<1>9. ASSUME NEW o \in OrderIds,
             \/ Ship(o) \/ Cancel(o) \/ RequestRefund(o) \/ RequestReturn(o)
             \/ RejectRefund(o) \/ Dispute(o)
      PROVE  FrozenInv'
  <2>1. PICK to, countdown : Transition(o, to, orders[o].escrow, countdown)
    BY <1>9 DEF Ship, Cancel, RequestRefund, RequestReturn, RejectRefund, Dispute
  <2>2. UNCHANGED walletVars
    BY <1>9 DEF Ship, Cancel, RequestRefund, RequestReturn, RejectRefund, Dispute
  <2> QED BY <1>6, <2>1, <2>2, TransitionUpdates
<1>10. ASSUME NEW o \in OrderIds, Elapse(o) PROVE FrozenInv'
  <2>1. UNCHANGED walletVars
    BY <1>10 DEF Elapse
  <2> QED BY <1>6, <1>10, <2>1, ElapseUpdates
<1>11. ASSUME UNCHANGED orders, WalletNext PROVE FrozenInv'
  <2>1. ASSUME NEW u \in Users, NEW t \in TopUps, NEW a \in RechargeAmounts, Recharge(u, t, a)
        PROVE  FrozenInv'
    <3>1. UNCHANGED withdrawals
      BY <2>1 DEF Recharge
    <3>2. \A v \in Users : wallet'.money[v]["frozen"] = wallet.money[v]["frozen"]
      BY <1>1, <1>2, <2>1, WalletMoney
    <3> QED BY <1>1, <1>2, <1>3, <1>11, <3>1, <3>2, SameRows DEF FiniteClaims
  <2>2. ASSUME NEW u \in Users, NEW w \in WithdrawIds, NEW a \in WithdrawAmounts,
               Withdraw(u, w, a)
        PROVE  FrozenInv'
    <3>1. IsFiniteSet(DOMAIN withdrawals') /\ a \in Int
      <4>1. DOMAIN withdrawals' = DOMAIN withdrawals \cup {w}
        BY <2>2 DEF Withdraw
      <4> QED BY <1>1, <4>1, AmountsAssumption, FS_AddElement DEF FiniteClaims
    <3>2. ASSUME NEW v \in Users
          PROVE  wallet'.money[v]["frozen"] = OrderClaims(v)' + WithdrawalClaims(v)'
      <4>1. wallet'.money[v]["frozen"] =
              wallet.money[v]["frozen"] + (IF v = u THEN a ELSE 0)
        BY <1>1, <1>2, <2>2, WalletMoney
      <4>2. WithdrawalClaims(v)' = WithdrawalClaims(v) + (IF v = u THEN a ELSE 0)
        BY <1>1, <2>2, WithdrawalsMove
      <4>3. OrderClaims(v)' = OrderClaims(v)
        BY <1>11, SameRows
      <4> QED BY <1>2, <3>1, <4>1, <4>2, <4>3
    <3> QED BY <1>1, <1>3, <1>11, <3>1, <3>2 DEF FiniteClaims
  <2>3. ASSUME NEW w \in WithdrawIds, SettleWithdraw(w) PROVE FrozenInv'
    <3>1. DOMAIN withdrawals' = DOMAIN withdrawals /\ withdrawals[w].amount \in Int
      BY <2>3 DEF SettleWithdraw, TypeOK, WalletTypeOK
    <3>2. ASSUME NEW v \in Users
          PROVE  wallet'.money[v]["frozen"] = OrderClaims(v)' + WithdrawalClaims(v)'
      <4> DEFINE paid == IF v = withdrawals[w].user THEN withdrawals[w].amount ELSE 0
      <4>1. wallet'.money[v]["frozen"] = wallet.money[v]["frozen"] - paid
        BY <1>1, <1>2, <2>3, WalletMoney
      <4>2. WithdrawalClaims(v)' = WithdrawalClaims(v) - paid
        BY <1>1, <2>3, WithdrawalsMove
      <4>3. OrderClaims(v)' = OrderClaims(v) /\ paid \in Int
        BY <1>11, <3>1, SameRows
      <4> HIDE DEF paid
      <4> QED BY <1>2, <4>1, <4>2, <4>3
    <3> QED BY <1>1, <1>3, <1>11, <3>1, <3>2 DEF FiniteClaims
  <2> QED BY <1>11, <2>1, <2>2, <2>3 DEF WalletNext
<1>12. ASSUME UNCHANGED orders, UNCHANGED walletVars PROVE FrozenInv'
  <2>1. UNCHANGED <<wallet, withdrawals>>
    BY <1>12 DEF walletVars
  <2> QED BY <1>1, <1>2, <1>3, <1>12, <2>1, SameRows DEF FiniteClaims
<1> QED BY <1>4, <1>7, <1>8, <1>9, <1>10, <1>11, <1>12, OrdersStep

LEMMA ClaimsInit == Init => PaidUnderKey /\ FrozenInv
<1> SUFFICES ASSUME Init PROVE PaidUnderKey /\ FrozenInv
    OBVIOUS
<1>1. /\ wallet.ledger = {} /\ DOMAIN withdrawals = {} /\ DOMAIN orders = {}
      /\ \A u \in Users : wallet.money[u]["frozen"] = 0
    BY DEF Init, WalletInit, Holders, Accounts
<1>2. PaidUnderKey
    BY <1>1 DEF PaidUnderKey, Posted
<1>3. FiniteClaims
    BY <1>1, FS_EmptySet DEF FiniteClaims
<1>4. ASSUME NEW u \in Users PROVE OrderClaims(u) = 0 /\ WithdrawalClaims(u) = 0
  <2> DEFINE f == [o \in HeldOf(u) |-> orders[o].amount]
             g == [w \in PendingOf(u) |-> withdrawals[w].amount]
  <2>1. DOMAIN f = {} /\ DOMAIN g = {}
    BY <1>1 DEF HeldOf, PendingOf
  <2>2. SumFunction(f) = 0 /\ SumFunction(g) = 0
    <3> HIDE DEF f, g
    <3> QED BY <2>1, SumOfNone
  <2> QED BY <2>2 DEF OrderClaims, WithdrawalClaims
<1>5. \A u \in Users :
         wallet.money[u]["frozen"] = OrderClaims(u) + WithdrawalClaims(u)
    BY <1>1, <1>4
<1>6. FrozenCoversClaims
    BY <1>5 DEF FrozenCoversClaims, OrderClaims, WithdrawalClaims
<1> QED BY <1>2, <1>3, <1>6 DEF FrozenInv

\* What the ledger's invariants add up to, as long as sellers reject only refunds that
\* were asked for.
LedgerInv ==
    /\ \A o \in OrderIds : Story(o)
    /\ PairsInv
    /\ CacheInv
    /\ PaidUnderKey
    /\ FrozenInv

LEMMA LedgerInvariant == ASSUME UiOnly PROVE Spec => [](TypeOK /\ EscrowFollowsStatus /\ LedgerInv)
<1> DEFINE Stories == \A o \in OrderIds : Story(o)
<1>1. Init => Stories
    BY DEF Init, WalletInit, Story, Posted, InStatus
<1>2. TypeOK /\ Stories /\ [Next]_vars => Stories'
    BY StoryStep
<1>3. TypeOK /\ EscrowFollowsStatus /\ Stories /\ PaidUnderKey /\ [Next]_vars => PaidUnderKey'
    BY PaidKeyStep
<1>4. TypeOK /\ EscrowFollowsStatus /\ Stories /\ PairsInv /\ PaidUnderKey /\ CacheInv
        /\ FrozenInv /\ [Next]_vars => FrozenInv'
    BY FrozenStep
<1>5. LedgerInv <=> Stories /\ PairsInv /\ CacheInv /\ PaidUnderKey /\ FrozenInv
    BY DEF LedgerInv
<1>6. Spec => []EscrowFollowsStatus
    BY FundsFollowStatus
<1> HIDE DEF Stories
<1> QED
    BY <1>1, <1>2, <1>3, <1>4, <1>5, <1>6, MoneyInit, PairsStep, CacheInit, CacheStep,
       ClaimsInit, TypeCorrect, PTL DEF Spec

\* A buyer's frozen money is exactly the price of his orders in escrow and his pending
\* withdrawals, so each of them can be settled and none with money frozen for another
\* (escrow.service.js, wallet.service.js), as long as sellers reject only refunds that
\* were asked for.
THEOREM FrozenMoneyIsClaimed == ASSUME UiOnly PROVE Spec => []FrozenCoversClaims
<1>1. LedgerInv => FrozenCoversClaims
    BY DEF LedgerInv, FrozenInv
<1> QED BY <1>1, LedgerInvariant, PTL
-----------------------------------------------------------------------------
(* The orders and the wallet implement the escrow's promise *)

\* What the refinement mapping makes of the state.
DealsOf == [o \in DOMAIN orders |->
              [buyer |-> orders[o].buyer, seller |-> orders[o].seller,
               price |-> orders[o].amount, fee |-> orders[o].fee]]
StageOf == [o \in DOMAIN orders |-> orders[o].escrow]
SpendableOf == [h \in Holders |-> wallet.money[h]["balance"]]

LEMMA MappedOrders ==
    ASSUME NEW o, OnlyOrder(o)
    PROVE  /\ o \in DOMAIN StageOf
           /\ StageOf' = [StageOf EXCEPT ![o] = orders'[o].escrow]
           /\ DealsOf' = DealsOf
<1>1. StageOf' = [StageOf EXCEPT ![o] = orders'[o].escrow]
    BY DEF OnlyOrder, StageOf
<1>2. ASSUME NEW x \in DOMAIN orders PROVE DealsOf'[x] = DealsOf[x]
    BY <1>2 DEF OnlyOrder, SameDeal, DealsOf
<1>3. DealsOf' = DealsOf
    BY <1>2 DEF OnlyOrder, DealsOf
<1> QED
    BY <1>1, <1>3 DEF StageOf, OnlyOrder

\* A fee is less than its price.
LEMMA FeeBelowPrice ==
    ASSUME NEW p \in Nat \ {0} PROVE ServiceFee(p) \in Nat /\ ServiceFee(p) < p
<1>1. p * FeeBps \in Nat /\ p * FeeBps <= p * 2000
    BY FeeAssumption
<1>2. \A n \in Nat : n <= p * 2000 => n \div 10000 < p
    OBVIOUS
<1> QED
    BY <1>1, <1>2 DEF ServiceFee

\* Opening an order is opening a deal.
LEMMA CreateOpens ==
    ASSUME TypeOK, NEW o \in OrderIds, NEW u \in Users, NEW b \in Books, Create(o, u, b)
    PROVE  Promise!Open(o)
<1>1. /\ o \notin DOMAIN orders
      /\ DOMAIN orders' = DOMAIN orders \cup {o}
      /\ \A x \in DOMAIN orders : orders'[x] = orders[x]
      /\ orders'[o] =
           [status |-> "pending_payment", escrow |-> "none",
            countdown |-> "off", book |-> b, buyer |-> u,
            seller |-> SellerOf[b], amount |-> Price[b],
            fee |-> ServiceFee(Price[b])]
    BY CreateUpdates
<1>2. DealsOf'[o] = [buyer |-> u, seller |-> SellerOf[b], price |-> Price[b],
                     fee |-> ServiceFee(Price[b])]
    BY <1>1 DEF DealsOf
<1>3. /\ Price[b] \in Nat \ {0} /\ SellerOf[b] \in Users /\ SellerOf[b] # u
      /\ ServiceFee(Price[b]) \in Nat /\ ServiceFee(Price[b]) < Price[b]
    BY PriceAssumption, SellerAssumption, FeeBelowPrice DEF Create
<1>4. /\ DealsOf'[o] \in Promise!Deals
      /\ DealsOf'[o].buyer # DealsOf'[o].seller
      /\ DealsOf'[o].fee < DealsOf'[o].price
    BY <1>2, <1>3 DEF Promise!Deals
<1>5. /\ o \notin DOMAIN DealsOf
      /\ DOMAIN DealsOf' = DOMAIN DealsOf \cup {o}
      /\ \A x \in DOMAIN DealsOf : DealsOf'[x] = DealsOf[x]
    BY <1>1 DEF DealsOf
<1>6. StageOf' = [x \in DOMAIN DealsOf' |-> IF x = o THEN "none" ELSE StageOf[x]]
    BY <1>1 DEF StageOf, DealsOf
<1>7. SpendableOf' = SpendableOf
    BY DEF Create, walletVars, SpendableOf
<1> QED
    BY <1>4, <1>5, <1>6, <1>7 DEF Promise!Open, DealsOf, StageOf, SpendableOf

\* Paying holds the price, or changes nothing of the promise if it was paid before.
LEMMA PayHolds ==
    ASSUME TypeOK, TypeOK', Sound(wallet), PaidInPairs, PaidUnderKey, EscrowFollowsStatus,
           NEW o \in OrderIds, Pay(o)
    PROVE  Promise!Hold(o) \/ UNCHANGED Promise!promiseVars
<1>1. /\ OnlyOrder(o) /\ orders'[o].escrow = "held"
      /\ CanTransition(orders[o].status, "paid")
      /\ wallet' = HoldOutcome(o).wallet
      /\ o \in DOMAIN orders
    BY TransitionUpdates DEF Pay, Commit, OnlyOrder
<1>2. /\ o \in DOMAIN StageOf
      /\ StageOf' = [StageOf EXCEPT ![o] = "held"]
      /\ DealsOf' = DealsOf
    BY <1>1, MappedOrders
<1>3. \A h \in Holders :
        /\ wallet.money[h]["balance"] \in Nat
        /\ wallet'.money[h]["balance"] \in Nat
        /\ wallet'.money[h]["balance"] =
             wallet.money[h]["balance"] -
               (IF h = orders[o].buyer /\ ~Posted(wallet, <<"pay:balance", o>>)
                THEN orders[o].amount ELSE 0)
    BY <1>1, HoldMoney DEF TypeOK, WalletTypeOK, WalletStates, Accounts
<1>4. orders[o].buyer \in Holders /\ orders[o].amount \in Nat
    BY <1>1 DEF TypeOK, Orders, Holders
<1>5. orders[o].escrow \in {"none", "held"}
    BY <1>1
    DEF EscrowFollowsStatus, EscrowOf, UnpaidStatuses, ReleasedStatuses, RefundedStatuses,
        CanTransition, Transitions
<1>6. CASE orders[o].escrow = "none"
  <2>1. ~Posted(wallet, <<"pay:balance", o>>)
    BY <1>6 DEF PaidUnderKey
  <2>2. StageOf[o] = "none" /\ DealsOf[o].buyer = orders[o].buyer
        /\ DealsOf[o].price = orders[o].amount
    BY <1>1, <1>6 DEF StageOf, DealsOf
  <2>3. SpendableOf[orders[o].buyer] >= orders[o].amount
    BY <1>3, <1>4, <2>1 DEF SpendableOf
  <2>4. SpendableOf' = [SpendableOf EXCEPT ![orders[o].buyer] = @ - orders[o].amount]
    BY <1>3, <1>4, <2>1 DEF SpendableOf
  <2> QED
    BY <1>2, <2>2, <2>3, <2>4
    DEF Promise!Hold, Promise!Move, StageOf, DealsOf, SpendableOf
<1>7. CASE orders[o].escrow = "held"
  <2>1. Posted(wallet, <<"pay:balance", o>>)
    BY <1>1, <1>7 DEF PaidUnderKey
  <2>2. SpendableOf' = SpendableOf
    BY <1>3, <2>1 DEF SpendableOf
  <2>3. StageOf' = StageOf
    BY <1>1, <1>2, <1>7 DEF StageOf
  <2> QED
    BY <1>2, <2>2, <2>3 DEF Promise!promiseVars, StageOf, DealsOf, SpendableOf
<1> QED
    BY <1>5, <1>6, <1>7

\* Confirming and arbitrating for the seller pay out.
LEMMA ReleasePaysOut ==
    ASSUME TypeOK, Sound(wallet), EscrowFollowsStatus, \A x \in OrderIds : Story(x),
           NEW o \in OrderIds, ConfirmEffect(o) \/ ArbitrateRelease(o)
    PROVE  Promise!PayOut(o)
<1>1. PICK to \in ReleasedStatuses :
        /\ Transition(o, to, "released", "off")
        /\ wallet' = ReleaseOutcome(o).wallet
    BY DEF ConfirmEffect, ArbitrateRelease, Commit, ReleasedStatuses
<1>2. /\ OnlyOrder(o) /\ orders'[o].escrow = "released"
      /\ o \in DOMAIN orders
      /\ orders[o].escrow = "held"
      /\ \A stage \in SettleStages : ~Posted(wallet, <<stage, o>>)
    BY <1>1, TransitionUpdates, SettledFromHeld DEF OnlyOrder
<1>3. /\ o \in DOMAIN StageOf /\ StageOf[o] = "held"
      /\ StageOf' = [StageOf EXCEPT ![o] = "released"]
      /\ DealsOf' = DealsOf
      /\ DealsOf[o].seller = orders[o].seller
      /\ DealsOf[o].price = orders[o].amount
      /\ DealsOf[o].fee = orders[o].fee
    BY <1>2, MappedOrders DEF StageOf, DealsOf
<1>4. /\ orders[o].seller \in Holders /\ Platform \in Holders
      /\ orders[o].seller # Platform
      /\ orders[o].fee \in Int /\ orders[o].amount \in Int
    BY <1>2, PlatformAssumption DEF TypeOK, Orders, Holders
<1>5. \A h \in Holders :
        /\ wallet.money[h]["balance"] \in Int
        /\ wallet'.money[h]["balance"] =
             wallet.money[h]["balance"] +
               (IF h = orders[o].seller THEN orders[o].amount - orders[o].fee ELSE 0) +
               (IF h = Platform THEN orders[o].fee ELSE 0)
    BY <1>1, <1>2, ReleaseMoney DEF TypeOK, WalletTypeOK, WalletStates, Accounts, Income
<1>6. SpendableOf' =
        [SpendableOf EXCEPT ![orders[o].seller] = @ + (orders[o].amount - orders[o].fee),
                            ![Platform] = @ + orders[o].fee]
    BY <1>4, <1>5 DEF SpendableOf
<1> QED
    BY <1>3, <1>6 DEF Promise!PayOut, Promise!Move, StageOf, DealsOf, SpendableOf

\* Agreeing to a refund and arbitrating for the buyer give back.
LEMMA RefundGivesBack ==
    ASSUME TypeOK, Sound(wallet), EscrowFollowsStatus, \A x \in OrderIds : Story(x),
           NEW o \in OrderIds, AgreeRefund(o) \/ ArbitrateRefund(o)
    PROVE  Promise!GiveBack(o)
<1>1. PICK to, countdown :
        /\ to \in RefundedStatuses
        /\ Transition(o, to, "refunded", countdown)
        /\ wallet' = RefundOutcome(o).wallet
    BY DEF AgreeRefund, ArbitrateRefund, Commit, RefundedStatuses
<1>2. /\ OnlyOrder(o) /\ orders'[o].escrow = "refunded"
      /\ o \in DOMAIN orders
      /\ orders[o].escrow = "held"
      /\ \A stage \in SettleStages : ~Posted(wallet, <<stage, o>>)
    BY <1>1, TransitionUpdates, SettledFromHeld DEF OnlyOrder
<1>3. /\ o \in DOMAIN StageOf /\ StageOf[o] = "held"
      /\ StageOf' = [StageOf EXCEPT ![o] = "refunded"]
      /\ DealsOf' = DealsOf
      /\ DealsOf[o].buyer = orders[o].buyer
      /\ DealsOf[o].price = orders[o].amount
    BY <1>2, MappedOrders DEF StageOf, DealsOf
<1>4. orders[o].buyer \in Holders /\ orders[o].amount \in Int
    BY <1>2 DEF TypeOK, Orders, Holders
<1>5. \A h \in Holders :
        /\ wallet.money[h]["balance"] \in Int
        /\ wallet'.money[h]["balance"] =
             wallet.money[h]["balance"] +
               (IF h = orders[o].buyer THEN orders[o].amount ELSE 0)
    BY <1>1, <1>2, RefundMoney DEF TypeOK, WalletTypeOK, WalletStates, Accounts
<1>6. SpendableOf' = [SpendableOf EXCEPT ![orders[o].buyer] = @ + orders[o].amount]
    BY <1>4, <1>5 DEF SpendableOf
<1> QED
    BY <1>3, <1>6 DEF Promise!GiveBack, Promise!Move, StageOf, DealsOf, SpendableOf

\* Recharges and withdrawals are deposits and withdrawals, or none.
LEMMA WalletStepDeposits ==
    ASSUME TypeOK, TypeOK', Sound(wallet), WithdrawalsPosted, WalletNext, UNCHANGED orders
    PROVE  \/ \E u \in Users : Promise!Deposit(u) \/ Promise!Withdraw(u)
           \/ UNCHANGED Promise!promiseVars
<1>1. PICK u \in Users : \A h \in Holders : h # u =>
         wallet'.money[h]["balance"] = wallet.money[h]["balance"]
  <2>1. \A w \in WithdrawIds : SettleWithdraw(w) => withdrawals[w].user \in Users
    BY WalletRecords
  <2> QED BY <2>1, WalletMoney DEF WalletNext
<1>2. u \in Holders /\ \A h \in Holders : /\ wallet.money[h]["balance"] \in Nat
                                          /\ wallet'.money[h]["balance"] \in Nat
    BY DEF Holders, Accounts, TypeOK, WalletTypeOK, WalletStates
<1>3. /\ SpendableOf' = [SpendableOf EXCEPT ![u] = SpendableOf'[u]]
      /\ SpendableOf[u] \in Nat /\ SpendableOf'[u] \in Nat
    BY <1>1, <1>2 DEF SpendableOf
<1>4. DealsOf' = DealsOf /\ StageOf' = StageOf
    BY DEF DealsOf, StageOf
<1>5. CASE SpendableOf'[u] > SpendableOf[u]
    BY <1>3, <1>4, <1>5 DEF Promise!Deposit, DealsOf, StageOf, SpendableOf
<1>6. CASE SpendableOf'[u] < SpendableOf[u]
  <2>1. SpendableOf'[u] \in 0..(SpendableOf[u] - 1)
    BY <1>3, <1>6
  <2> QED
    BY <1>3, <1>4, <2>1 DEF Promise!Withdraw, DealsOf, StageOf, SpendableOf
<1>7. CASE SpendableOf'[u] = SpendableOf[u]
  <2>1. SpendableOf' = SpendableOf
    BY <1>3, <1>7 DEF SpendableOf
  <2> QED
    BY <1>4, <2>1 DEF Promise!promiseVars, DealsOf, StageOf, SpendableOf
<1> QED
    BY <1>3, <1>5, <1>6, <1>7

\* The other steps are none of the escrow's.
LEMMA OthersStutter ==
    ASSUME NEW o, OnlyOrder(o), orders'[o].escrow = orders[o].escrow, UNCHANGED wallet
    PROVE  UNCHANGED Promise!promiseVars
<1>1. StageOf' = StageOf
    BY MappedOrders DEF OnlyOrder, StageOf
<1>2. SpendableOf' = SpendableOf
    BY DEF SpendableOf
<1> QED
    BY <1>1, <1>2, MappedOrders DEF Promise!promiseVars, DealsOf, StageOf, SpendableOf

LEMMA PromiseStep ==
    TypeOK /\ TypeOK' /\ EscrowFollowsStatus /\ LedgerInv /\ [Next]_vars
      => [Promise!Next]_(Promise!promiseVars)
<1> SUFFICES ASSUME TypeOK, TypeOK', EscrowFollowsStatus, LedgerInv, [Next]_vars
             PROVE  Promise!Next \/ UNCHANGED Promise!promiseVars
    OBVIOUS
<1>0. /\ Sound(wallet) /\ PaidInPairs /\ WithdrawalsPosted /\ PaidUnderKey
      /\ \A o \in OrderIds : Story(o)
    BY TypedIsSound DEF LedgerInv, CacheInv, PairsInv
<1>1. ASSUME NEW o \in OrderIds, NEW u \in Users, NEW b \in Books, Create(o, u, b)
      PROVE  Promise!Next
    BY <1>1, CreateOpens DEF Promise!Next
<1>2. ASSUME NEW o \in OrderIds, Pay(o)
      PROVE  Promise!Next \/ UNCHANGED Promise!promiseVars
    BY <1>0, <1>2, PayHolds DEF Promise!Next
<1>3. ASSUME NEW o \in OrderIds, ConfirmEffect(o) \/ ArbitrateRelease(o)
      PROVE  Promise!Next
    BY <1>0, <1>3, ReleasePaysOut DEF Promise!Next
<1>4. ASSUME NEW o \in OrderIds, AgreeRefund(o) \/ ArbitrateRefund(o)
      PROVE  Promise!Next
    BY <1>0, <1>4, RefundGivesBack DEF Promise!Next
<1>5. ASSUME NEW o \in OrderIds,
             \/ Ship(o) \/ Cancel(o) \/ RequestRefund(o) \/ RequestReturn(o)
             \/ RejectRefund(o) \/ Dispute(o)
      PROVE  UNCHANGED Promise!promiseVars
  <2>1. PICK to, countdown : Transition(o, to, orders[o].escrow, countdown)
    BY <1>5 DEF Ship, Cancel, RequestRefund, RequestReturn, RejectRefund, Dispute
  <2>2. UNCHANGED wallet
    BY <1>5 DEF Ship, Cancel, RequestRefund, RequestReturn, RejectRefund, Dispute,
                walletVars
  <2> QED
    BY <2>1, <2>2, TransitionUpdates, OthersStutter
<1>6. ASSUME NEW o \in OrderIds, Elapse(o) PROVE UNCHANGED Promise!promiseVars
  <2>1. UNCHANGED wallet
    BY <1>6 DEF Elapse, walletVars
  <2> QED
    BY <1>6, <2>1, ElapseUpdates, OthersStutter
<1>7. CASE UNCHANGED orders /\ WalletNext
    BY <1>0, <1>7, WalletStepDeposits DEF Promise!Next
<1>8. CASE UNCHANGED orders /\ UNCHANGED walletVars
    BY <1>8 DEF walletVars, Promise!promiseVars
<1> QED
    BY <1>1, <1>2, <1>3, <1>4, <1>5, <1>6, <1>7, <1>8, OrdersStep

\* The system implements the promise of the escrow: the price of every order leaves the
\* buyer's balance once, and reaches the seller and the platform, or comes back, once
\* and in full, whoever pays, confirms, refunds, arbitrates, recharges and withdraws in
\* between (escrow.service.js, wallet.service.js), as long as sellers reject only
\* refunds that were asked for.
THEOREM EscrowKeepsPromise == ASSUME UiOnly PROVE Spec => KeepsPromise
<1>1. Init => Promise!Init
  <2> SUFFICES ASSUME Init PROVE Promise!Init
      OBVIOUS
  <2>1. DealsOf = [o \in {} |-> {}] /\ StageOf = [o \in {} |-> {}]
    BY DEF Init, DealsOf, StageOf
  <2>2. SpendableOf = [h \in Users \cup {Platform} |-> 0]
    BY DEF Init, WalletInit, Holders, Accounts, SpendableOf
  <2> QED
    BY <2>1, <2>2 DEF Promise!Init, DealsOf, StageOf, SpendableOf
<1>2. TypeOK /\ TypeOK' /\ EscrowFollowsStatus /\ LedgerInv /\ [Next]_vars
        => [Promise!Next]_(Promise!promiseVars)
    BY PromiseStep
<1> QED
    BY <1>1, <1>2, LedgerInvariant, PTL DEF Spec, KeepsPromise, Promise!Spec
=============================================================================
