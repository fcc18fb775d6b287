---------------------------- MODULE EscrowPromise ----------------------------
(***************************************************************************)
(* What the escrow promises the two parties of an order, with no order     *)
(* statuses, no ledger and no frozen amounts: the price leaves the buyer's *)
(* spendable money once, and then either reaches the seller and the        *)
(* platform, or comes back to the buyer, once and in full.                 *)
(***************************************************************************)
EXTENDS Integers

CONSTANTS Users, Platform, OrderIds

VARIABLES
    deals,      \* what was agreed: a function on the opened orders
    stage,      \* where the money of each opened order is
    spendable   \* what each party can spend

promiseVars == <<deals, stage, spendable>>

Init ==
    /\ deals = [o \in {} |-> {}]
    /\ stage = [o \in {} |-> {}]
    /\ spendable = [h \in Users \cup {Platform} |-> 0]

Deals == [buyer : Users, seller : Users, price : Nat \ {0}, fee : Nat]

Open(o) ==
    /\ o \notin DOMAIN deals
    /\ DOMAIN deals' = DOMAIN deals \cup {o}
    /\ \A x \in DOMAIN deals : deals'[x] = deals[x]
    /\ deals'[o] \in Deals
    /\ deals'[o].buyer # deals'[o].seller
    /\ deals'[o].fee < deals'[o].price
    /\ stage' = [x \in DOMAIN deals' |->
                   IF x = o THEN "none" ELSE stage[x]]
    /\ UNCHANGED spendable

\* The money of order o goes from one stage to the next.
Move(o, from, to) ==
    /\ o \in DOMAIN stage
    /\ stage[o] = from
    /\ stage' = [stage EXCEPT ![o] = to]
    /\ UNCHANGED deals

Hold(o) ==
    /\ Move(o, "none", "held")
    /\ spendable[deals[o].buyer] >= deals[o].price
    /\ spendable' = [spendable EXCEPT ![deals[o].buyer] = @ - deals[o].price]

PayOut(o) ==
    /\ Move(o, "held", "released")
    /\ spendable' = [spendable EXCEPT
                       ![deals[o].seller] = @ + (deals[o].price - deals[o].fee),
                       ![Platform] = @ + deals[o].fee]

GiveBack(o) ==
    /\ Move(o, "held", "refunded")
    /\ spendable' = [spendable EXCEPT ![deals[o].buyer] = @ + deals[o].price]

\* Money enters and leaves the platform outside of any order.
Deposit(u) ==
    /\ spendable'[u] > spendable[u]
    /\ spendable' = [spendable EXCEPT ![u] = spendable'[u]]
    /\ UNCHANGED <<deals, stage>>

Withdraw(u) ==
    /\ spendable'[u] \in 0..(spendable[u] - 1)
    /\ spendable' = [spendable EXCEPT ![u] = spendable'[u]]
    /\ UNCHANGED <<deals, stage>>

Next ==
    \/ \E o \in OrderIds : Open(o) \/ Hold(o) \/ PayOut(o) \/ GiveBack(o)
    \/ \E u \in Users : Deposit(u) \/ Withdraw(u)

Spec == Init /\ [][Next]_promiseVars
=============================================================================
