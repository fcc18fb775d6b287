---------------------------- MODULE OrderMachine ----------------------------
(***************************************************************************)
(* The order state machine: the configuration entry order.state_machine    *)
(* that the server seeds, and the one test every order handler makes       *)
(* against it.  The table is data in the program as well: a handler only   *)
(* asks whether it may go from the order's status to its own target.       *)
(***************************************************************************)

\* The statuses in which an order still occupies its book.
ActiveStatuses ==
    {"pending_payment", "paid", "shipped", "refund_requested",
     "return_requested", "disputed"}

TerminalStatuses ==
    {"completed", "cancelled", "refunded", "arbitrated_refund",
     "arbitrated_release"}

Statuses == ActiveStatuses \cup TerminalStatuses

InitialStatus == "pending_payment"

\* transitions: every pair <<from, to>> the table allows.
Transitions ==
    ({"pending_payment"}  \X {"paid", "cancelled"})                       \cup
    ({"paid"}             \X {"shipped", "refund_requested", "disputed"}) \cup
    ({"shipped"}          \X {"completed", "return_requested", "disputed"}) \cup
    ({"refund_requested"} \X {"refunded", "paid", "disputed"})            \cup
    ({"return_requested"} \X {"refunded", "shipped", "disputed"})         \cup
    ({"disputed"}         \X {"arbitrated_refund", "arbitrated_release"})

\* Mutant: a disputed order may still be confirmed.
CanTransitionOutOfDispute(from, to) ==
    <<from, to>> \in Transitions \cup {<<"disputed", "completed">>}

\* Mutant: a completed order may still be disputed.
CanTransitionAfterCompletion(from, to) ==
    <<from, to>> \in Transitions \cup {<<"completed", "disputed">>}

\* assertTransition: the handler throws, and its transaction rolls back,
\* unless this holds.
CanTransition(from, to) == <<from, to>> \in Transitions
=============================================================================
