----------------------------- MODULE MCRequests -----------------------------
EXTENDS RequestSystem, TLC

CONSTANTS p1, p2, k1, r1, r2, r3, s1, s2, wallet, book, other

\* Two orders whose buyer is the seller of the other lock wallets in opposite order;
\* a third order touches neither.
MCPlans == {<<wallet, book>>, <<book, wallet>>, <<other>>}

\* The schema in two files, the first of two statements.
Money     == {"wallet_transactions", "wallet_accounts", "withdraw_requests"}
MCFiles   == <<"001", "002">>
MCCreates == [f \in {"001", "002"} |->
                IF f = "001" THEN <<Tables \ Money, {"wallet_transactions"}>>
                ELSE <<Money>>]
=============================================================================
