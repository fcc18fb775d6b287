------------------------------ MODULE MCEscrow ------------------------------
(***************************************************************************)
(* Small instances of orders and escrow.  Alice and bob trade with each    *)
(* other: alice sells book A, whose price of 5 carries a fee of 1, and bob *)
(* sells book B, whose price of 4 carries none (2000/10000 rounded down).  *)
(***************************************************************************)
EXTENDS OrderEscrowProps, TLC

CONSTANTS alice, bob, bookA, bookB, o1, o2, t1, t2, w1

MCSellerOf == [b \in Books |-> IF b = bookA THEN alice ELSE bob]
MCPrice    == [b \in Books |-> IF b = bookA THEN 5 ELSE 4]
=============================================================================
