------------------------------- MODULE MCDemo -------------------------------
(***************************************************************************)
(* Two tabs, three students, one school administrator and the platform's.  *)
(* The data set is shipped, as the code's, with an order that is paid and  *)
(* one that is completed, and with a warning.                              *)
(***************************************************************************)
EXTENDS DemoBackend, TLC

CONSTANTS ann, ben, cal, sam, pia, t1, t2, bad

Symm == Permutations(Tabs)

MCLadder ==
    <<[type |-> "warning", days |-> 0, delta |-> 0], [type |-> "mute", days |-> 1, delta |-> -2],
      [type |-> "login_ban", days |-> 1, delta |-> 0], [type |-> "permanent_ban", days |-> 0, delta |-> 0]>>

MCTiers ==
    <<[min |-> 9, canPublish |-> TRUE, canTrade |-> TRUE, maxBooks |-> 2],
      [min |-> 5, canPublish |-> TRUE, canTrade |-> TRUE, maxBooks |-> 1],
      [min |-> 3, canPublish |-> FALSE, canTrade |-> TRUE, maxBooks |-> 0],
      [min |-> 0, canPublish |-> FALSE, canTrade |-> FALSE, maxBooks |-> 0]>>

Bought(b, buyer, seller, status, escrow) ==
    [book |-> b, buyer |-> buyer, seller |-> seller, amount |-> 100, fee |-> 2,
     status |-> status, escrow |-> escrow]
Shelved(seller, status) == [seller |-> seller, price |-> 100, status |-> status, deleted |-> FALSE]

\* cal has not registered.
MCFresh ==
    [writes |-> 0, images |-> 0, members |-> {ann, ben, sam, pia}, open |-> TRUE, verifies |-> TRUE,
     escalates |-> TRUE, feeBps |-> 200,
     user |-> [u \in Users |-> Plain], profile |-> [u \in Users |-> [nick |-> Clean, bio |-> Clean]],
     words |-> (bad :> [level |-> 3, status |-> "active"]),
     hits |-> <<>>, credit |-> <<>>, appeals |-> <<>>, reports |-> <<>>,
     penalty |-> <<[user |-> ann, type |-> "warning", start |-> 1, status |-> "active",
                    appeal |-> "none", count |-> 1]>>,
     ticket |-> <<>>, chats |-> <<>>, kb |-> <<"published">>,
     balance |-> (ann :> 100 @@ ben :> 198 @@ cal :> 0 @@ sam :> 0 @@ pia :> 2),
     frozen |-> [u \in Users |-> IF u = ben THEN 100 ELSE 0],
     recharged |-> [u \in Users |-> IF u \in {ann, ben} THEN 200 ELSE 0],
     withdrawn |-> [u \in Users |-> 0],
     keys |-> {<<1, "seed-pay">>, <<1, "seed-escrow_hold">>, <<2, "seed-pay">>,
               <<2, "seed-escrow_hold">>, <<2, "seed-escrow_release">>, <<2, "seed-settle">>,
               <<2, "seed-fee">>},
     strays |-> {},
     books |-> <<Shelved(ann, "locked"), Shelved(ben, "sold")>>,
     orders |-> <<Bought(1, ben, ann, "paid", "held"), Bought(2, ann, ben, "completed", "released")>>,
     cards |-> <<>>, forms |-> <<>>, applications |-> <<>>, schools |-> <<>>,
     threads |-> <<>>, replies |-> <<>>, convs |-> <<>>, messages |-> <<>>]

\* ben has ordered another book of ann.
MCTrade ==
    [MCFresh EXCEPT
       !.books = Append(@, Shelved(ann, "locked")),
       !.orders = Append(@, Bought(3, ben, ann, "pending_payment", "none")),
       !.cards = <<[user |-> ben, status |-> "active", default |-> TRUE, cooldown |-> 0]>>]

MCShelf ==
    [MCFresh EXCEPT
       !.books = Append(@, Shelved(ann, "on_sale")),
       !.hits = <<[user |-> ann, level |-> 3, at |-> 1]>>]

MCRisk ==
    [MCFresh EXCEPT
       !.reports = <<[reporter |-> ben, about |-> <<"user", ann>>, target |-> ann,
                      status |-> "pending", due |-> 0, proof |-> FALSE]>>]

MCForum ==
    [MCFresh EXCEPT
       !.threads = <<[author |-> ann, text |-> Clean, status |-> "published", deleted |-> FALSE, count |-> 0]>>,
       !.books = Append(@, Shelved(ben, "on_sale")),
       !.convs = <<[members |-> {ann, ben}, about |-> <<"thread", 1>>]>>]

MCDesk ==
    [MCFresh EXCEPT
       !.ticket = <<[type |-> "order", reporter |-> ann, status |-> "pending", assignee |-> Unassigned,
                     answered |-> FALSE, urgent |-> FALSE, escalated |-> FALSE,
                     firstDue |-> 2, resolveDue |-> 4]>>,
       !.chats = <<[user |-> ben, status |-> "active", ticket |-> 0, rounds |-> 0]>>]

MCAccount ==
    [MCFresh EXCEPT
       !.user[ann].verified = "pending",
       !.forms = <<[user |-> ann, school |-> "east", status |-> "pending"]>>,
       !.cards = <<[user |-> ann, status |-> "active", default |-> TRUE, cooldown |-> 0]>>]

MCVisits ==
    [trade |-> MCTrade, shelf |-> MCShelf, risk |-> MCRisk, desk |-> MCDesk,
     forum |-> MCForum, account |-> MCAccount]

MCMaxRequests == [trade |-> 3, shelf |-> 3, risk |-> 3, desk |-> 2, forum |-> 2, account |-> 2]
=============================================================================
