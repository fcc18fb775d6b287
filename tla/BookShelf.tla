------------------------------ MODULE BookShelf ------------------------------
(***************************************************************************)
(* The status of a listed book, and the requests that change it without a  *)
(* transaction.  Taking a book off the shelf, putting it back and deleting *)
(* it each read the row, test what they read, and write in a second        *)
(* statement: the test may be stale by the time of the write.              *)
(***************************************************************************)
EXTENDS Integers, FiniteSets

CONSTANTS
    Books,      \* the listed books
    SellerOf,   \* the seller of each book
    MaxBooks,   \* how many books a seller's credit tier lets him keep on sale
    BookOps     \* bound: which of the requests below the environment sends

BookRequestKinds == {"off_shelf", "relist", "delete"}
ReviewActions    == {"approve", "hide", "erase"}

ASSUME BookOpsAssumption == BookOps \subseteq BookRequestKinds \cup ReviewActions

VARIABLES
    books,      \* books.status and books.deleted_at of each book
    bookReqs    \* requests that passed their checks and have yet to write

bookVars == <<books, bookReqs>>

BookStatuses == {"on_sale", "locked", "sold", "off_shelf", "deleted"}

BookTypeOK ==
    /\ books \in [Books -> [status : BookStatuses, deleted : BOOLEAN]]
    /\ bookReqs \subseteq BookRequestKinds \X Books

BookInit ==
    /\ books = [b \in Books |-> [status |-> "on_sale", deleted |-> FALSE]]
    /\ bookReqs = {}
-----------------------------------------------------------------------------
\* The order handlers' conditional update: only a book in one of the statuses
\* of from is written.
SetBookStatus(b, from, to) ==
    books' = [books EXCEPT ![b].status = IF @ \in from THEN to ELSE @]

OnSaleOf(seller) ==
    {b \in Books : SellerOf[b] = seller /\ books[b].status = "on_sale"}

\* What each request reads before it goes on.
MayRequest(op, b) ==
    /\ ~books[b].deleted
    /\ op = "off_shelf" => books[b].status # "locked"
    /\ op = "relist" =>
         /\ books[b].status = "off_shelf"
         /\ Cardinality(OnSaleOf(SellerOf[b])) < MaxBooks

CheckBookRequest(op, b) ==
    /\ op \in BookOps
    /\ <<op, b>> \notin bookReqs
    /\ MayRequest(op, b)
    /\ bookReqs' = bookReqs \cup {<<op, b>>}
    /\ UNCHANGED books

\* The write of each request.  Only relist repeats its status test in SQL.
WriteBookRequest(op, b) ==
    /\ <<op, b>> \in bookReqs
    /\ bookReqs' = bookReqs \ {<<op, b>>}
    /\ \/ op = "off_shelf" /\ books' = [books EXCEPT ![b].status = "off_shelf"]
       \/ op = "relist"    /\ SetBookStatus(b, {"off_shelf"}, "on_sale")
       \/ op = "delete"    /\ books' = [books EXCEPT ![b] =
                                [status |-> "off_shelf", deleted |-> TRUE]]

\* A moderator's decision overwrites the status in one statement, whatever
\* the book's status is.
ReviewBook(action, b) ==
    /\ action \in BookOps
    /\ \/ action = "approve" /\ books' = [books EXCEPT ![b].status = "on_sale"]
       \/ action = "hide"    /\ books' = [books EXCEPT ![b].status = "off_shelf"]
       \/ action = "erase"   /\ books' = [books EXCEPT ![b] =
                                  [status |-> "deleted", deleted |-> TRUE]]
    /\ UNCHANGED bookReqs

BookNext ==
    \E b \in Books :
        \/ \E op \in BookRequestKinds :
              CheckBookRequest(op, b) \/ WriteBookRequest(op, b)
        \/ \E action \in ReviewActions : ReviewBook(action, b)
=============================================================================
