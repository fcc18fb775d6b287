------------------------------- MODULE Forum -------------------------------
(***************************************************************************)
(* What students publish: threads with their replies, books put on sale,   *)
(* and conversations.  A request reads what it refers to, goes through the *)
(* word guard, and writes in the end; what it read may have changed by     *)
(* then.                                                                   *)
(***************************************************************************)
EXTENDS WordGuard

CONSTANTS
    MaxBooks,   \* tier_permissions.maxBooks
    KindSets    \* bound: a behaviour makes requests of the kinds in one of these

\* Every schema asks for at least a character.
ASSUME ForumAssumption ==
    /\ IsFiniteSet(Slots) /\ Slots # {} /\ MaxBooks \in Nat
    /\ \A text \in Texts : text # <<>> /\ text \in Seq({text[i] : i \in DOMAIN text})

VARIABLES
    threads,    \* threads, by id
    replies,    \* replies, by id
    books,      \* books, by id
    talks,      \* conversations, by context key
    bios,       \* what users say of themselves
    kinds,      \* the one of KindSets that this behaviour makes
    passed      \* history: the pairs of title and content that passed a check
                \* together; the title is empty where there is one text only

forumVars == <<threads, replies, books, talks, bios, passed>>
vars == <<guardVars, forumVars, kinds>>

\* The seed writes threads with replies, numbered from the first floor; it checks
\* no text, so what it wrote counts as passed.
Seeded(u, text) ==
    /\ threads = <<[status |-> "published", author |-> u, deleted |-> FALSE,
                    title |-> <<>>, content |-> text, count |-> 1]>>
    /\ replies = <<[thread |-> 1, floor |-> 1, status |-> "published",
                    gone |-> FALSE, taken |-> FALSE, after |-> {}]>>
    /\ passed = {<<(<<>>), text>>}

Empty == threads = <<>> /\ replies = <<>> /\ passed = {}

\* Behaviours about what threads hold start from the seed, the others from nothing.
Init ==
    /\ GuardInit
    /\ kinds \in KindSets
    /\ IF kinds \cap {"edit", "reply"} = {} THEN Empty
       ELSE \E u \in Users, text \in Texts : Seeded(u, text)
    /\ books = <<>> /\ talks = {} /\ bios = [u \in Users |-> <<>>]

\* AUTO_INCREMENT
Insert(table, row) == Append(table, row)
RepliesOf(t)    == {i \in DOMAIN replies : replies[i].thread = t}

\* The request that ends has written what it came for.
Ends(s) == /\ req' = [req EXCEPT ![s] = NoReq]
           /\ UNCHANGED <<listed, matcher, users, hits, penalties, posted, changes>>

BeginOnly(s, r) ==
    /\ r.kind \in kinds /\ Begin(s, r)
    /\ UNCHANGED <<listed, matcher, users, hits, penalties, changes, forumVars>>

Writing(s, kind) == req[s].phase = "write" /\ req[s].kind = kind
-----------------------------------------------------------------------------
(* Threads *)

PostThread(s, u, p, text) ==
    MayPublish(u) /\ BeginOnly(s, Request(u, p, "thread", "none", <<>>, text))

WriteThread(s) ==
    /\ Writing(s, "thread")
    /\ threads' = Insert(threads,
           [status |-> "published", author |-> req[s].user, deleted |-> FALSE,
            title |-> req[s].title, content |-> req[s].content, count |-> 0])
    /\ passed' = passed \cup {<<req[s].title, req[s].content>>}
    /\ Ends(s) /\ UNCHANGED <<replies, books, talks, bios>>

\* A new title is checked with the old content as read, and the other way round.
EditThread(s, u, p, t, text) ==
    /\ threads[t].author = u /\ ~threads[t].deleted /\ MayEdit(u)
    /\ \/ BeginOnly(s, Request(u, p, "edit", t, text, threads[t].content))
       \/ BeginOnly(s, Request(u, p, "edit", t, threads[t].title, text))

\* Mutant: a field that is not asked for keeps the value it has by now.
EditedField(r) ==
    [threads[r.on] EXCEPT !.title = IF r.title = <<>> THEN @ ELSE r.title,
                          !.content = IF r.content = <<>> THEN @ ELSE r.content]

\* Both fields are written as they were checked, whatever is there now.
Edited(r) == [threads[r.on] EXCEPT !.title = r.title, !.content = r.content]

WriteEdit(s) ==
    /\ Writing(s, "edit")
    /\ threads' = [threads EXCEPT ![req[s].on] = Edited(req[s])]
    /\ passed' = passed \cup {<<req[s].title, req[s].content>>}
    /\ Ends(s) /\ UNCHANGED <<replies, books, talks, bios>>

DeleteThread(t) ==
    /\ ~threads[t].deleted
    /\ threads' = [threads EXCEPT ![t].status = "deleted", ![t].deleted = TRUE]
    /\ UNCHANGED <<guardVars, replies, books, talks, bios, passed>>

\* The review queue: approve, hide or delete; the mark of deletion stays.
ReviewThread(t, status) ==
    /\ threads[t].status # status
    /\ threads' = [threads EXCEPT ![t].status = status,
                                  ![t].deleted = @ \/ status = "deleted"]
    /\ UNCHANGED <<guardVars, replies, books, talks, bios, passed>>
-----------------------------------------------------------------------------
(* Replies *)

PostReply(s, u, p, t, text) ==
    /\ threads[t].status = "published" /\ ~threads[t].deleted /\ MayPublish(u)
    /\ BeginOnly(s, Request(u, p, "reply", t, <<>>, text))

\* Mutant: the next floor is counted from the replies that are left.
FloorByCount(t) ==
    1 + Cardinality({i \in RepliesOf(t) : replies[i].status = "published"})

\* MAX(floor_no) + 1, over deleted replies as well.
NextFloor(t) ==
    LET floors == {0} \cup {replies[i].floor : i \in RepliesOf(t)}
    IN  1 + CHOOSE f \in floors : \A g \in floors : g <= f

\* The transaction reads the floor, then inserts and counts.
ReadFloor(s) ==
    /\ Writing(s, "reply")
    /\ req' = [req EXCEPT ![s].phase = "insert", ![s].floor = NextFloor(req[s].on),
                          ![s].seen = RepliesOf(req[s].on)]
    /\ UNCHANGED <<listed, matcher, users, hits, penalties, posted, changes, forumVars>>

InsertReply(s) ==
    /\ req[s].phase = "insert"
    /\ replies' = Insert(replies,
           [thread |-> req[s].on, floor |-> req[s].floor, status |-> "published",
            gone |-> FALSE, taken |-> FALSE, after |-> req[s].seen])
    /\ threads' = [threads EXCEPT ![req[s].on].count = @ + 1]
    /\ Ends(s) /\ UNCHANGED <<books, talks, bios, passed>>

\* DELETE /replies/:id reads the reply, then deletes it without looking again.
AskDeleteReply(s, u, p, i) ==
    /\ ~replies[i].gone /\ MayEdit(u)
    /\ BeginOnly(s, [Request(u, p, "unreply", i, <<>>, <<>>) EXCEPT !.phase = "write"])

\* GREATEST(reply_count - 1, 0)
Decreased(t) == IF threads[t].count > 0 THEN threads[t].count - 1 ELSE 0

DeleteReply(s) ==
    LET i == req[s].on
        t == replies[i].thread
    IN  /\ Writing(s, "unreply")
        /\ replies' = [replies EXCEPT ![i].status = "deleted", ![i].gone = TRUE,
                                      ![i].taken = TRUE]
        /\ threads' = [threads EXCEPT ![t].count = Decreased(t)]
        /\ Ends(s) /\ UNCHANGED <<books, talks, bios, passed>>

\* The review queue does not count: the reply goes or comes back by itself.
ReviewReply(i, status) ==
    /\ replies[i].status # status
    /\ replies' = [replies EXCEPT ![i].status = status, ![i].gone = @ \/ status = "deleted"]
    /\ UNCHANGED <<guardVars, threads, books, talks, bios, passed>>
-----------------------------------------------------------------------------
(* Books *)

OnSaleOf(u) == {b \in DOMAIN books : books[b].seller = u /\ books[b].status = "on_sale"}

\* Mutant: the limit is passed before it is tested.
BelowLimitByOne(u, counted) == Cardinality(counted) <= MaxBooks

BelowLimit(u, counted) == Cardinality(counted) < MaxBooks

PublishBook(s, u, p, text) ==
    /\ MayPublish(u) /\ BelowLimit(u, {b \in OnSaleOf(u) : ~books[b].gone})
    /\ BeginOnly(s, Request(u, p, "book", "none", <<>>, text))

\* One text that passed by itself.
PassedAlone(r) == passed' = IF r.text = <<>> THEN passed ELSE passed \cup {<<(<<>>), r.text>>}

\* The remark holds all that was checked, the title in front.
WriteBook(s) ==
    /\ Writing(s, "book")
    /\ books' = Insert(books, [seller |-> req[s].user, status |-> "on_sale",
                               gone |-> FALSE, restored |-> FALSE, remark |-> req[s].text])
    /\ PassedAlone(req[s])
    /\ Ends(s) /\ UNCHANGED <<threads, replies, talks, bios>>

\* PATCH /books/:id: a new remark is checked; a new title, price or condition is not,
\* and brings along the remark that was read.
ReviseBook(s, u, p, b, text) ==
    LET ask == Request(u, p, "revise", b, <<>>, text)
    IN  /\ books[b].seller = u /\ ~books[b].gone /\ MayEdit(u)
        /\ \/ BeginOnly(s, ask)
           \/ BeginOnly(s, [ask EXCEPT !.phase = "write", !.text = <<>>,
                                       !.content = books[b].remark])

WriteRevision(s) ==
    /\ Writing(s, "revise")
    /\ books' = [books EXCEPT ![req[s].on].remark = req[s].content]
    /\ PassedAlone(req[s])
    /\ Ends(s) /\ UNCHANGED <<threads, replies, talks, bios>>

\* The seller takes a book off the shelf, or the listing is deleted.
TakeDown(b, deleted) ==
    /\ ~books[b].gone
    /\ books' = [books EXCEPT ![b].status = "off_shelf", ![b].gone = deleted,
                              ![b].restored = FALSE]
    /\ UNCHANGED <<guardVars, threads, replies, talks, bios, passed>>

\* The limit is tested over deleted listings as well.
RelistBook(s, u, p, b) ==
    /\ books[b].seller = u /\ ~books[b].gone /\ books[b].status = "off_shelf"
    /\ MayPublish(u) /\ BelowLimit(u, OnSaleOf(u))
    /\ BeginOnly(s, [Request(u, p, "relist", b, <<>>, <<>>) EXCEPT !.phase = "write"])

\* Only a book that is still off the shelf.
WriteRelist(s) ==
    /\ Writing(s, "relist")
    /\ books' = IF books[req[s].on].status = "off_shelf"
                THEN [books EXCEPT ![req[s].on].status = "on_sale"] ELSE books
    /\ Ends(s) /\ UNCHANGED <<threads, replies, talks, bios, passed>>

\* The review queue looks at no limit: approve, hide or delete.
ReviewBook(b, status) ==
    /\ books[b].status # status
    /\ books' = [books EXCEPT ![b].status = status, ![b].restored = (status = "on_sale"),
                              ![b].gone = @ \/ status = "deleted"]
    /\ UNCHANGED <<guardVars, threads, replies, talks, bios, passed>>
-----------------------------------------------------------------------------
(* Profiles *)

EditProfile(s, u, p, text) ==
    MayEdit(u) /\ BeginOnly(s, Request(u, p, "profile", "none", <<>>, text))

WriteProfile(s) ==
    /\ Writing(s, "profile")
    /\ bios' = [bios EXCEPT ![req[s].user] = req[s].content]
    /\ PassedAlone(req[s])
    /\ Ends(s) /\ UNCHANGED <<threads, replies, books, talks>>
-----------------------------------------------------------------------------
(* Conversations *)

\* contextKey: the smaller id first; about one book or thread.
ContextKey(u, v) == {u, v}

\* A conversation is looked up first, and opened when there is none.
OpenTalk(s, u, p, v) ==
    /\ u # v /\ MayEdit(u)
    /\ \A c \in talks : c.key # ContextKey(u, v)
    /\ BeginOnly(s, [Request(u, p, "talk", v, <<>>, <<>>) EXCEPT !.phase = "write"])

\* uk_context refuses a second conversation of the same key.
WriteTalk(s) ==
    LET key == ContextKey(req[s].user, req[s].on)
    IN  /\ Writing(s, "talk")
        /\ talks' = IF \E c \in talks : c.key = key THEN talks
                    ELSE talks \cup {[key |-> key, members |-> {req[s].user, req[s].on}]}
        /\ Ends(s) /\ UNCHANGED <<threads, replies, books, bios, passed>>

SendMessage(s, u, p, c, text) ==
    /\ u \in c.members /\ MayPublish(u)
    /\ BeginOnly(s, Request(u, p, "message", "none", <<>>, text))

WriteMessage(s) == Writing(s, "message") /\ Ends(s) /\ UNCHANGED forumVars
-----------------------------------------------------------------------------
Next ==
    \/ GuardNext /\ UNCHANGED forumVars
    \/ \E s \in Slots, u \in Users, p \in Procs, text \in Texts :
         \/ PostThread(s, u, p, text)
         \/ PublishBook(s, u, p, text) \/ EditProfile(s, u, p, text)
         \/ \E b \in DOMAIN books : ReviseBook(s, u, p, b, text)
         \/ \E t \in DOMAIN threads : EditThread(s, u, p, t, text)
                                      \/ PostReply(s, u, p, t, text)
         \/ \E c \in talks : SendMessage(s, u, p, c, text)
    \/ \E s \in Slots, u \in Users, p \in Procs :
         \/ \E v \in Users : OpenTalk(s, u, p, v)
         \/ \E i \in DOMAIN replies : AskDeleteReply(s, u, p, i)
         \/ \E b \in DOMAIN books : RelistBook(s, u, p, b)
    \/ \E s \in Busy : \/ WriteThread(s) \/ WriteEdit(s) \/ ReadFloor(s)
                       \/ InsertReply(s) \/ DeleteReply(s) \/ WriteBook(s)
                       \/ WriteRelist(s) \/ WriteTalk(s) \/ WriteMessage(s)
                       \/ WriteRevision(s) \/ WriteProfile(s)
    \/ \E t \in DOMAIN threads : \/ DeleteThread(t)
                                 \/ \E st \in {"published", "hidden", "deleted"} :
                                      ReviewThread(t, st)
    \/ \E i \in DOMAIN replies, st \in {"published", "hidden", "deleted"} : ReviewReply(i, st)
    \/ \E b \in DOMAIN books : \/ \E deleted \in BOOLEAN : TakeDown(b, deleted)
                               \/ \E st \in {"on_sale", "off_shelf", "deleted"} :
                                    ReviewBook(b, st)

Spec == Init /\ [][Next /\ UNCHANGED kinds]_vars
=============================================================================
