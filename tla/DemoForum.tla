----------------------------- MODULE DemoForum -----------------------------
(***************************************************************************)
(* Threads, replies and private messages of the demo backend (forum.js and *)
(* the content review of admin.js).  What was read how often is left out.  *)
(***************************************************************************)
EXTENDS DemoRules

Writable == Words \cup {Clean}
Reviewed == {"published", "hidden", "deleted"}

Live(row) == ~row.deleted

\* What a text does to its author, and the step: a blocked text throws after that.
Written(t, u, text, Stored(_)) ==
    LET d == Enforce(db[t], u, text)
    IN  IF Blocked(db[t], text) THEN Keep(t, d) ELSE Answer(t, Stored(d))

PostThread(t, u, text) ==
    /\ Verified(t, u) /\ MayPublish(t, u)
    /\ Written(t, u, text, LAMBDA d : [d EXCEPT !.threads = Append(@,
           [author |-> u, text |-> text, status |-> "published", deleted |-> FALSE, count |-> 0])])

\* Neither a mute nor the score keeps an author from changing a thread.
EditThread(t, u, h, text) ==
    /\ Live(db[t].threads[h]) /\ db[t].threads[h].author = u
    /\ Written(t, u, text, LAMBDA d : [d EXCEPT !.threads[h].text = text])

DeleteThread(t, u, h) ==
    /\ Live(db[t].threads[h])
    /\ db[t].threads[h].author = u \/ u \notin Students
    /\ Answer(t, [db[t] EXCEPT !.threads[h].deleted = TRUE, !.threads[h].status = "deleted"])

Floors(d, h) == {d.replies[r].floor : r \in {i \in DOMAIN d.replies : d.replies[i].thread = h}}

PostReply(t, u, h, text) ==
    /\ Verified(t, u) /\ MayPublish(t, u)
    /\ Live(db[t].threads[h]) /\ db[t].threads[h].status = "published"
    /\ Written(t, u, text, LAMBDA d : [d EXCEPT !.threads[h].count = @ + 1,
           !.replies = Append(@, [thread |-> h, author |-> u, status |-> "published",
                                  deleted |-> FALSE, floor |-> Max(Floors(d, h) \cup {0}) + 1])])

DeleteReply(t, u, r) ==
    LET row == db[t].replies[r]
    IN  /\ Live(row)
        /\ row.author = u \/ u \notin Students
        /\ Answer(t, [db[t] EXCEPT !.replies[r].deleted = TRUE, !.replies[r].status = "deleted",
                                   !.threads[row.thread].count = Max({0, @ - 1})])

\* No look at what was there, and the count of a thread stays as it is.
ReviewThread(t, h, to) ==
    Answer(t, [db[t] EXCEPT !.threads[h].status = to, !.threads[h].deleted = @ \/ to = "deleted"])

ReviewReply(t, r, to) ==
    Answer(t, [db[t] EXCEPT !.replies[r].status = to, !.replies[r].deleted = @ \/ to = "deleted"])

\* One conversation for each pair and book or thread, whoever asks.
OpenConversation(t, u, about) ==
    LET d    == db[t]
        peer == IF about[1] = "book" THEN d.books[about[2]].seller ELSE d.threads[about[2]].author
        row  == IF about[1] = "book" THEN d.books[about[2]] ELSE d.threads[about[2]]
        same == {c \in DOMAIN d.convs : d.convs[c].members = {u, peer} /\ d.convs[c].about = about}
    IN  /\ MayTrade(t, u)
        /\ Live(row) /\ peer # u
        /\ Answer(t, IF same # {} THEN d
                     ELSE [d EXCEPT !.convs = Append(@, [members |-> {u, peer}, about |-> about])])

SendMessage(t, u, c, text) ==
    /\ MayPublish(t, u)
    /\ u \in db[t].convs[c].members
    /\ Written(t, u, text, LAMBDA d : [d EXCEPT !.messages = Append(@,
           [conv |-> c, to |-> CHOOSE p \in d.convs[c].members : p # u, read |-> FALSE])])

\* A GET: what it marks is in storage only after some other request was answered.
ReadMessages(t, u, c) ==
    /\ u \in db[t].convs[c].members
    /\ Keep(t, [db[t] EXCEPT !.messages = [i \in DOMAIN @ |->
           IF @[i].conv = c /\ @[i].to = u THEN [@[i] EXCEPT !.read = TRUE] ELSE @[i]]])

ForumNext(t, u) ==
    \/ \E text \in Writable :
         \/ PostThread(t, u, text)
         \/ \E h \in DOMAIN db[t].threads : EditThread(t, u, h, text) \/ PostReply(t, u, h, text)
         \/ \E c \in DOMAIN db[t].convs : SendMessage(t, u, c, text)
    \/ \E h \in DOMAIN db[t].threads :
         \/ DeleteThread(t, u, h) \/ OpenConversation(t, u, <<"thread", h>>)
         \/ u \notin Students /\ \E to \in Reviewed : ReviewThread(t, h, to)
    \/ \E r \in DOMAIN db[t].replies :
         \/ DeleteReply(t, u, r)
         \/ u \notin Students /\ \E to \in Reviewed : ReviewReply(t, r, to)
    \/ \E b \in DOMAIN db[t].books : OpenConversation(t, u, <<"book", b>>)
    \/ \E c \in DOMAIN db[t].convs : ReadMessages(t, u, c)
=============================================================================
