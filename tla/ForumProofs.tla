---------------------------- MODULE ForumProofs -----------------------------
(***************************************************************************)
(* What holds of the forum behind the word guard for any number of users,  *)
(* processes, requests at once, texts and words.                           *)
(*                                                                         *)
(* A request keeps what it was made of on its way through the guard        *)
(* (Later), and the tables it refers to only grow (Grow); so what was true *)
(* of it when it was made is true of it when it writes.                    *)
(*                                                                         *)
(* A matcher lacks only words that are younger than the matcher is old and *)
(* its load took (TimeInv); and what a request still owes, a mute, a ban,  *)
(* a deduction, was earned by hits that are on record (PunInv).            *)
(***************************************************************************)
EXTENDS ForumProps, SequenceTheorems, Sums

Fields == {"phase", "user", "proc", "kind", "on", "title", "content", "text", "found", "level",
           "lag", "read", "wait", "score", "today", "serious", "penalty", "then", "floor", "seen"}

\* A request has all the fields of one, whatever they are.
Whole(r) == r = [f \in Fields |-> r[f]]

Titles     == Texts \cup {<<>>}
Statuses   == {"published", "hidden", "deleted"}
ThreadRows == [status : Statuses, author : Users, deleted : BOOLEAN,
               title : Titles, content : Texts, count : Nat]
ReplyRows  == [thread : Nat, floor : Nat, status : Statuses, gone : BOOLEAN,
               taken : BOOLEAN, after : SUBSET Nat]
BookRows   == [seller : Users, status : {"on_sale", "off_shelf", "deleted"},
               gone : BOOLEAN, restored : BOOLEAN, remark : Texts]

TableTypes ==
    /\ threads \in Seq(ThreadRows)
    /\ replies \in Seq(ReplyRows)
    /\ \A i \in DOMAIN replies : replies[i].thread \in DOMAIN threads
    /\ books \in Seq(BookRows)
    /\ bios \in [Users -> Titles]

\* Where a request may go on after a penalty.
Nexts == {"none", "hint", "judge", "write", "refuse"}

\* What a request was made of, by its kind.
Made(r) ==
    /\ Whole(r) /\ r.user \in Users /\ r.proc \in Procs /\ r.then \in Nexts
    /\ r.kind \in {"thread", "edit"} => r.title \in Titles /\ r.content \in Texts
    /\ r.kind \in {"edit", "reply"} => r.on \in DOMAIN threads
    /\ r.kind = "unreply" => r.on \in DOMAIN replies
    /\ r.kind \in {"revise", "relist"} => r.on \in DOMAIN books /\ books[r.on].seller = r.user
    /\ r.kind \in {"book", "revise", "profile"} =>
         /\ r.content \in Texts
         /\ \/ r.text = r.content
            \/ r.kind = "revise" /\ r.text = <<>> /\ <<(<<>>), r.content>> \in passed

\* A reply that has its floor stands above those that were there.
Placed(r) ==
    r.phase = "insert" => /\ r.kind = "reply" /\ r.floor \in Nat
                          /\ r.seen \subseteq DOMAIN replies
                          /\ \A j \in r.seen : replies[j].floor < r.floor

ReqOK(s) == req[s] # NoReq => Made(req[s]) /\ Placed(req[s])

FormInv ==
    /\ TableTypes
    /\ DOMAIN req = Slots
    /\ \A s \in Slots : ReqOK(s)

LEMMA Rows ==
    ASSUME TableTypes
    PROVE  /\ \A t \in DOMAIN threads : t \in Nat /\ threads[t] \in ThreadRows
           /\ \A i \in DOMAIN replies : i \in Nat /\ replies[i] \in ReplyRows
           /\ \A b \in DOMAIN books : b \in Nat /\ books[b] \in BookRows
BY LenProperties, ElementOfSeq DEF TableTypes
-----------------------------------------------------------------------------
(* Requests on their way *)

\* r has become q in the guard.
Later(r, q) ==
    /\ Whole(q) /\ q.then \in Nexts /\ q.phase # "insert"
    /\ q.user = r.user /\ q.proc = r.proc /\ q.kind = r.kind /\ q.on = r.on
    /\ q.title = r.title /\ q.content = r.content /\ q.text = r.text

Moves == \A s \in Slots : \/ req'[s] = req[s]
                          \/ req'[s] = NoReq
                          \/ req[s] # NoReq /\ Later(req[s], req'[s])

\* One request moves.
LEMMA OneMoves ==
    ASSUME DOMAIN req = Slots, NEW s \in Slots, NEW q, req' = [req EXCEPT ![s] = q],
           q = NoReq \/ (req[s] # NoReq /\ Later(req[s], q))
    PROVE  DOMAIN req' = Slots /\ Moves
BY DEF Moves

LEMMA DecidedIsLater ==
    ASSUME NEW r, Whole(r), r.then \in Nexts, NEW known
    PROVE  Later(r, Decided(r, known))
<1>1. /\ Whole(Decided(r, known))
      /\ Decided(r, known).user = r.user /\ Decided(r, known).proc = r.proc
      /\ Decided(r, known).kind = r.kind /\ Decided(r, known).on = r.on
      /\ Decided(r, known).title = r.title /\ Decided(r, known).content = r.content
      /\ Decided(r, known).text = r.text /\ Decided(r, known).then = r.then
  BY DEF Whole, Fields, Decided
<1>2. Decided(r, known).phase \in {"write", "hits", "refuse"}
  BY DEF Decided, AfterCheck, Verdict, Whole, Fields
<1> QED BY <1>1, <1>2 DEF Later

LEMMA CheckTextMoves ==
    ASSUME FormInv, NEW s \in Busy, CheckText(s)
    PROVE  DOMAIN req' = Slots /\ Moves
<1>1. s \in Slots /\ req[s] # NoReq /\ Whole(req[s]) /\ req[s].then \in Nexts
  BY DEF Busy, FormInv, ReqOK, Made
<1>2. CASE Usable(req[s].proc)
  BY <1>1, <1>2, DecidedIsLater, OneMoves DEF CheckText, FormInv
<1>3. CASE ~Usable(req[s].proc)
  <2> PICK q : q = [req[s] EXCEPT !.phase = "loading", !.read = InForce]
    OBVIOUS
  <2>1. Later(req[s], q)
    BY <1>1 DEF Later, Whole, Fields
  <2> QED BY <1>1, <1>3, <2>1, OneMoves DEF CheckText, FormInv
<1> QED BY <1>2, <1>3

\* r has become q once it was checked.
Onward(r, q) == Later(r, q) /\ q.lag = r.lag /\ q.phase \notin {"check", "loading"}

Goes == \A s \in Slots : \/ req'[s] = req[s]
                         \/ req'[s] = NoReq
                         \/ req[s] # NoReq /\ Onward(req[s], req'[s])

LEMMA OneGoes ==
    ASSUME DOMAIN req = Slots, NEW s \in Slots, NEW q, req' = [req EXCEPT ![s] = q],
           q = NoReq \/ (req[s] # NoReq /\ Onward(req[s], q))
    PROVE  DOMAIN req' = Slots /\ Goes
BY DEF Goes

LEMMA GoingIsMoving == ASSUME Goes PROVE Moves
BY DEF Goes, Moves, Onward

\* One field or a few of those that a request does not keep.
LEMMA FieldsMove ==
    ASSUME NEW r, Whole(r), r.then \in Nexts, NEW x, NEW y, NEW z,
           x \notin {"insert", "check", "loading"}, z \in Nexts
    PROVE  /\ Onward(r, [r EXCEPT !.phase = x])
           /\ Onward(r, [r EXCEPT !.phase = x, !.score = y])
           /\ Onward(r, [r EXCEPT !.phase = x, !.today = y])
           /\ Onward(r, [r EXCEPT !.found = y, !.phase = x])
           /\ Onward(r, [r EXCEPT !.phase = x, !.penalty = y, !.then = z])
           /\ Onward(r, [[r EXCEPT !.serious = y] EXCEPT !.phase = x])
           /\ \A w : Onward(r, [[r EXCEPT !.serious = y] EXCEPT !.phase = x, !.penalty = w, !.then = z])
<1>1. /\ Onward(r, [r EXCEPT !.phase = x])
      /\ Onward(r, [r EXCEPT !.phase = x, !.score = y])
      /\ Onward(r, [r EXCEPT !.phase = x, !.today = y])
  BY DEF Onward, Later, Whole, Fields
<1>2. Onward(r, [r EXCEPT !.found = y, !.phase = x])
  BY DEF Onward, Later, Whole, Fields
<1>3. Onward(r, [r EXCEPT !.phase = x, !.penalty = y, !.then = z])
  BY DEF Onward, Later, Whole, Fields
<1>4. Onward(r, [[r EXCEPT !.serious = y] EXCEPT !.phase = x])
  BY DEF Onward, Later, Whole, Fields
<1>5. ASSUME NEW w
      PROVE  Onward(r, [[r EXCEPT !.serious = y] EXCEPT !.phase = x, !.penalty = w, !.then = z])
  BY DEF Onward, Later, Whole, Fields
<1> QED BY <1>1, <1>2, <1>3, <1>4, <1>5

\* The guard writes requests and nothing a request was made of.
LEMMA EnforceMoves ==
    ASSUME FormInv, NEW s \in Busy,
           \/ WriteHit(s) \/ DebitScore(s) \/ StoreScore(s) \/ Ban(s) \/ CountHints(s)
           \/ CountSerious(s) \/ Judge(s) \/ Switch(s) \/ Refuse(s)
    PROVE  DOMAIN req' = Slots /\ Goes
<1> PICK r : r = req[s]
  OBVIOUS
<1>1. s \in Slots /\ req[s] # NoReq /\ Whole(r) /\ r.then \in Nexts /\ DOMAIN req = Slots
  BY DEF Busy, FormInv, ReqOK, Made
<1>0. ASSUME NEW q, req' = [req EXCEPT ![s] = q], q = NoReq \/ Onward(r, q)
      PROVE  DOMAIN req' = Slots /\ Goes
  BY <1>0, <1>1, OneGoes
<1>2. CASE WriteHit(s)
  <2> PICK i : req' = [req EXCEPT ![s] =
                         [r EXCEPT !.found = @ \ {i},
                                   !.phase = IF r.found = {i} THEN AfterHits(r) ELSE @]]
    BY <1>2 DEF WriteHit
  <2> PICK x, y : /\ y = r.found \ {i}
                  /\ x = IF r.found = {i} THEN AfterHits(r) ELSE r.phase
    OBVIOUS
  <2>1. req' = [req EXCEPT ![s] = [r EXCEPT !.found = y, !.phase = x]]
    BY <1>1 DEF Whole, Fields
  <2>2. x \notin {"insert", "check", "loading"}
    BY <1>2 DEF WriteHit, AfterHits
  <2>3. Onward(r, [r EXCEPT !.found = y, !.phase = x])
    BY <1>1, <2>2, FieldsMove
  <2> QED BY <1>0, <2>1, <2>3
<1>3. CASE DebitScore(s)
  <2> PICK y : y = Charged(r, users[r.user].score)
    OBVIOUS
  <2>1. req' = [req EXCEPT ![s] = [r EXCEPT !.phase = "store", !.score = y]]
    BY <1>3 DEF DebitScore
  <2>2. Onward(r, [r EXCEPT !.phase = "store", !.score = y])
    BY <1>1, FieldsMove
  <2> QED BY <1>0, <2>1, <2>2
<1>4. CASE StoreScore(s) \/ Switch(s)
  <2> PICK x : /\ req' = [req EXCEPT ![s] = [r EXCEPT !.phase = x]]
               /\ x \notin {"insert", "check", "loading"}
    BY <1>1, <1>4 DEF StoreScore, Switch, Nexts
  <2>1. Onward(r, [r EXCEPT !.phase = x])
    BY <1>1, FieldsMove
  <2> QED BY <1>0, <2>1
<1>5. CASE Ban(s)
  <2>1. req' = [req EXCEPT ![s] = [r EXCEPT !.phase = "switch", !.penalty = "severe", !.then = "hint"]]
    BY <1>5 DEF Ban, Punish
  <2>2. Onward(r, [r EXCEPT !.phase = "switch", !.penalty = "severe", !.then = "hint"])
    BY <1>1, FieldsMove DEF Nexts
  <2> QED BY <1>0, <2>1, <2>2
<1>6. CASE CountHints(s)
  <2> PICK y : y = hits[r.user].today
    OBVIOUS
  <2>1. req' = [req EXCEPT ![s] = [r EXCEPT !.phase = "serious", !.today = y]]
    BY <1>6 DEF CountHints
  <2>2. Onward(r, [r EXCEPT !.phase = "serious", !.today = y])
    BY <1>1, FieldsMove
  <2> QED BY <1>0, <2>1, <2>2
<1>7. CASE CountSerious(s)
  <2> PICK y : y = hits[r.user].serious
    OBVIOUS
  <2>1. \/ req' = [req EXCEPT ![s] = [[r EXCEPT !.serious = y] EXCEPT !.phase = "judge"]]
        \/ req' = [req EXCEPT ![s] = [[r EXCEPT !.serious = y]
                                        EXCEPT !.phase = "switch", !.penalty = "hint", !.then = "judge"]]
    BY <1>7 DEF CountSerious, Punish, Spare
  <2>2. /\ Onward(r, [[r EXCEPT !.serious = y] EXCEPT !.phase = "judge"])
        /\ Onward(r, [[r EXCEPT !.serious = y]
                       EXCEPT !.phase = "switch", !.penalty = "hint", !.then = "judge"])
    BY <1>1, FieldsMove DEF Nexts
  <2> QED BY <1>0, <2>1, <2>2
<1>8. CASE Judge(s)
  <2> PICK v : v = Verdict(r)
    OBVIOUS
  <2>1. v \in {"write", "refuse"}
    BY DEF Verdict
  <2>2. CASE req' = [req EXCEPT ![s] = [r EXCEPT !.phase = v]]
    <3>1. Onward(r, [r EXCEPT !.phase = v])
      BY <1>1, <2>1, FieldsMove
    <3> QED BY <1>0, <2>2, <3>1
  <2>3. ASSUME NEW kind,
               req' = [req EXCEPT ![s] = [r EXCEPT !.phase = "switch", !.penalty = kind, !.then = v]]
        PROVE  DOMAIN req' = Slots /\ Goes
    <3>1. Onward(r, [r EXCEPT !.phase = "switch", !.penalty = kind, !.then = v])
      BY <1>1, <2>1, FieldsMove DEF Nexts
    <3> QED BY <1>0, <2>3, <3>1
  <2>4. \/ req' = [req EXCEPT ![s] = [r EXCEPT !.phase = v]]
        \/ \E kind : req' = [req EXCEPT ![s] = [r EXCEPT !.phase = "switch", !.penalty = kind, !.then = v]]
    BY <1>8 DEF Judge, Punish, Spare
  <2> QED BY <2>2, <2>3, <2>4
<1>9. CASE Refuse(s)
  BY <1>0, <1>9 DEF Refuse
<1> QED BY <1>2, <1>3, <1>4, <1>5, <1>6, <1>7, <1>8, <1>9

LEMMA GuardMoves ==
    ASSUME FormInv, GuardNext
    PROVE  DOMAIN req' = Slots /\ Moves
<1>1. ASSUME NEW s \in Busy, KeepMatcher(s) PROVE DOMAIN req' = Slots /\ Moves
  <2>1. s \in Slots /\ req[s] # NoReq /\ Whole(req[s]) /\ req[s].then \in Nexts
    BY DEF Busy, FormInv, ReqOK, Made
  <2> QED BY <1>1, <2>1, DecidedIsLater, OneMoves DEF KeepMatcher, FormInv
<1>2. ASSUME NEW w, NEW p, CreateWord(w, p) \/ DeleteWord(w, p) PROVE DOMAIN req' = Slots /\ Moves
  BY <1>2 DEF CreateWord, DeleteWord, Relist, FormInv, Moves
<1>3. ASSUME NEW p, Crash(p) PROVE DOMAIN req' = Slots /\ Moves
  BY <1>3 DEF Crash, Moves
<1>4. CASE Minute
  <2>1. req' = [s \in Slots |-> IF s \in Loading THEN [req[s] EXCEPT !.wait = @ + 1] ELSE req[s]]
    BY <1>4 DEF Minute
  <2>2. ASSUME NEW s \in Loading PROVE s \in Slots /\ req[s] # NoReq /\ Later(req[s], req'[s])
    <3>1. s \in Slots /\ req[s] # NoReq /\ Whole(req[s]) /\ req[s].then \in Nexts /\ req[s].phase = "loading"
      BY <2>2 DEF Loading, Busy, FormInv, ReqOK, Made
    <3> PICK y : y = req[s].wait + 1
      OBVIOUS
    <3>2. req'[s] = [req[s] EXCEPT !.wait = y]
      BY <2>1, <2>2, <3>1 DEF Whole, Fields
    <3>3. Later(req[s], [req[s] EXCEPT !.wait = y])
      BY <3>1 DEF Later, Whole, Fields
    <3> QED BY <3>1, <3>2, <3>3
  <2> QED BY <2>1, <2>2 DEF Moves
<1>5. CASE Day
  BY <1>5 DEF Day, FormInv, Moves
<1> QED BY <1>1, <1>2, <1>3, <1>4, <1>5, CheckTextMoves, EnforceMoves, GoingIsMoving DEF GuardNext
-----------------------------------------------------------------------------
(* Requests that begin *)

Tables == <<threads, replies, books, bios, passed>>

\* The books that the limit is about.
Shown(b)   == books[b].status = "on_sale" /\ ~books[b].restored /\ ~books[b].gone
ShownOf(u) == {b \in OnSaleOf(u) : ~books[b].restored /\ ~books[b].gone}

GuardTables == <<listed, matcher, users, hits, penalties>>

\* Nothing was found out about a request yet.
Blank(r) == r.phase \in {"check", "write"} /\ r.lag = 0 /\ r.wait = 0 /\ r.today = 0 /\ r.serious = 0

\* A free slot takes a request that is all made, and nothing else happens.
Fresh(s, r) ==
    /\ req[s] = NoReq /\ req' = [req EXCEPT ![s] = r]
    /\ Made(r) /\ Blank(r) /\ UNCHANGED GuardTables
    /\ r.kind \in {"book", "relist"} => Cardinality(ShownOf(r.user)) < MaxBooks
    /\ UNCHANGED Tables

\* A user asks for something to be published, changed or taken away.
AsksWith(s, u, p, text) ==
    \/ PostThread(s, u, p, text) \/ PublishBook(s, u, p, text) \/ EditProfile(s, u, p, text)
    \/ \E b \in DOMAIN books : ReviseBook(s, u, p, b, text)
    \/ \E t \in DOMAIN threads : EditThread(s, u, p, t, text) \/ PostReply(s, u, p, t, text)
    \/ \E c \in talks : SendMessage(s, u, p, c, text)

AsksFor(s, u, p) ==
    \/ \E v \in Users : OpenTalk(s, u, p, v)
    \/ \E i \in DOMAIN replies : AskDeleteReply(s, u, p, i)
    \/ \E b \in DOMAIN books : RelistBook(s, u, p, b)

LEMMA RequestParts ==
    ASSUME NEW u, NEW p, NEW kind, NEW on, NEW title, NEW content,
           NEW r, r = Request(u, p, kind, on, title, content)
    PROVE  /\ Whole(r) /\ r.user = u /\ r.proc = p /\ r.then = "none" /\ r.phase = "check"
           /\ r.kind = kind /\ r.on = on /\ r.title = title /\ r.content = content
           /\ (title = <<>> /\ content \in Texts => r.text = content)
           /\ Blank(r)
<1>1. /\ Whole(r) /\ r.user = u /\ r.proc = p /\ r.then = "none" /\ r.phase = "check"
      /\ r.kind = kind /\ r.on = on /\ r.title = title /\ r.content = content
  BY DEF Request, Whole, Fields
<1>2. r.text = title \o content
  BY DEF Request
<1>3. ASSUME title = <<>>, content \in Texts PROVE title \o content = content
  BY <1>3, ForumAssumption, ConcatEmptySeq
<1>4. Blank(r)
  BY DEF Request, Blank
<1> QED BY <1>1, <1>2, <1>3, <1>4

\* A request that is not checked.
LEMMA UncheckedParts ==
    ASSUME NEW r, Whole(r), NEW q, q = [r EXCEPT !.phase = "write"]
    PROVE  /\ Whole(q) /\ q.user = r.user /\ q.proc = r.proc /\ q.then = r.then
           /\ q.phase = "write" /\ q.kind = r.kind /\ q.on = r.on
           /\ Blank(r) => Blank(q)
BY DEF Whole, Fields, Blank

\* Both tests of the limit are over more books than it is about.
LEMMA BelowMeansBelow ==
    ASSUME TableTypes, NEW u, NEW counted, BelowLimit(u, counted),
           ShownOf(u) \subseteq counted, counted \subseteq OnSaleOf(u)
    PROVE  Cardinality(ShownOf(u)) < MaxBooks
<1>1. Len(books) \in Nat /\ DOMAIN books = 1..Len(books)
  BY LenProperties DEF TableTypes
<1>2. IsFiniteSet(counted)
  <2>1. IsFiniteSet(DOMAIN books)
    BY <1>1, FS_Interval
  <2>2. counted \in SUBSET DOMAIN books
    BY DEF OnSaleOf
  <2> QED BY <2>1, <2>2, FS_Subset
<1>3. /\ Cardinality(ShownOf(u)) <= Cardinality(counted) /\ Cardinality(counted) \in Nat
      /\ Cardinality(ShownOf(u)) \in Nat
  BY <1>2, FS_Subset, FS_CardinalityType
<1> QED BY <1>3, ForumAssumption DEF BelowLimit

LEMMA TextAsksAreMade ==
    ASSUME FormInv, StoredWasChecked, NEW s \in Slots, NEW u \in Users, NEW p \in Procs,
           NEW text \in Texts, AsksWith(s, u, p, text)
    PROVE  \E r : Fresh(s, r)
<1>1. ASSUME NEW r, BeginOnly(s, r), Made(r), Blank(r), r.kind # "relist",
             r.kind = "book" => Cardinality(ShownOf(r.user)) < MaxBooks
      PROVE  \E q : Fresh(s, q)
  <2>1. Fresh(s, r)
    BY <1>1 DEF BeginOnly, Begin, Fresh, forumVars, Tables, GuardTables
  <2> QED BY <2>1
<1>2. ASSUME NEW kind \in {"thread", "book", "profile", "message"},
             BeginOnly(s, Request(u, p, kind, "none", <<>>, text)),
             kind = "book" => Cardinality(ShownOf(u)) < MaxBooks
      PROVE  \E q : Fresh(s, q)
  <2> PICK r : r = Request(u, p, kind, "none", <<>>, text)
    OBVIOUS
  <2>1. /\ Whole(r) /\ r.user = u /\ r.proc = p /\ r.then = "none" /\ Blank(r)
        /\ r.kind = kind /\ r.title = <<>> /\ r.content = text /\ r.text = text
    BY RequestParts
  <2>2. Made(r)
    BY <2>1 DEF Made, Nexts, Titles
  <2> QED BY <1>1, <1>2, <2>1, <2>2
<1>3. ASSUME NEW t \in DOMAIN threads, PostReply(s, u, p, t, text) PROVE \E q : Fresh(s, q)
  <2> PICK r : r = Request(u, p, "reply", t, <<>>, text)
    OBVIOUS
  <2>1. /\ Whole(r) /\ r.user = u /\ r.proc = p /\ r.then = "none" /\ Blank(r)
        /\ r.kind = "reply" /\ r.on = t
    BY RequestParts
  <2>2. Made(r)
    BY <2>1 DEF Made, Nexts
  <2> QED BY <1>1, <1>3, <2>1, <2>2 DEF PostReply
<1>4. ASSUME NEW t \in DOMAIN threads, EditThread(s, u, p, t, text) PROVE \E q : Fresh(s, q)
  <2>1. threads[t].title \in Titles /\ threads[t].content \in Texts
    BY Rows DEF FormInv, ThreadRows
  <2> PICK r, z : /\ r = Request(u, p, "edit", t, text, threads[t].content)
                  /\ z = Request(u, p, "edit", t, threads[t].title, text)
    OBVIOUS
  <2>2. /\ Whole(r) /\ r.user = u /\ r.proc = p /\ r.then = "none" /\ Blank(r)
        /\ r.kind = "edit" /\ r.on = t /\ r.title = text /\ r.content = threads[t].content
        /\ Whole(z) /\ z.user = u /\ z.proc = p /\ z.then = "none" /\ Blank(z)
        /\ z.kind = "edit" /\ z.on = t /\ z.title = threads[t].title /\ z.content = text
    BY RequestParts
  <2>3. Made(r) /\ Made(z)
    BY <2>1, <2>2 DEF Made, Nexts, Titles
  <2> QED BY <1>1, <1>4, <2>2, <2>3 DEF EditThread
<1>5. ASSUME NEW b \in DOMAIN books, ReviseBook(s, u, p, b, text) PROVE \E q : Fresh(s, q)
  <2> PICK r : r = Request(u, p, "revise", b, <<>>, text)
    OBVIOUS
  <2> PICK x, y : x = <<>> /\ y = books[b].remark
    OBVIOUS
  <2> PICK z : z = [r EXCEPT !.phase = "write", !.text = x, !.content = y]
    OBVIOUS
  <2>0. books[b].seller = u
    BY <1>5 DEF ReviseBook
  <2>1. books[b].remark \in Texts /\ <<(<<>>), books[b].remark>> \in passed
    BY Rows DEF FormInv, BookRows, StoredWasChecked
  <2>2. /\ Whole(r) /\ r.user = u /\ r.proc = p /\ r.then = "none" /\ Blank(r)
        /\ r.kind = "revise" /\ r.on = b /\ r.content = text /\ r.text = text
    BY RequestParts
  <2>3. /\ Whole(z) /\ z.user = u /\ z.proc = p /\ z.then = "none" /\ Blank(z)
        /\ z.kind = "revise" /\ z.on = b /\ z.text = x /\ z.content = y
    BY <2>2 DEF Whole, Fields, Blank
  <2>4. Made(r)
    BY <2>0, <2>2 DEF Made, Nexts
  <2>5. Made(z)
    BY <2>0, <2>1, <2>3 DEF Made, Nexts
  <2> QED BY <1>1, <1>5, <2>2, <2>3, <2>4, <2>5 DEF ReviseBook
<1>6. ASSUME PublishBook(s, u, p, text) PROVE \E q : Fresh(s, q)
  <2> PICK counted : counted = {b \in OnSaleOf(u) : ~books[b].gone}
    OBVIOUS
  <2>1. BelowLimit(u, counted) /\ ShownOf(u) \subseteq counted /\ counted \subseteq OnSaleOf(u)
    BY <1>6 DEF PublishBook, ShownOf
  <2>2. Cardinality(ShownOf(u)) < MaxBooks
    BY <2>1, BelowMeansBelow DEF FormInv
  <2> QED BY <1>2, <1>6, <2>2 DEF PublishBook
<1> QED BY <1>2, <1>3, <1>4, <1>5, <1>6 DEF AsksWith, PostThread, EditProfile, SendMessage

LEMMA OtherAsksAreMade ==
    ASSUME FormInv, NEW s \in Slots, NEW u \in Users, NEW p \in Procs, AsksFor(s, u, p)
    PROVE  \E r : Fresh(s, r)
<1>1. ASSUME NEW kind \in {"talk", "unreply", "relist"}, NEW on,
             BeginOnly(s, [Request(u, p, kind, on, <<>>, <<>>) EXCEPT !.phase = "write"]),
             kind = "unreply" => on \in DOMAIN replies,
             kind = "relist" => /\ on \in DOMAIN books /\ books[on].seller = u
                                /\ Cardinality(ShownOf(u)) < MaxBooks
      PROVE  \E q : Fresh(s, q)
  <2> PICK q : q = Request(u, p, kind, on, <<>>, <<>>)
    OBVIOUS
  <2> PICK r : r = [q EXCEPT !.phase = "write"]
    OBVIOUS
  <2>1. Made(r) /\ Blank(r) /\ r.user = u /\ r.kind = kind
    <3>1. /\ Whole(q) /\ q.user = u /\ q.proc = p /\ q.then = "none" /\ Blank(q)
          /\ q.kind = kind /\ q.on = on
      BY RequestParts
    <3>2. /\ Whole(r) /\ r.user = u /\ r.proc = p /\ r.then = "none" /\ Blank(r)
          /\ r.kind = kind /\ r.on = on
      BY <3>1, UncheckedParts
    <3> QED BY <1>1, <3>2 DEF Made, Nexts
  <2>2. Fresh(s, r)
    BY <1>1, <2>1 DEF BeginOnly, Begin, Fresh, forumVars, Tables, GuardTables
  <2> QED BY <2>2
<1>2. ASSUME NEW v \in Users, OpenTalk(s, u, p, v) PROVE \E q : Fresh(s, q)
  BY <1>1, <1>2 DEF OpenTalk
<1>3. ASSUME NEW i \in DOMAIN replies, AskDeleteReply(s, u, p, i) PROVE \E q : Fresh(s, q)
  BY <1>1, <1>3 DEF AskDeleteReply
<1>4. ASSUME NEW b \in DOMAIN books, RelistBook(s, u, p, b) PROVE \E q : Fresh(s, q)
  <2>1. Cardinality(ShownOf(u)) < MaxBooks
    BY <1>4, BelowMeansBelow DEF FormInv, RelistBook, ShownOf
  <2> QED BY <1>1, <1>4, <2>1 DEF RelistBook
<1> QED BY <1>2, <1>3, <1>4 DEF AsksFor
-----------------------------------------------------------------------------
(* Rows *)

LEMMA RowWritten ==
    ASSUME NEW S, NEW q \in Seq(S), NEW i \in DOMAIN q, NEW row \in S
    PROVE  /\ [q EXCEPT ![i] = row] \in Seq(S)
           /\ DOMAIN [q EXCEPT ![i] = row] = DOMAIN q
           /\ \A j \in DOMAIN q : [q EXCEPT ![i] = row][j] = IF j = i THEN row ELSE q[j]
BY ExceptSeq, LenProperties

LEMMA RowAdded ==
    ASSUME NEW S, NEW q \in Seq(S), NEW row \in S
    PROVE  /\ Append(q, row) \in Seq(S)
           /\ Len(q) + 1 \in DOMAIN Append(q, row) /\ Len(q) + 1 \notin DOMAIN q
           /\ DOMAIN Append(q, row) = DOMAIN q \cup {Len(q) + 1}
           /\ Append(q, row)[Len(q) + 1] = row
           /\ \A j \in DOMAIN q : Append(q, row)[j] = q[j]
<1>1. /\ Append(q, row) \in Seq(S) /\ Len(Append(q, row)) = Len(q) + 1
      /\ \A j \in 1..Len(q) : Append(q, row)[j] = q[j]
      /\ Append(q, row)[Len(q) + 1] = row
  BY AppendProperties
<1>2. Len(q) \in Nat /\ DOMAIN q = 1..Len(q) /\ DOMAIN Append(q, row) = 1..(Len(q) + 1)
  BY <1>1, LenProperties
<1> QED BY <1>1, <1>2

\* Tables grow; what replies and books belong to stays.
Grows ==
    /\ DOMAIN threads \subseteq DOMAIN threads'
    /\ DOMAIN replies \subseteq DOMAIN replies'
    /\ DOMAIN books \subseteq DOMAIN books'
    /\ \A i \in DOMAIN replies : /\ replies'[i].floor = replies[i].floor
                                 /\ replies'[i].thread = replies[i].thread
    /\ \A b \in DOMAIN books : books'[b].seller = books[b].seller
    /\ passed \subseteq passed'

LEMMA StillMade ==
    ASSUME Grows, NEW r, Made(r), NEW q, q = r \/ Later(r, q)
    PROVE  Made(q)'
BY DEF Grows, Made, Later

LEMMA ReqKeeps ==
    ASSUME Grows, NEW s, ReqOK(s),
           \/ req'[s] = req[s]
           \/ req'[s] = NoReq
           \/ req[s] # NoReq /\ Later(req[s], req'[s])
    PROVE  ReqOK(s)'
<1> SUFFICES ASSUME req'[s] # NoReq PROVE (Made(req[s]) /\ Placed(req[s]))'
    BY DEF ReqOK
<1> PICK r, q : r = req[s] /\ q = req'[s]
    OBVIOUS
<1>1. Made(r) /\ Placed(r) /\ (q = r \/ Later(r, q))
    BY DEF ReqOK
<1>2. Made(q)'
    BY <1>1, StillMade
<1>3. Placed(q)'
    BY <1>1 DEF Placed, Later, Grows
<1> QED BY <1>2, <1>3 DEF Made, Placed, Whole

\* What a step does that lets requests only move, and tables only grow.
Kept == TableTypes' /\ StoredWasChecked' /\ Grows

\* Replies stay where they are, and threads show as many as they did.
RepliesStand ==
    /\ DOMAIN replies' = DOMAIN replies
    /\ \A i \in DOMAIN replies : /\ replies'[i].floor = replies[i].floor
                                 /\ replies'[i].thread = replies[i].thread
                                 /\ replies'[i].after = replies[i].after
                                 /\ replies'[i].taken = replies[i].taken
    /\ \A t \in DOMAIN threads' :
         \/ threads'[t].count = 0
         \/ t \in DOMAIN threads /\ threads'[t].count = threads[t].count

\* No book comes on sale that the limit is about.
BooksStand ==
    /\ DOMAIN books' = DOMAIN books
    /\ \A b \in DOMAIN books : books'[b].seller = books[b].seller /\ (Shown(b)' => Shown(b))

LEMMA KeptForm ==
    ASSUME FormInv, Kept, DOMAIN req' = Slots, Moves
    PROVE  FormInv' /\ StoredWasChecked'
BY ReqKeeps DEF FormInv, Kept, Moves

LEMMA SameTables ==
    ASSUME FormInv, StoredWasChecked, UNCHANGED Tables
    PROVE  Kept /\ RepliesStand /\ BooksStand
<1>1. TableTypes' /\ StoredWasChecked' /\ Grows
  BY DEF FormInv, TableTypes, StoredWasChecked, Grows, Tables
<1>2. RepliesStand /\ BooksStand
  BY DEF RepliesStand, BooksStand, Shown, Tables
<1> QED BY <1>1, <1>2 DEF Kept
-----------------------------------------------------------------------------
(* What requests write *)

\* The request of s is made, and ends.
LEMMA Ending ==
    ASSUME FormInv, NEW s \in Busy, Ends(s)
    PROVE  /\ s \in Slots /\ Made(req[s]) /\ Placed(req[s])
           /\ DOMAIN req' = Slots /\ Moves
<1>1. s \in Slots /\ req[s] # NoReq /\ DOMAIN req = Slots /\ Made(req[s]) /\ Placed(req[s])
  BY DEF Busy, FormInv, ReqOK
<1>2. req' = [req EXCEPT ![s] = NoReq]
  BY DEF Ends
<1> QED BY <1>1, <1>2, OneMoves

LEMMA ThreadsWritten ==
    ASSUME FormInv, StoredWasChecked, NEW s \in Busy, WriteThread(s) \/ WriteEdit(s)
    PROVE  Kept /\ RepliesStand /\ BooksStand /\ DOMAIN req' = Slots /\ Moves
<1> PICK r : r = req[s]
  OBVIOUS
<1>0. Made(r) /\ DOMAIN req' = Slots /\ Moves
  BY Ending DEF WriteThread, WriteEdit
<1>t. TableTypes
  BY DEF FormInv
<1>1. CASE WriteThread(s)
  <2> PICK row : row = [status |-> "published", author |-> r.user, deleted |-> FALSE,
                        title |-> r.title, content |-> r.content, count |-> 0]
    OBVIOUS
  <2>1. row \in ThreadRows /\ row.title = r.title /\ row.content = r.content /\ row.count = 0
    BY <1>0, <1>1 DEF Made, WriteThread, Writing, ThreadRows, Statuses
  <2>2. /\ threads' = Append(threads, row) /\ passed' = passed \cup {<<row.title, row.content>>}
        /\ UNCHANGED <<replies, books, bios>>
    BY <1>1, <2>1 DEF WriteThread, Insert
  <2>3. /\ threads' \in Seq(ThreadRows) /\ DOMAIN threads' = DOMAIN threads \cup {Len(threads) + 1}
        /\ threads'[Len(threads) + 1] = row
        /\ \A j \in DOMAIN threads : threads'[j] = threads[j]
    BY <1>t, <2>1, <2>2, RowAdded DEF TableTypes
  <2>4. StoredWasChecked'
    BY <2>2, <2>3 DEF StoredWasChecked
  <2>5. TableTypes' /\ Grows
    BY <1>t, <2>2, <2>3 DEF TableTypes, Grows
  <2>6. RepliesStand /\ BooksStand
    BY <2>1, <2>2, <2>3 DEF RepliesStand, BooksStand, Shown
  <2> QED BY <1>0, <2>4, <2>5, <2>6 DEF Kept
<1>2. CASE WriteEdit(s)
  <2> PICK t : t = r.on
    OBVIOUS
  <2> PICK row : row = [threads[t] EXCEPT !.title = r.title, !.content = r.content]
    OBVIOUS
  <2>0. t \in DOMAIN threads /\ r.title \in Titles /\ r.content \in Texts
    BY <1>0, <1>2 DEF Made, WriteEdit, Writing
  <2>1. /\ row \in ThreadRows /\ row.title = r.title /\ row.content = r.content
        /\ row.count = threads[t].count
    BY <1>t, <2>0, Rows DEF ThreadRows
  <2>2. /\ threads' = [threads EXCEPT ![t] = row]
        /\ passed' = passed \cup {<<row.title, row.content>>}
        /\ UNCHANGED <<replies, books, bios>>
    BY <1>2, <2>1 DEF WriteEdit, Edited
  <2>3. /\ threads' \in Seq(ThreadRows) /\ DOMAIN threads' = DOMAIN threads
        /\ \A j \in DOMAIN threads : threads'[j] = IF j = t THEN row ELSE threads[j]
    BY <1>t, <2>0, <2>1, <2>2, RowWritten DEF TableTypes
  <2>4. StoredWasChecked'
    BY <2>2, <2>3 DEF StoredWasChecked
  <2>5. TableTypes' /\ Grows
    BY <1>t, <2>2, <2>3 DEF TableTypes, Grows
  <2>6. RepliesStand /\ BooksStand
    BY <2>1, <2>2, <2>3 DEF RepliesStand, BooksStand, Shown
  <2> QED BY <1>0, <2>4, <2>5, <2>6 DEF Kept
<1> QED BY <1>1, <1>2

\* What a book or a profile writes has passed, now or when it was read.
LEMMA WrittenHasPassed ==
    ASSUME NEW r, Made(r), r.kind \in {"book", "revise", "profile"}, PassedAlone(r)
    PROVE  /\ r.content \in Texts /\ passed \subseteq passed'
           /\ <<(<<>>), r.content>> \in passed'
           /\ r.kind # "revise" => r.text = r.content
<1>1. r.content \in Texts /\ r.content # <<>>
  BY ForumAssumption DEF Made
<1> QED BY <1>1 DEF Made, PassedAlone

LEMMA BooksWritten ==
    ASSUME FormInv, StoredWasChecked, NEW s \in Busy,
           WriteBook(s) \/ WriteRevision(s) \/ WriteRelist(s)
    PROVE  /\ Kept /\ RepliesStand /\ DOMAIN req' = Slots /\ Moves
           /\ WriteRevision(s) => BooksStand
<1> PICK r : r = req[s]
  OBVIOUS
<1>0. Made(r) /\ DOMAIN req' = Slots /\ Moves
  BY Ending DEF WriteBook, WriteRevision, WriteRelist
<1>t. TableTypes
  BY DEF FormInv
<1>1. CASE WriteBook(s)
  <2>0. /\ r.content \in Texts /\ passed \subseteq passed' /\ r.text = r.content
        /\ <<(<<>>), r.content>> \in passed' /\ r.user \in Users
    BY <1>0, <1>1, WrittenHasPassed DEF WriteBook, Writing, Made
  <2> PICK row : row = [seller |-> r.user, status |-> "on_sale",
                        gone |-> FALSE, restored |-> FALSE, remark |-> r.text]
    OBVIOUS
  <2>1. row \in BookRows /\ row.remark = r.content
    BY <2>0 DEF BookRows
  <2>2. /\ books' = Append(books, row)
        /\ UNCHANGED <<threads, replies, bios>>
    BY <1>1 DEF WriteBook, Insert
  <2>3. /\ books' \in Seq(BookRows) /\ DOMAIN books' = DOMAIN books \cup {Len(books) + 1}
        /\ books'[Len(books) + 1] = row
        /\ \A j \in DOMAIN books : books'[j] = books[j]
    BY <1>t, <2>1, <2>2, RowAdded DEF TableTypes
  <2>4. StoredWasChecked'
    BY <2>0, <2>1, <2>2, <2>3 DEF StoredWasChecked
  <2>5. TableTypes' /\ Grows
    BY <1>t, <2>0, <2>2, <2>3 DEF TableTypes, Grows
  <2>6. RepliesStand
    BY <2>2 DEF RepliesStand
  <2>7. ~WriteRevision(s)
    BY <1>1 DEF WriteRevision, WriteBook, Writing
  <2> QED BY <1>0, <2>4, <2>5, <2>6, <2>7 DEF Kept
<1>2. CASE WriteRevision(s)
  <2> PICK b : b = r.on
    OBVIOUS
  <2> PICK row : row = [books[b] EXCEPT !.remark = r.content]
    OBVIOUS
  <2>0. /\ r.content \in Texts /\ passed \subseteq passed'
        /\ <<(<<>>), r.content>> \in passed' /\ b \in DOMAIN books
    BY <1>0, <1>2, WrittenHasPassed DEF WriteRevision, Writing, Made
  <2>1. /\ row \in BookRows /\ row.remark = r.content /\ row.seller = books[b].seller
        /\ row.status = books[b].status /\ row.gone = books[b].gone
        /\ row.restored = books[b].restored
    BY <1>t, <2>0, Rows DEF BookRows
  <2>2. /\ books' = [books EXCEPT ![b] = row]
        /\ UNCHANGED <<threads, replies, bios>>
    BY <1>2 DEF WriteRevision
  <2>3. /\ books' \in Seq(BookRows) /\ DOMAIN books' = DOMAIN books
        /\ \A j \in DOMAIN books : books'[j] = IF j = b THEN row ELSE books[j]
    BY <1>t, <2>0, <2>1, <2>2, RowWritten DEF TableTypes
  <2>4. StoredWasChecked'
    BY <2>0, <2>1, <2>2, <2>3 DEF StoredWasChecked
  <2>5. TableTypes' /\ Grows
    BY <1>t, <2>0, <2>1, <2>2, <2>3 DEF TableTypes, Grows
  <2>6. RepliesStand
    BY <2>2 DEF RepliesStand
  <2>7. Shown(b)' => Shown(b)
    BY <2>0, <2>1, <2>3 DEF Shown
  <2>8. BooksStand
    BY <2>1, <2>3, <2>7 DEF BooksStand, Shown
  <2> QED BY <1>0, <2>4, <2>5, <2>6, <2>8 DEF Kept
<1>3. CASE WriteRelist(s)
  <2> PICK b : b = r.on
    OBVIOUS
  <2> PICK row : row = [books[b] EXCEPT !.status = "on_sale"]
    OBVIOUS
  <2>0. b \in DOMAIN books /\ UNCHANGED <<threads, replies, bios, passed>>
    BY <1>0, <1>3 DEF WriteRelist, Writing, Made
  <2>1. row \in BookRows /\ row.remark = books[b].remark /\ row.seller = books[b].seller
    BY <1>t, <2>0, Rows DEF BookRows
  <2>2. books' = books \/ books' = [books EXCEPT ![b] = row]
    BY <1>3 DEF WriteRelist
  <2>3. /\ books' \in Seq(BookRows) /\ DOMAIN books' = DOMAIN books
        /\ \A j \in DOMAIN books : books'[j] = books[j] \/ (j = b /\ books'[j] = row)
    <3>1. CASE books' = books
      BY <1>t, <3>1 DEF TableTypes
    <3>2. CASE books' = [books EXCEPT ![b] = row]
      BY <1>t, <2>0, <2>1, <3>2, RowWritten DEF TableTypes
    <3> QED BY <2>2, <3>1, <3>2
  <2>4. StoredWasChecked'
    BY <2>0, <2>1, <2>2, <2>3 DEF StoredWasChecked
  <2>5. TableTypes' /\ Grows
    BY <1>t, <2>0, <2>1, <2>2, <2>3 DEF TableTypes, Grows
  <2>6. RepliesStand
    BY <2>0 DEF RepliesStand
  <2>7. ~WriteRevision(s)
    BY <1>3 DEF WriteRevision, WriteRelist, Writing
  <2> QED BY <1>0, <2>4, <2>5, <2>6, <2>7 DEF Kept
<1> QED BY <1>1, <1>2, <1>3

LEMMA OthersWritten ==
    ASSUME FormInv, StoredWasChecked, NEW s \in Busy,
           WriteProfile(s) \/ WriteTalk(s) \/ WriteMessage(s)
    PROVE  Kept /\ RepliesStand /\ BooksStand /\ DOMAIN req' = Slots /\ Moves
<1> PICK r : r = req[s]
  OBVIOUS
<1>0. Made(r) /\ DOMAIN req' = Slots /\ Moves
  BY Ending DEF WriteProfile, WriteTalk, WriteMessage
<1>1. CASE WriteProfile(s)
  <2>1. /\ r.content \in Texts /\ passed \subseteq passed'
        /\ <<(<<>>), r.content>> \in passed' /\ r.user \in Users
    BY <1>0, <1>1, WrittenHasPassed DEF WriteProfile, Writing, Made
  <2>2. /\ bios' = [bios EXCEPT ![r.user] = r.content]
        /\ UNCHANGED <<threads, replies, books>>
    BY <1>1 DEF WriteProfile
  <2>3. TableTypes' /\ Grows
    BY <2>1, <2>2 DEF FormInv, TableTypes, Grows, Titles
  <2>4. StoredWasChecked'
    BY <2>1, <2>2 DEF StoredWasChecked, FormInv, TableTypes
  <2>5. RepliesStand /\ BooksStand
    BY <2>2 DEF RepliesStand, BooksStand, Shown
  <2> QED BY <1>0, <2>3, <2>4, <2>5 DEF Kept
<1>2. CASE WriteTalk(s) \/ WriteMessage(s)
  <2>1. UNCHANGED Tables
    BY <1>2 DEF WriteTalk, WriteMessage, Tables, forumVars
  <2> QED BY <1>0, <2>1, SameTables
<1> QED BY <1>1, <1>2
-----------------------------------------------------------------------------
(* The review queue and the owners *)

\* A row of the thread or of the book gets another status.
LEMMA ThreadChanges ==
    ASSUME FormInv, StoredWasChecked, NEW t \in DOMAIN threads, NEW row \in ThreadRows,
           row.title = threads[t].title, row.content = threads[t].content,
           row.count = threads[t].count,
           threads' = [threads EXCEPT ![t] = row], UNCHANGED <<replies, books, bios, passed>>
    PROVE  Kept /\ RepliesStand /\ BooksStand
<1>1. /\ threads' \in Seq(ThreadRows) /\ DOMAIN threads' = DOMAIN threads
      /\ \A j \in DOMAIN threads : threads'[j] = IF j = t THEN row ELSE threads[j]
  BY RowWritten DEF FormInv, TableTypes
<1>2. StoredWasChecked'
  BY <1>1 DEF StoredWasChecked
<1>3. TableTypes' /\ Grows
  BY <1>1 DEF FormInv, TableTypes, Grows
<1>4. RepliesStand /\ BooksStand
  BY <1>1 DEF RepliesStand, BooksStand, Shown
<1> QED BY <1>1, <1>2, <1>3, <1>4 DEF Kept

LEMMA BookChanges ==
    ASSUME FormInv, StoredWasChecked, NEW b \in DOMAIN books, NEW row \in BookRows,
           row.remark = books[b].remark, row.seller = books[b].seller,
           row.status # "on_sale" \/ row.restored,
           books' = [books EXCEPT ![b] = row], UNCHANGED <<threads, replies, bios, passed>>
    PROVE  Kept /\ RepliesStand /\ BooksStand
<1>1. /\ books' \in Seq(BookRows) /\ DOMAIN books' = DOMAIN books
      /\ \A j \in DOMAIN books : books'[j] = IF j = b THEN row ELSE books[j]
  BY RowWritten DEF FormInv, TableTypes
<1>2. StoredWasChecked'
  BY <1>1 DEF StoredWasChecked
<1>3. TableTypes' /\ Grows
  BY <1>1 DEF FormInv, TableTypes, Grows
<1>4. RepliesStand /\ BooksStand
  BY <1>1 DEF RepliesStand, BooksStand, Shown
<1> QED BY <1>1, <1>2, <1>3, <1>4 DEF Kept

LEMMA ReplyChanges ==
    ASSUME FormInv, StoredWasChecked, NEW i \in DOMAIN replies, NEW row \in ReplyRows,
           row.floor = replies[i].floor, row.thread = replies[i].thread,
           replies' = [replies EXCEPT ![i] = row],
           threads' \in Seq(ThreadRows), DOMAIN threads' = DOMAIN threads,
           \A j \in DOMAIN threads : /\ threads'[j].title = threads[j].title
                                     /\ threads'[j].content = threads[j].content,
           UNCHANGED <<books, bios, passed>>
    PROVE  /\ Kept
           /\ DOMAIN replies' = DOMAIN replies
           /\ \A j \in DOMAIN replies : replies'[j] = IF j = i THEN row ELSE replies[j]
<1>1. /\ replies' \in Seq(ReplyRows) /\ DOMAIN replies' = DOMAIN replies
      /\ \A j \in DOMAIN replies : replies'[j] = IF j = i THEN row ELSE replies[j]
  BY RowWritten DEF FormInv, TableTypes
<1>2. StoredWasChecked'
  BY <1>1 DEF StoredWasChecked
<1>3. TableTypes' /\ Grows
  BY <1>1 DEF FormInv, TableTypes, Grows
<1> QED BY <1>1, <1>2, <1>3 DEF Kept

\* The review queue and the owners; none of them touches a request.
LEMMA QueueKeeps ==
    ASSUME FormInv, StoredWasChecked,
           \/ \E t \in DOMAIN threads : \/ DeleteThread(t)
                                        \/ \E st \in Statuses : ReviewThread(t, st)
           \/ \E i \in DOMAIN replies, st \in Statuses : ReviewReply(i, st)
           \/ \E b \in DOMAIN books : \/ \E deleted \in BOOLEAN : TakeDown(b, deleted)
                                      \/ \E st \in {"on_sale", "off_shelf", "deleted"} :
                                           ReviewBook(b, st)
    PROVE  Kept /\ RepliesStand /\ BooksStand /\ DOMAIN req' = Slots /\ Moves
<1>t. TableTypes /\ DOMAIN req = Slots
  BY DEF FormInv
<1>m. ASSUME UNCHANGED guardVars PROVE DOMAIN req' = Slots /\ Moves
  BY <1>m, <1>t DEF guardVars, Moves
<1>1. ASSUME NEW t \in DOMAIN threads, NEW st \in Statuses,
             DeleteThread(t) \/ ReviewThread(t, st)
      PROVE  Kept /\ RepliesStand /\ BooksStand /\ DOMAIN req' = Slots /\ Moves
  <2> PICK row : row = IF DeleteThread(t)
                       THEN [threads[t] EXCEPT !.status = "deleted", !.deleted = TRUE]
                       ELSE [threads[t] EXCEPT !.status = st, !.deleted = @ \/ st = "deleted"]
    OBVIOUS
  <2>1. /\ row \in ThreadRows /\ row.title = threads[t].title
        /\ row.content = threads[t].content /\ row.count = threads[t].count
    BY <1>t, <1>1, Rows DEF ThreadRows, Statuses
  <2>2. threads' = [threads EXCEPT ![t] = row] /\ UNCHANGED <<replies, books, bios, passed, guardVars>>
    BY <1>1 DEF DeleteThread, ReviewThread
  <2> QED BY <1>m, <2>1, <2>2, ThreadChanges
<1>2. ASSUME NEW i \in DOMAIN replies, NEW st \in Statuses, ReviewReply(i, st)
      PROVE  Kept /\ RepliesStand /\ BooksStand /\ DOMAIN req' = Slots /\ Moves
  <2> PICK row : row = [replies[i] EXCEPT !.status = st, !.gone = @ \/ st = "deleted"]
    OBVIOUS
  <2>1. /\ row \in ReplyRows /\ row.floor = replies[i].floor /\ row.thread = replies[i].thread
        /\ row.after = replies[i].after /\ row.taken = replies[i].taken
    BY <1>t, <1>2, Rows DEF ReplyRows
  <2>2. replies' = [replies EXCEPT ![i] = row] /\ UNCHANGED <<threads, books, bios, passed, guardVars>>
    BY <1>2 DEF ReviewReply
  <2>3. /\ Kept /\ DOMAIN replies' = DOMAIN replies
        /\ \A j \in DOMAIN replies : replies'[j] = IF j = i THEN row ELSE replies[j]
    BY <1>t, <2>1, <2>2, ReplyChanges DEF TableTypes
  <2>4. RepliesStand /\ BooksStand
    BY <2>1, <2>2, <2>3 DEF RepliesStand, BooksStand, Shown
  <2> QED BY <1>m, <2>2, <2>3, <2>4
<1>3. ASSUME NEW b \in DOMAIN books, NEW deleted \in BOOLEAN, TakeDown(b, deleted)
      PROVE  Kept /\ RepliesStand /\ BooksStand /\ DOMAIN req' = Slots /\ Moves
  <2> PICK row : row = [books[b] EXCEPT !.status = "off_shelf", !.gone = deleted, !.restored = FALSE]
    OBVIOUS
  <2>1. /\ row \in BookRows /\ row.remark = books[b].remark /\ row.seller = books[b].seller
        /\ row.status # "on_sale" \/ row.restored
    BY <1>t, <1>3, Rows DEF BookRows
  <2>2. books' = [books EXCEPT ![b] = row] /\ UNCHANGED <<threads, replies, bios, passed, guardVars>>
    BY <1>3 DEF TakeDown
  <2> QED BY <1>m, <2>1, <2>2, BookChanges
<1>4. ASSUME NEW b \in DOMAIN books, NEW st \in {"on_sale", "off_shelf", "deleted"}, ReviewBook(b, st)
      PROVE  Kept /\ RepliesStand /\ BooksStand /\ DOMAIN req' = Slots /\ Moves
  <2> PICK row : row = [books[b] EXCEPT !.status = st, !.restored = (st = "on_sale"),
                                        !.gone = @ \/ st = "deleted"]
    OBVIOUS
  <2>1. /\ row \in BookRows /\ row.remark = books[b].remark /\ row.seller = books[b].seller
        /\ row.status # "on_sale" \/ row.restored
    BY <1>t, <1>4, Rows DEF BookRows
  <2>2. UNCHANGED <<threads, replies, bios, passed, guardVars>>
    BY <1>4 DEF ReviewBook
  <2>3. books' = [books EXCEPT ![b].status = st, ![b].restored = (st = "on_sale"),
                               ![b].gone = @ \/ st = "deleted"]
    BY <1>4 DEF ReviewBook
  <2>4. books' = [books EXCEPT ![b] = row]
    BY <2>3
  <2> QED BY <1>m, <2>1, <2>2, <2>4, BookChanges
<1> QED BY <1>1, <1>2, <1>3, <1>4 DEF Statuses
-----------------------------------------------------------------------------
(* Floors and counts *)

LEMMA RepliesFinite ==
    ASSUME TableTypes, NEW t
    PROVE  IsFiniteSet(RepliesOf(t)) /\ IsFiniteSet(DOMAIN replies)
<1>1. Len(replies) \in Nat /\ DOMAIN replies = 1..Len(replies)
  BY LenProperties DEF TableTypes
<1>2. IsFiniteSet(DOMAIN replies)
  BY <1>1, FS_Interval
<1> QED BY <1>2, FS_Subset DEF RepliesOf

\* The next floor is above all the floors there are.
LEMMA NextFloorAbove ==
    ASSUME TableTypes, NEW t
    PROVE  NextFloor(t) \in Nat /\ \A i \in RepliesOf(t) : replies[i].floor < NextFloor(t)
<1> PICK floors : floors = {0} \cup {replies[i].floor : i \in RepliesOf(t)}
  OBVIOUS
<1>1. \A i \in RepliesOf(t) : replies[i].floor \in Nat
  BY Rows DEF RepliesOf, ReplyRows
<1>2. \E m \in floors : \A g \in floors : g <= m
  <2>1. CASE RepliesOf(t) = {}
    BY <2>1
  <2>2. CASE RepliesOf(t) # {}
    <3> PICK f : f = [i \in RepliesOf(t) |-> replies[i].floor]
      OBVIOUS
    <3>1. PICK i \in RepliesOf(t) : \A j \in RepliesOf(t) : f[j] <= f[i]
      BY <1>1, <2>2, RepliesFinite, LargestExists
    <3> QED BY <1>1, <3>1
  <2> QED BY <2>1, <2>2
<1> PICK f : f = CHOOSE n \in floors : \A g \in floors : g <= n
  OBVIOUS
<1>5. f \in floors /\ \A g \in floors : g <= f
  BY <1>2
<1>6. NextFloor(t) = 1 + f
  BY DEF NextFloor
<1>7. \A i \in RepliesOf(t) : replies[i].floor <= f
  BY <1>5
<1>8. f \in Nat
  <2>1. floors \subseteq Nat
    BY <1>1
  <2> QED BY <1>5, <2>1
<1>9. NextFloor(t) \in Nat /\ f < NextFloor(t)
  BY <1>6, <1>8
<1>10. ASSUME NEW i \in RepliesOf(t) PROVE replies[i].floor < NextFloor(t)
  <2> PICK n, m : n = replies[i].floor /\ m = NextFloor(t)
    OBVIOUS
  <2>1. n \in Nat /\ n <= f /\ m \in Nat /\ f < m
    BY <1>1, <1>7, <1>9, <1>10
  <2>2. n < m
    BY <1>8, <2>1
  <2> QED BY <2>2
<1> QED BY <1>9, <1>10

FloorsOK ==
    \A i \in DOMAIN replies : /\ replies[i].after \subseteq DOMAIN replies
                              /\ \A j \in replies[i].after : replies[j].floor < replies[i].floor

Left(t) == {i \in RepliesOf(t) : ~replies[i].taken}

ReplyInv == FloorsOK /\ CountNeverHigh

LEMMA RepliesStandStill ==
    ASSUME FormInv, ReplyInv, RepliesStand, Kept
    PROVE  ReplyInv'
<1>1. FloorsOK'
  BY DEF ReplyInv, FloorsOK, RepliesStand
<1>2. ASSUME NEW t \in DOMAIN threads' PROVE (threads[t].count <= Cardinality(Left(t)))'
  <2>1. RepliesOf(t)' = RepliesOf(t) /\ Left(t)' = Left(t)
    BY DEF RepliesOf, Left, RepliesStand
  <2>2. IsFiniteSet(Left(t))
    BY RepliesFinite, FS_Subset DEF Left, FormInv
  <2>3. Cardinality(Left(t)) \in Nat
    BY <2>2, FS_CardinalityType
  <2>4. CASE threads'[t].count = 0
    BY <2>1, <2>3, <2>4
  <2>5. CASE t \in DOMAIN threads /\ threads'[t].count = threads[t].count
    BY <2>1, <2>5 DEF ReplyInv, CountNeverHigh, Left
  <2> QED BY <2>4, <2>5 DEF RepliesStand
<1> QED BY <1>1, <1>2 DEF ReplyInv, CountNeverHigh, Left

\* A request that reads its floor stands above all that is there.
LEMMA FloorsRead ==
    ASSUME FormInv, StoredWasChecked, NEW s \in Busy, ReadFloor(s)
    PROVE  FormInv' /\ UNCHANGED Tables /\ UNCHANGED forumVars
<1> PICK r : r = req[s]
  OBVIOUS
<1> PICK x, y : x = NextFloor(r.on) /\ y = RepliesOf(r.on)
  OBVIOUS
<1> PICK q : q = [r EXCEPT !.phase = "insert", !.floor = x, !.seen = y]
  OBVIOUS
<1>1. /\ s \in Slots /\ Made(r) /\ DOMAIN req = Slots /\ TableTypes
      /\ \A z \in Slots : ReqOK(z)
  BY DEF Busy, FormInv, ReqOK
<1>2. req' = [req EXCEPT ![s] = q] /\ r.kind = "reply"
  BY <1>1 DEF ReadFloor, Writing
<1>3. UNCHANGED Tables /\ UNCHANGED forumVars
  BY DEF ReadFloor, forumVars, Tables
<1>4. /\ Whole(q) /\ q.user = r.user /\ q.proc = r.proc /\ q.then = r.then /\ q.kind = r.kind
      /\ q.on = r.on /\ q.title = r.title /\ q.content = r.content /\ q.text = r.text
      /\ q.phase = "insert" /\ q.floor = x /\ q.seen = y
  BY <1>1 DEF Whole, Fields, Made
<1>5. Made(q) /\ Placed(q)
  <2>1. Made(q)
    BY <1>1, <1>4 DEF Made
  <2>2. x \in Nat /\ y \subseteq DOMAIN replies /\ \A j \in y : replies[j].floor < x
    BY <1>1, NextFloorAbove DEF RepliesOf
  <2> QED BY <1>2, <1>4, <2>1, <2>2 DEF Placed
<1>6. DOMAIN req' = Slots /\ req'[s] = q /\ \A z \in Slots \ {s} : req'[z] = req[z]
  BY <1>1, <1>2
<1>7. ASSUME NEW z \in Slots PROVE ReqOK(z)'
  <2>1. CASE z = s
    <3>1. req'[z] = q
      BY <1>6, <2>1
    <3>2. (Made(q) /\ Placed(q))'
      BY <1>3, <1>5 DEF Made, Placed, Tables
    <3> QED BY <3>1, <3>2 DEF ReqOK, Made, Placed, Whole
  <2>2. CASE z # s
    <3>1. req'[z] = req[z] /\ ReqOK(z)
      BY <1>1, <1>6, <2>2
    <3> QED BY <1>3, <3>1 DEF ReqOK, Made, Placed, Whole, Tables
  <2> QED BY <2>1, <2>2
<1> QED BY <1>1, <1>3, <1>6, <1>7 DEF FormInv, TableTypes, Tables

LEMMA RepliesInserted ==
    ASSUME FormInv, StoredWasChecked, ReplyInv, NEW s \in Busy, InsertReply(s)
    PROVE  Kept /\ ReplyInv' /\ BooksStand /\ DOMAIN req' = Slots /\ Moves
<1> PICK r, t, i : r = req[s] /\ t = r.on /\ i = Len(replies) + 1
  OBVIOUS
<1>0. Made(r) /\ Placed(r) /\ r.phase = "insert" /\ DOMAIN req' = Slots /\ Moves
  BY Ending DEF InsertReply
<1>t. TableTypes
  BY DEF FormInv
<1>1. /\ r.floor \in Nat /\ r.seen \subseteq DOMAIN replies /\ t \in DOMAIN threads
      /\ \A j \in r.seen : replies[j].floor < r.floor
  BY <1>0 DEF Made, Placed
<1> PICK row : row = [thread |-> t, floor |-> r.floor, status |-> "published",
                      gone |-> FALSE, taken |-> FALSE, after |-> r.seen]
  OBVIOUS
<1> PICK head : head = [threads[t] EXCEPT !.count = @ + 1]
  OBVIOUS
<1>2. row \in ReplyRows
  BY <1>t, <1>1, Rows DEF ReplyRows, Statuses
<1>3. /\ head \in ThreadRows /\ head.count = threads[t].count + 1
      /\ head.title = threads[t].title /\ head.content = threads[t].content
  BY <1>t, <1>1, Rows DEF ThreadRows
<1>4. /\ replies' = Append(replies, row) /\ threads' = [threads EXCEPT ![t] = head]
      /\ UNCHANGED <<books, bios, passed>>
  BY DEF InsertReply, Insert
<1>5. /\ replies' \in Seq(ReplyRows) /\ DOMAIN replies' = DOMAIN replies \cup {i}
      /\ i \notin DOMAIN replies /\ replies'[i] = row
      /\ \A j \in DOMAIN replies : replies'[j] = replies[j]
  BY <1>t, <1>2, <1>4, RowAdded DEF TableTypes
<1>6. /\ threads' \in Seq(ThreadRows) /\ DOMAIN threads' = DOMAIN threads
      /\ \A j \in DOMAIN threads : threads'[j] = IF j = t THEN head ELSE threads[j]
  BY <1>t, <1>1, <1>3, <1>4, RowWritten DEF TableTypes
<1>7. Kept
  <2>1. StoredWasChecked'
    BY <1>3, <1>4, <1>6 DEF StoredWasChecked
  <2>2. TableTypes' /\ Grows
    BY <1>t, <1>1, <1>4, <1>5, <1>6 DEF TableTypes, Grows
  <2> QED BY <2>1, <2>2 DEF Kept
<1>8. FloorsOK'
  BY <1>1, <1>5 DEF ReplyInv, FloorsOK
<1>9. ASSUME NEW u \in DOMAIN threads' PROVE (threads[u].count <= Cardinality(Left(u)))'
  <2>0. u \in DOMAIN threads /\ threads[u].count <= Cardinality(Left(u)) /\ threads[u].count \in Nat
    BY <1>t, <1>6, <1>9, Rows DEF ReplyInv, CountNeverHigh, Left, ThreadRows
  <2>1. IsFiniteSet(Left(u)) /\ Cardinality(Left(u)) \in Nat
    BY <1>t, RepliesFinite, FS_Subset, FS_CardinalityType DEF Left
  <2>2. CASE u = t
    <3>1. Left(u)' = Left(u) \cup {i} /\ i \notin Left(u)
      BY <1>5, <2>2 DEF Left, RepliesOf
    <3>2. Cardinality(Left(u)') = Cardinality(Left(u)) + 1
      BY <2>1, <3>1, FS_AddElement
    <3>3. threads'[u].count = threads[u].count + 1
      BY <1>3, <1>6, <2>0, <2>2
    <3> QED BY <2>0, <2>1, <3>2, <3>3
  <2>3. CASE u # t
    <3>1. Left(u)' = Left(u)
      BY <1>5, <2>3 DEF Left, RepliesOf
    <3> QED BY <1>6, <2>0, <2>3, <3>1
  <2> QED BY <2>2, <2>3
<1>10. BooksStand
  BY <1>4 DEF BooksStand, Shown
<1> QED BY <1>0, <1>7, <1>8, <1>9, <1>10 DEF ReplyInv, CountNeverHigh, Left

LEMMA RepliesDeleted ==
    ASSUME FormInv, StoredWasChecked, ReplyInv, NEW s \in Busy, DeleteReply(s)
    PROVE  Kept /\ ReplyInv' /\ BooksStand /\ DOMAIN req' = Slots /\ Moves
<1> PICK i : i = req[s].on
  OBVIOUS
<1> PICK t : t = replies[i].thread
  OBVIOUS
<1>0. Made(req[s]) /\ req[s].kind = "unreply" /\ DOMAIN req' = Slots /\ Moves
  BY Ending DEF DeleteReply, Writing
<1>t. TableTypes
  BY DEF FormInv
<1>1. i \in DOMAIN replies /\ t \in DOMAIN threads
  BY <1>0, <1>t DEF Made, TableTypes
<1> PICK row : row = [replies[i] EXCEPT !.status = "deleted", !.gone = TRUE, !.taken = TRUE]
  OBVIOUS
<1> PICK head : head = [threads[t] EXCEPT !.count = Decreased(t)]
  OBVIOUS
<1>2. /\ row \in ReplyRows /\ row.taken = TRUE /\ row.after = replies[i].after
      /\ row.floor = replies[i].floor /\ row.thread = replies[i].thread
  BY <1>t, <1>1, Rows DEF ReplyRows, Statuses
<1>3. /\ head \in ThreadRows /\ head.count = Decreased(t)
      /\ head.title = threads[t].title /\ head.content = threads[t].content
  BY <1>t, <1>1, Rows DEF ThreadRows, Decreased
<1>4. /\ replies' = [replies EXCEPT ![i] = row] /\ threads' = [threads EXCEPT ![t] = head]
      /\ UNCHANGED <<books, bios, passed>>
  BY DEF DeleteReply
<1>6. /\ threads' \in Seq(ThreadRows) /\ DOMAIN threads' = DOMAIN threads
      /\ \A j \in DOMAIN threads : threads'[j] = IF j = t THEN head ELSE threads[j]
  <2>1. threads \in Seq(ThreadRows)
    BY <1>t DEF TableTypes
  <2> QED BY <1>1, <1>3, <1>4, <2>1, RowWritten
<1>7. /\ Kept /\ DOMAIN replies' = DOMAIN replies
      /\ \A j \in DOMAIN replies : replies'[j] = IF j = i THEN row ELSE replies[j]
  BY <1>1, <1>2, <1>3, <1>4, <1>6, ReplyChanges
<1>8. FloorsOK'
  <2>1. \A j \in DOMAIN replies : /\ replies'[j].after = replies[j].after
                                 /\ replies'[j].floor = replies[j].floor
    BY <1>1, <1>2, <1>7
  <2> QED BY <1>7, <2>1 DEF ReplyInv, FloorsOK
<1>9. ASSUME NEW u \in DOMAIN threads' PROVE (threads[u].count <= Cardinality(Left(u)))'
  <2>0. u \in DOMAIN threads /\ threads[u].count <= Cardinality(Left(u)) /\ threads[u].count \in Nat
    BY <1>t, <1>6, <1>9, Rows DEF ReplyInv, CountNeverHigh, Left, ThreadRows
  <2>1. IsFiniteSet(Left(u)) /\ Cardinality(Left(u)) \in Nat
    BY <1>t, RepliesFinite, FS_Subset, FS_CardinalityType DEF Left
  <2>2. CASE u = t
    <3>1. Left(u)' = Left(u) \ {i}
      <4>1. \A j \in DOMAIN replies :
              /\ replies'[j].thread = replies[j].thread
              /\ j # i => replies'[j].taken = replies[j].taken
        BY <1>2, <1>7
      <4>2. replies'[i].taken = TRUE
        BY <1>1, <1>2, <1>7
      <4>3. RepliesOf(u)' = RepliesOf(u)
        BY <1>7, <4>1 DEF RepliesOf
      <4> QED BY <4>1, <4>2, <4>3 DEF Left, RepliesOf
    <3>2. /\ Cardinality(Left(u)') \in {Cardinality(Left(u)) - 1, Cardinality(Left(u))}
          /\ Cardinality(Left(u)') \in Nat
      <4>1. CASE i \in Left(u)
        BY <2>1, <3>1, <4>1, FS_RemoveElement, FS_CardinalityType
      <4>2. CASE i \notin Left(u)
        BY <2>1, <3>1, <4>2
      <4> QED BY <4>1, <4>2
    <3>3. threads'[u].count = IF threads[u].count > 0 THEN threads[u].count - 1 ELSE 0
      BY <1>3, <1>6, <2>0, <2>2 DEF Decreased
    <3> QED BY <2>0, <2>1, <3>2, <3>3
  <2>3. CASE u # t
    <3>1. Left(u)' = Left(u)
      BY <1>1, <1>2, <1>7, <2>3 DEF Left, RepliesOf
    <3> QED BY <1>6, <2>0, <2>3, <3>1
  <2> QED BY <2>2, <2>3
<1>10. BooksStand
  BY <1>4 DEF BooksStand, Shown
<1> QED BY <1>0, <1>7, <1>8, <1>9, <1>10 DEF ReplyInv, CountNeverHigh, Left
-----------------------------------------------------------------------------
(* The limit of books on sale *)

\* Requests that passed the limit and have not shown their book yet.
Coming(u) == {s \in Slots : req[s] # NoReq /\ req[s].kind \in {"book", "relist"} /\ req[s].user = u}

\* They count as shown.
ListInv ==
    \A u \in Users : Cardinality(ShownOf(u)) + Cardinality(Coming(u)) < MaxBooks + Cardinality(Slots)

LEMMA ShelfNumbers ==
    ASSUME TableTypes, NEW u
    PROVE  /\ IsFiniteSet(ShownOf(u)) /\ Cardinality(ShownOf(u)) \in Nat
           /\ IsFiniteSet(Coming(u)) /\ Cardinality(Coming(u)) \in Nat
           /\ Cardinality(Coming(u)) <= Cardinality(Slots) /\ Cardinality(Slots) \in Nat
           /\ MaxBooks \in Nat
<1>1. Len(books) \in Nat /\ DOMAIN books = 1..Len(books)
  BY LenProperties DEF TableTypes
<1>2. IsFiniteSet(DOMAIN books) /\ ShownOf(u) \in SUBSET DOMAIN books
  BY <1>1, FS_Interval DEF ShownOf, OnSaleOf
<1>3. IsFiniteSet(Slots) /\ Coming(u) \in SUBSET Slots
  BY ForumAssumption DEF Coming
<1> QED BY <1>2, <1>3, FS_Subset, FS_CardinalityType, ForumAssumption

\* No book comes on sale, and no request begins.
LEMMA ShelfStands ==
    ASSUME TableTypes, TableTypes', ListInv, BooksStand, Moves
    PROVE  ListInv'
<1> SUFFICES ASSUME NEW u \in Users
             PROVE  (Cardinality(ShownOf(u)) + Cardinality(Coming(u)) < MaxBooks + Cardinality(Slots))'
    BY DEF ListInv
<1>1. ShownOf(u)' \in SUBSET ShownOf(u)
  BY DEF ShownOf, OnSaleOf, BooksStand, Shown
<1>2. Coming(u)' \in SUBSET Coming(u)
  BY DEF Coming, Moves, Later
<1>3. /\ Cardinality(ShownOf(u)') <= Cardinality(ShownOf(u)) /\ Cardinality(ShownOf(u)') \in Nat
      /\ Cardinality(Coming(u)') <= Cardinality(Coming(u)) /\ Cardinality(Coming(u)') \in Nat
  BY <1>1, <1>2, ShelfNumbers, FS_Subset, FS_CardinalityType
<1> QED BY <1>3, ShelfNumbers DEF ListInv

\* A request begins.
LEMMA ShelfAsked ==
    ASSUME FormInv, ListInv, NEW s \in Slots, NEW r, Fresh(s, r)
    PROVE  ListInv'
<1> SUFFICES ASSUME NEW u \in Users
             PROVE  (Cardinality(ShownOf(u)) + Cardinality(Coming(u)) < MaxBooks + Cardinality(Slots))'
    BY DEF ListInv
<1>1. DOMAIN req = Slots /\ req' = [req EXCEPT ![s] = r] /\ TableTypes
  BY DEF FormInv, Fresh
<1>2. TableTypes' /\ ShownOf(u)' = ShownOf(u)
  BY <1>1 DEF Fresh, Tables, ShownOf, OnSaleOf, TableTypes
<1>3. CASE r.kind \in {"book", "relist"} /\ r.user = u
  <2>1. Cardinality(ShownOf(u)) < MaxBooks
    BY <1>3 DEF Fresh
  <2>2. /\ Coming(u)' \in SUBSET Slots /\ IsFiniteSet(Slots)
    BY ForumAssumption DEF Coming
  <2>3. Cardinality(Coming(u)') <= Cardinality(Slots) /\ Cardinality(Coming(u)') \in Nat
    BY <2>2, FS_Subset, FS_CardinalityType
  <2> QED BY <1>1, <1>2, <2>1, <2>3, ShelfNumbers
<1>4. CASE ~(r.kind \in {"book", "relist"} /\ r.user = u)
  <2>1. Coming(u)' \in SUBSET Coming(u)
    BY <1>1, <1>4 DEF Coming
  <2>2. Cardinality(Coming(u)') <= Cardinality(Coming(u)) /\ Cardinality(Coming(u)') \in Nat
    BY <1>1, <2>1, ShelfNumbers, FS_Subset, FS_CardinalityType
  <2> QED BY <1>1, <1>2, <2>2, ShelfNumbers DEF ListInv
<1> QED BY <1>3, <1>4

\* A request shows its book, and is gone.
LEMMA ShelfFilled ==
    ASSUME FormInv, ListInv, StoredWasChecked, NEW s \in Busy, WriteBook(s) \/ WriteRelist(s)
    PROVE  ListInv'
<1> SUFFICES ASSUME NEW u \in Users
             PROVE  (Cardinality(ShownOf(u)) + Cardinality(Coming(u)) < MaxBooks + Cardinality(Slots))'
    BY DEF ListInv
<1> PICK r : r = req[s]
  OBVIOUS
<1>1. /\ DOMAIN req = Slots /\ TableTypes /\ s \in Slots /\ Made(r) /\ r # NoReq
      /\ req' = [req EXCEPT ![s] = NoReq] /\ r.kind \in {"book", "relist"}
  BY Ending DEF FormInv, WriteBook, WriteRelist, Writing, Ends, Busy
<1>2. PICK b : /\ r.user = u => ShownOf(u)' \subseteq ShownOf(u) \cup {b}
               /\ r.user # u => ShownOf(u)' \subseteq ShownOf(u)
  <2>1. CASE WriteBook(s)
    <3> PICK row, b : /\ b = Len(books) + 1
                      /\ row = [seller |-> r.user, status |-> "on_sale",
                                gone |-> FALSE, restored |-> FALSE, remark |-> r.text]
      OBVIOUS
    <3>1. row \in BookRows
      BY <1>1, <2>1, WrittenHasPassed DEF BookRows, Made, WriteBook, Writing
    <3>2. books' = Append(books, row)
      BY <2>1 DEF WriteBook, Insert
    <3>3. /\ DOMAIN books' = DOMAIN books \cup {b} /\ books'[b] = row
          /\ \A j \in DOMAIN books : books'[j] = books[j]
      BY <1>1, <3>1, <3>2, RowAdded DEF TableTypes
    <3> QED BY <3>3 DEF ShownOf, OnSaleOf
  <2>2. CASE WriteRelist(s)
    <3> PICK b : b = r.on
      OBVIOUS
    <3>1. b \in DOMAIN books /\ books[b].seller = r.user
      BY <1>1, <2>2 DEF Made, WriteRelist, Writing
    <3>2. /\ DOMAIN books' = DOMAIN books /\ books'[b].seller = books[b].seller
          /\ \A j \in DOMAIN books : j # b => books'[j] = books[j]
      BY <1>1, <2>2, <3>1, Rows DEF WriteRelist, BookRows
    <3> QED BY <3>1, <3>2 DEF ShownOf, OnSaleOf
  <2> QED BY <1>1, <2>1, <2>2
<1>3. CASE r.user = u
  <2>1. Coming(u)' = Coming(u) \ {s} /\ s \in Coming(u)
    BY <1>1, <1>3 DEF Coming
  <2>2. Cardinality(Coming(u)') = Cardinality(Coming(u)) - 1
    BY <1>1, <2>1, ShelfNumbers, FS_RemoveElement
  <2> PICK more : more = ShownOf(u) \cup {b}
    OBVIOUS
  <2>3. /\ IsFiniteSet(more) /\ Cardinality(more) \in Nat
        /\ Cardinality(more) <= Cardinality(ShownOf(u)) + 1
    <3>1. IsFiniteSet(ShownOf(u)) /\ Cardinality(ShownOf(u)) \in Nat
      BY <1>1, ShelfNumbers
    <3>2. /\ IsFiniteSet(more)
          /\ Cardinality(more) = IF b \in ShownOf(u) THEN Cardinality(ShownOf(u))
                                 ELSE Cardinality(ShownOf(u)) + 1
      BY <3>1, FS_AddElement
    <3> QED BY <3>1, <3>2, FS_CardinalityType
  <2>4. ShownOf(u)' \in SUBSET more
    BY <1>2, <1>3
  <2>5. Cardinality(ShownOf(u)') <= Cardinality(more) /\ Cardinality(ShownOf(u)') \in Nat
    BY <2>3, <2>4, FS_Subset, FS_CardinalityType
  <2> QED BY <1>1, <2>2, <2>3, <2>5, ShelfNumbers DEF ListInv
<1>4. CASE r.user # u
  <2>1. Coming(u)' \in SUBSET Coming(u) /\ ShownOf(u)' \in SUBSET ShownOf(u)
    BY <1>1, <1>2, <1>4 DEF Coming
  <2>2. /\ Cardinality(ShownOf(u)') <= Cardinality(ShownOf(u)) /\ Cardinality(ShownOf(u)') \in Nat
        /\ Cardinality(Coming(u)') <= Cardinality(Coming(u)) /\ Cardinality(Coming(u)') \in Nat
    BY <1>1, <2>1, ShelfNumbers, FS_Subset, FS_CardinalityType
  <2> QED BY <1>1, <2>2, ShelfNumbers DEF ListInv
<1> QED BY <1>3, <1>4
-----------------------------------------------------------------------------
(* The forum *)

ForumInv == FormInv /\ StoredWasChecked /\ ReplyInv /\ ListInv

LEMMA ForumStarts == ASSUME Init PROVE ForumInv
<1>1. /\ req = [s \in Slots |-> NoReq] /\ books = <<>> /\ bios = [u \in Users |-> <<>>]
      /\ DOMAIN req = Slots
  BY DEF Init, GuardInit
<1>2. \/ Empty
      \/ \E u \in Users, text \in Texts : Seeded(u, text)
  BY DEF Init
<1>3. ASSUME Empty PROVE TableTypes /\ StoredWasChecked /\ ReplyInv
  <2>1. DOMAIN threads = {} /\ DOMAIN replies = {} /\ DOMAIN books = {}
    BY <1>1, <1>3 DEF Empty
  <2>2. TableTypes
    BY <1>1, <1>3, <2>1, EmptySeq DEF Empty, TableTypes, Titles
  <2>3. StoredWasChecked
    BY <1>1, <2>1 DEF StoredWasChecked
  <2>4. ReplyInv
    BY <2>1 DEF ReplyInv, FloorsOK, CountNeverHigh
  <2> QED BY <2>2, <2>3, <2>4
<1>4. ASSUME NEW u \in Users, NEW text \in Texts, Seeded(u, text)
      PROVE  TableTypes /\ StoredWasChecked /\ ReplyInv
  <2> PICK head, row : /\ head = [status |-> "published", author |-> u, deleted |-> FALSE,
                                  title |-> <<>>, content |-> text, count |-> 1]
                       /\ row = [thread |-> 1, floor |-> 1, status |-> "published",
                                 gone |-> FALSE, taken |-> FALSE, after |-> {}]
    OBVIOUS
  <2>1. /\ threads = <<head>> /\ replies = <<row>> /\ passed = {<<(<<>>), text>>}
    BY <1>4 DEF Seeded
  <2>2. head \in ThreadRows /\ row \in ReplyRows
    BY DEF ThreadRows, ReplyRows, Titles, Statuses
  <2>3. /\ DOMAIN threads = {1} /\ threads[1] = head /\ DOMAIN replies = {1} /\ replies[1] = row
        /\ DOMAIN books = {}
    BY <1>1, <2>1
  <2>4. TableTypes
    BY <1>1, <2>1, <2>2, <2>3, EmptySeq DEF TableTypes, Titles
  <2>5. StoredWasChecked
    BY <1>1, <2>1, <2>3 DEF StoredWasChecked
  <2>6. FloorsOK
    BY <2>3 DEF FloorsOK
  <2>7. CountNeverHigh
    <3>1. ASSUME NEW t \in DOMAIN threads
          PROVE  {i \in RepliesOf(t) : ~replies[i].taken} = {1} /\ threads[t].count = 1
      BY <2>3 DEF RepliesOf
    <3>2. \A x : Cardinality({x}) = 1
      BY FS_Singleton
    <3>3. ASSUME NEW t \in DOMAIN threads
          PROVE  threads[t].count <= Cardinality({i \in RepliesOf(t) : ~replies[i].taken})
      <4> PICK left : left = {i \in RepliesOf(t) : ~replies[i].taken}
        OBVIOUS
      <4>1. left = {1} /\ threads[t].count = 1
        BY <3>1, <3>3
      <4>2. Cardinality(left) = 1
        BY <3>2, <4>1, Zenon
      <4> QED BY <4>1, <4>2
    <3> QED BY <3>3 DEF CountNeverHigh
  <2> QED BY <2>4, <2>5, <2>6, <2>7 DEF ReplyInv
<1>5. TableTypes /\ StoredWasChecked /\ ReplyInv
  BY <1>2, <1>3, <1>4
<1>6. FormInv
  BY <1>1, <1>5 DEF FormInv, ReqOK
<1>7. ListInv
  <2>1. ASSUME NEW u \in Users PROVE ShownOf(u) = {} /\ Coming(u) = {}
    BY <1>1 DEF ShownOf, OnSaleOf, Coming
  <2>2. Cardinality(Slots) \in Nat \ {0} /\ Cardinality({}) = 0 /\ MaxBooks \in Nat
    BY ForumAssumption, FS_EmptySet, FS_CardinalityType
  <2> QED BY <2>1, <2>2 DEF ListInv
<1> QED BY <1>5, <1>6, <1>7 DEF ForumInv

\* A step that lets requests only move, replies and books stand.
LEMMA StandingStill ==
    ASSUME ForumInv, Kept, RepliesStand, BooksStand, DOMAIN req' = Slots, Moves
    PROVE  ForumInv'
<1>1. FormInv' /\ StoredWasChecked'
  BY KeptForm DEF ForumInv
<1>2. ReplyInv'
  BY RepliesStandStill DEF ForumInv
<1>3. ListInv'
  BY <1>1, ShelfStands DEF ForumInv, FormInv
<1> QED BY <1>1, <1>2, <1>3 DEF ForumInv

LEMMA AskingKeeps ==
    ASSUME ForumInv, NEW s \in Slots, NEW r, Fresh(s, r)
    PROVE  ForumInv'
<1>1. /\ DOMAIN req = Slots /\ req' = [req EXCEPT ![s] = r] /\ UNCHANGED Tables
      /\ Made(r) /\ r.phase # "insert" /\ TableTypes /\ \A z \in Slots : ReqOK(z)
  BY DEF Fresh, Blank, ForumInv, FormInv
<1>2. Kept /\ RepliesStand
  BY <1>1, SameTables DEF ForumInv
<1>3. ASSUME NEW z \in Slots PROVE ReqOK(z)'
  <2>1. CASE z = s
    <3>1. (Made(r) /\ Placed(r))' /\ req'[z] = r
      BY <1>1, <2>1 DEF Made, Placed, Tables
    <3> QED BY <3>1 DEF ReqOK, Made, Placed, Whole
  <2>2. CASE z # s
    BY <1>1, <1>2, <2>2, ReqKeeps DEF Kept
  <2> QED BY <2>1, <2>2
<1>4. FormInv' /\ StoredWasChecked'
  BY <1>1, <1>2, <1>3 DEF FormInv, Kept
<1>5. ReplyInv'
  BY <1>2, RepliesStandStill DEF ForumInv
<1>6. ListInv'
  BY ShelfAsked DEF ForumInv
<1> QED BY <1>4, <1>5, <1>6 DEF ForumInv

LEMMA WritingKeeps ==
    ASSUME ForumInv, NEW s \in Busy,
           \/ WriteThread(s) \/ WriteEdit(s) \/ ReadFloor(s)
           \/ InsertReply(s) \/ DeleteReply(s) \/ WriteBook(s)
           \/ WriteRelist(s) \/ WriteTalk(s) \/ WriteMessage(s)
           \/ WriteRevision(s) \/ WriteProfile(s)
    PROVE  ForumInv'
<1>0. FormInv /\ StoredWasChecked /\ ReplyInv /\ ListInv
  BY DEF ForumInv
<1>1. CASE WriteThread(s) \/ WriteEdit(s)
  BY <1>0, <1>1, ThreadsWritten, StandingStill
<1>2. CASE WriteRevision(s)
  BY <1>0, <1>2, BooksWritten, StandingStill
<1>3. CASE WriteTalk(s) \/ WriteMessage(s) \/ WriteProfile(s)
  BY <1>0, <1>3, OthersWritten, StandingStill
<1>4. CASE InsertReply(s) \/ DeleteReply(s)
  <2>1. Kept /\ ReplyInv' /\ BooksStand /\ DOMAIN req' = Slots /\ Moves
    BY <1>0, <1>4, RepliesInserted, RepliesDeleted
  <2>2. FormInv' /\ StoredWasChecked'
    BY <1>0, <2>1, KeptForm
  <2>3. ListInv'
    BY <1>0, <2>1, <2>2, ShelfStands DEF FormInv
  <2> QED BY <2>1, <2>2, <2>3 DEF ForumInv
<1>5. CASE WriteBook(s) \/ WriteRelist(s)
  <2>1. Kept /\ RepliesStand /\ DOMAIN req' = Slots /\ Moves
    BY <1>0, <1>5, BooksWritten
  <2>2. FormInv' /\ StoredWasChecked' /\ ReplyInv'
    BY <1>0, <2>1, KeptForm, RepliesStandStill
  <2>3. ListInv'
    BY <1>0, <1>5, ShelfFilled
  <2> QED BY <2>2, <2>3 DEF ForumInv
<1>6. CASE ReadFloor(s)
  <2>1. FormInv' /\ UNCHANGED Tables
    BY <1>0, <1>6, FloorsRead
  <2>2. Kept /\ RepliesStand /\ BooksStand
    BY <1>0, <2>1, SameTables
  <2>3. ReplyInv' /\ StoredWasChecked'
    BY <1>0, <2>2, RepliesStandStill DEF Kept
  <2>4. ASSUME NEW u \in Users
        PROVE  (Cardinality(ShownOf(u)) + Cardinality(Coming(u)) < MaxBooks + Cardinality(Slots))'
    <3>1. ShownOf(u)' = ShownOf(u)
      BY <2>1 DEF ShownOf, OnSaleOf, Tables
    <3>2. /\ s \in Slots /\ Whole(req[s]) /\ req[s].kind = "reply" /\ DOMAIN req = Slots
          /\ req' = [req EXCEPT ![s].phase = "insert", ![s].floor = NextFloor(req[s].on),
                                ![s].seen = RepliesOf(req[s].on)]
      BY <1>0, <1>6 DEF FormInv, ReqOK, Made, Busy, ReadFloor, Writing
    <3>3. /\ req'[s].kind = "reply" /\ \A z \in Slots \ {s} : req'[z] = req[z]
      BY <3>2 DEF Whole, Fields
    <3>4. Coming(u)' = Coming(u)
      BY <3>2, <3>3 DEF Coming
    <3> QED BY <1>0, <3>1, <3>4 DEF ListInv
  <2> QED BY <2>1, <2>3, <2>4 DEF ForumInv, ListInv
<1> QED BY <1>1, <1>2, <1>3, <1>4, <1>5, <1>6

LEMMA ForumGoesOn == ASSUME ForumInv, [Next /\ UNCHANGED kinds]_vars PROVE ForumInv'
<1>0. FormInv /\ StoredWasChecked /\ ReplyInv /\ ListInv /\ DOMAIN req = Slots
  BY DEF ForumInv, FormInv
<1>1. CASE UNCHANGED vars
  <2>1. UNCHANGED Tables /\ DOMAIN req' = Slots /\ Moves
    BY <1>0, <1>1 DEF vars, guardVars, forumVars, Tables, Moves
  <2> QED BY <1>0, <2>1, SameTables, StandingStill
<1>2. CASE GuardNext /\ UNCHANGED forumVars
  <2>1. UNCHANGED Tables /\ DOMAIN req' = Slots /\ Moves
    BY <1>0, <1>2, GuardMoves DEF forumVars, Tables
  <2> QED BY <1>0, <2>1, SameTables, StandingStill
<1>3. ASSUME NEW s \in Slots, NEW u \in Users, NEW p \in Procs, NEW text \in Texts,
             AsksWith(s, u, p, text)
      PROVE  ForumInv'
  <2>1. \E r : Fresh(s, r)
    BY <1>0, <1>3, TextAsksAreMade
  <2> QED BY <2>1, AskingKeeps
<1>4. ASSUME NEW s \in Slots, NEW u \in Users, NEW p \in Procs, AsksFor(s, u, p)
      PROVE  ForumInv'
  <2>1. \E r : Fresh(s, r)
    BY <1>0, <1>4, OtherAsksAreMade
  <2> QED BY <2>1, AskingKeeps
<1>5. CASE \/ \E t \in DOMAIN threads : \/ DeleteThread(t)
                                        \/ \E st \in Statuses : ReviewThread(t, st)
           \/ \E i \in DOMAIN replies, st \in Statuses : ReviewReply(i, st)
           \/ \E b \in DOMAIN books : \/ \E deleted \in BOOLEAN : TakeDown(b, deleted)
                                      \/ \E st \in {"on_sale", "off_shelf", "deleted"} :
                                           ReviewBook(b, st)
  BY <1>0, <1>5, QueueKeeps, StandingStill
<1>6. ASSUME Next PROVE ForumInv'
  BY <1>2, <1>3, <1>4, <1>5, <1>6, WritingKeeps DEF Next, AsksWith, AsksFor, Statuses
<1> QED BY <1>1, <1>6

\* What is stored passed the guard, title and content together, with any number of
\* requests that edit at once.
THEOREM OnlyCheckedIsStored == Spec => []StoredWasChecked
<1>1. Init => ForumInv
  BY ForumStarts
<1>2. ForumInv /\ [Next /\ UNCHANGED kinds]_vars => ForumInv'
  BY ForumGoesOn
<1>3. ForumInv => StoredWasChecked
  BY DEF ForumInv
<1> QED BY <1>1, <1>2, <1>3, PTL DEF Spec

\* A thread's replies stand in the order of time, and it never shows more of them
\* than there are.
THEOREM ThreadsAddUp == Spec => []RepliesAddUp
<1>1. Init => ForumInv
  BY ForumStarts
<1>2. ForumInv /\ [Next /\ UNCHANGED kinds]_vars => ForumInv'
  BY ForumGoesOn
<1>3. ForumInv => RepliesAddUp
  BY DEF ForumInv, ReplyInv, FloorsOK, RepliesAddUp, FloorsFollowTime
<1> QED BY <1>1, <1>2, <1>3, PTL DEF Spec

\* The limit of books on sale is passed by no more than the requests under way.
THEOREM ListingsStayNearTheLimit == Spec => []ListingOvershootBounded
<1>1. Init => ForumInv
  BY ForumStarts
<1>2. ForumInv /\ [Next /\ UNCHANGED kinds]_vars => ForumInv'
  BY ForumGoesOn
<1>3. ForumInv => ListingOvershootBounded
  <2>1. ASSUME ForumInv, NEW u \in Users
        PROVE  Cardinality(ShownOf(u)) < MaxBooks + Cardinality(Slots)
    BY <2>1, ShelfNumbers DEF ForumInv, FormInv, ListInv
  <2> QED BY <2>1 DEF ListingOvershootBounded, ShownOf
<1> QED BY <1>1, <1>2, <1>3, PTL DEF Spec
-----------------------------------------------------------------------------
(* How long a banned word stays unknown *)

Bound == Ttl + LoadTime

\* A library that was read knows all but what was listed since.
Fetched(r) ==
    /\ r.wait \in 0..LoadTime /\ r.read \subseteq Words
    /\ \A w \in InForce \ r.read : listed[w] <= r.wait

TimeOK(r) ==
    /\ r.lag \in 0..Bound
    /\ r.phase = "check" => r.wait = 0
    /\ r.phase = "loading" => Fetched(r)

\* A matcher in use knows all but what was listed since it was read.
MatcherOK(p) ==
    matcher[p].left > 0 =>
      \A w \in InForce \ matcher[p].words : listed[w] + matcher[p].left <= Bound

TimeTypes ==
    /\ listed \in [Words -> {Unlisted} \cup 0..OldAge]
    /\ matcher \in [Procs -> [words : SUBSET Words, left : 0..Ttl]]

TimeInv ==
    /\ TimeTypes
    /\ \A p \in Procs : MatcherOK(p)
    /\ \A s \in Slots : req[s] # NoReq => TimeOK(req[s])

LEMMA Times ==
    /\ Ttl \in Nat /\ Ttl > 0 /\ LoadTime \in Nat /\ Bound \in Nat /\ Unlisted \in Int /\ OldAge \in Nat
    /\ Ttl <= Bound /\ LoadTime <= Bound /\ OldAge = Bound + 1 /\ Unlisted = -1 /\ Unlisted < 0
BY WordGuardAssumption DEF Bound, OldAge, Unlisted

\* What was missed was in force no longer than the oldest of it.
LEMMA LagBounded ==
    ASSUME TimeTypes, NEW text, NEW known, NEW n \in 0..Bound,
           \A w \in InForce \ known : listed[w] <= n
    PROVE  Lag(text, known) \in 0..Bound
<1> PICK missed : missed = {w \in Words : /\ \E i \in DOMAIN text : text[i] = w
                                          /\ w \in InForce /\ w \notin known}
  OBVIOUS
<1>1. \A w \in missed : listed[w] \in 0..OldAge /\ listed[w] <= n
  BY Times DEF TimeTypes, InForce
<1>2. CASE missed = {}
  BY <1>2, Times DEF Lag
<1>3. CASE missed # {}
  <2> PICK ages : ages = {m \in 0..OldAge : \E w \in missed : listed[w] = m}
    OBVIOUS
  <2>1. ages # {} /\ ages \in SUBSET (0..OldAge)
    BY <1>1, <1>3
  <2>2. IsFiniteSet(ages)
    <3>1. IsFiniteSet(0..OldAge)
      BY FS_Interval, Times
    <3> QED BY <2>1, <3>1, FS_Subset
  <2> PICK f : f = [m \in ages |-> m]
    OBVIOUS
  <2>3. \A m \in ages : f[m] \in Int
    BY <2>1
  <2>4. PICK m \in ages : \A k \in ages : f[k] <= f[m]
    BY <2>1, <2>2, <2>3, LargestExists
  <2>5. m \in 0..OldAge /\ (\E w \in missed : listed[w] = m) /\ \A w \in missed : listed[w] <= m
    BY <1>1, <2>1, <2>4
  <2> PICK c : c = CHOOSE m_1 \in 0..OldAge : /\ \E w \in missed : listed[w] = m_1
                                              /\ \A w \in missed : listed[w] <= m_1
    OBVIOUS
  <2>6. c \in 0..OldAge /\ \E w \in missed : listed[w] = c
    BY <2>5
  <2>7. c <= n
    BY <1>1, <2>6
  <2>8. Lag(text, known) = c
    BY <1>3 DEF Lag
  <2> QED BY <2>6, <2>7, <2>8, Times
<1> QED BY <1>2, <1>3

\* Nothing of the library moves, and requests only go on.
LEMMA TimeStands ==
    ASSUME TimeInv, UNCHANGED <<listed, matcher>>, Goes
    PROVE  TimeInv'
<1>1. ASSUME NEW s \in Slots, req'[s] # NoReq PROVE TimeOK(req[s])'
  <2> PICK r, q : r = req[s] /\ q = req'[s]
    OBVIOUS
  <2>1. r # NoReq /\ TimeOK(r) /\ (q = r \/ Onward(r, q))
    BY <1>1 DEF TimeInv, Goes
  <2>2. TimeOK(q)'
    BY <2>1 DEF TimeOK, Onward, Fetched, InForce
  <2> QED BY <2>2 DEF TimeOK, Fetched, InForce
<1>2. TimeTypes' /\ \A p \in Procs : MatcherOK(p)'
  BY DEF TimeInv, TimeTypes, MatcherOK, InForce
<1> QED BY <1>1, <1>2 DEF TimeInv

\* A request begins, or is decided, or fetches the library.
LEMMA TimeOfOne ==
    ASSUME TimeInv, DOMAIN req = Slots, UNCHANGED listed,
           TimeTypes', \A p \in Procs : MatcherOK(p)',
           NEW s \in Slots, NEW q, req' = [req EXCEPT ![s] = q], TimeOK(q)
    PROVE  TimeInv'
<1>1. ASSUME NEW z \in Slots, req'[z] # NoReq PROVE TimeOK(req[z])'
  <2> PICK r : r = req'[z]
    OBVIOUS
  <2>1. TimeOK(r)
    BY <1>1 DEF TimeInv
  <2>2. TimeOK(r)'
    BY <2>1 DEF TimeOK, Fetched, InForce
  <2> QED BY <2>2 DEF TimeOK, Fetched, InForce
<1> QED BY <1>1 DEF TimeInv

LEMMA DecidedInTime ==
    ASSUME TimeTypes, NEW r, Whole(r), NEW known, NEW n \in 0..Bound,
           \A w \in InForce \ known : listed[w] <= n
    PROVE  TimeOK(Decided(r, known))
<1> PICK q : q = Decided(r, known)
  OBVIOUS
<1>1. q.lag = Lag(r.text, known) /\ q.phase \in {"write", "refuse", "hits"}
  BY DEF Decided, AfterCheck, Verdict, Whole, Fields
<1>2. q.lag \in 0..Bound
  BY <1>1, LagBounded
<1> QED BY <1>1, <1>2 DEF TimeOK

LEMMA TimeOfChecks ==
    ASSUME FormInv, TimeInv, NEW s \in Busy, CheckText(s) \/ KeepMatcher(s)
    PROVE  TimeInv'
<1> PICK r, p : r = req[s] /\ p = r.proc
  OBVIOUS
<1>1. /\ s \in Slots /\ DOMAIN req = Slots /\ Made(r) /\ Whole(r) /\ p \in Procs /\ TimeOK(r) /\ TimeTypes
  BY DEF Busy, FormInv, ReqOK, Made, TimeInv
<1>2. CASE CheckText(s) /\ Usable(p)
  <2>1. /\ UNCHANGED <<listed, matcher>>
        /\ req' = [req EXCEPT ![s] = Decided(r, matcher[p].words)]
    BY <1>2 DEF CheckText
  <2> PICK n : n = Bound - matcher[p].left
    OBVIOUS
  <2>2. n \in 0..Bound /\ \A w \in InForce \ matcher[p].words : listed[w] <= n
    <3>1. MatcherOK(p) /\ matcher[p].left \in 1..Ttl
      BY <1>1, <1>2 DEF TimeInv, TimeTypes, Usable
    <3>2. \A w \in InForce : listed[w] \in Int
      BY <1>1, Times DEF TimeTypes, InForce
    <3> QED BY <3>1, <3>2, Times DEF MatcherOK
  <2>3. TimeOK(Decided(r, matcher[p].words))
    BY <1>1, <2>2, DecidedInTime
  <2>4. TimeTypes' /\ \A x \in Procs : MatcherOK(x)'
    BY <2>1 DEF TimeInv, TimeTypes, MatcherOK, InForce
  <2> QED BY <1>1, <2>1, <2>3, <2>4, TimeOfOne
<1>3. CASE CheckText(s) /\ ~Usable(p)
  <2> PICK q : q = [r EXCEPT !.phase = "loading", !.read = InForce]
    OBVIOUS
  <2>1. UNCHANGED <<listed, matcher>> /\ req' = [req EXCEPT ![s] = q] /\ r.phase = "check"
    BY <1>3 DEF CheckText
  <2>2. q.phase = "loading" /\ q.read = InForce /\ q.lag = r.lag /\ q.wait = 0
    BY <1>1, <2>1 DEF Whole, Fields, TimeOK
  <2>3. TimeOK(q)
    BY <1>1, <2>2, Times DEF TimeOK, Fetched, InForce
  <2>4. TimeTypes' /\ \A x \in Procs : MatcherOK(x)'
    BY <2>1 DEF TimeInv, TimeTypes, MatcherOK, InForce
  <2> QED BY <1>1, <2>1, <2>3, <2>4, TimeOfOne
<1>4. CASE KeepMatcher(s)
  <2>1. /\ UNCHANGED listed /\ req' = [req EXCEPT ![s] = Decided(r, r.read)] /\ r.phase = "loading"
        /\ matcher' = [matcher EXCEPT ![p] = [words |-> r.read, left |-> Ttl]]
    BY <1>4 DEF KeepMatcher
  <2>2. Fetched(r)
    BY <1>1, <2>1 DEF TimeOK
  <2>3. \A w \in InForce \ r.read : listed[w] \in Int /\ listed[w] <= LoadTime
    BY <1>1, <2>2, Times DEF Fetched, TimeTypes, InForce
  <2>4. TimeOK(Decided(r, r.read))
    BY <1>1, <2>3, DecidedInTime, Times
  <2>5. TimeTypes'
    BY <1>1, <2>1, <2>2, Times DEF TimeTypes, Fetched
  <2>6. ASSUME NEW x \in Procs PROVE MatcherOK(x)'
    <3>1. CASE x = p
      <4>1. matcher'[x] = [words |-> r.read, left |-> Ttl]
        BY <1>1, <2>1, <3>1 DEF TimeTypes
      <4> QED BY <2>1, <2>3, <4>1, Times DEF MatcherOK, InForce, Bound
    <3>2. CASE x # p
      <4>1. matcher'[x] = matcher[x]
        BY <1>1, <2>1, <3>2 DEF TimeTypes
      <4> QED BY <2>1, <4>1 DEF TimeInv, MatcherOK, InForce
    <3> QED BY <3>1, <3>2
  <2> QED BY <1>1, <2>1, <2>4, <2>5, <2>6, TimeOfOne
<1> QED BY <1>2, <1>3, <1>4

\* A word is listed, for no time yet, or struck off; the process that does it forgets.
LEMMA TimeOfWords ==
    ASSUME FormInv, TimeInv, NEW w \in Words, NEW p \in Procs, CreateWord(w, p) \/ DeleteWord(w, p)
    PROVE  TimeInv'
<1> PICK age : age \in {0, Unlisted} /\ Relist(w, p, age)
  BY DEF CreateWord, DeleteWord
<1>1. /\ listed' = [listed EXCEPT ![w] = age] /\ matcher' = [matcher EXCEPT ![p].left = 0]
      /\ UNCHANGED req
  BY DEF Relist
<1>2. TimeTypes
  BY DEF TimeInv
<1>3. TimeTypes'
  BY <1>1, <1>2, Times DEF TimeTypes
<1>4. \A v \in Words : v \in InForce' => \/ v = w /\ listed'[v] = 0
                                         \/ v \in InForce /\ listed'[v] = listed[v]
  BY <1>1, <1>2 DEF TimeTypes, InForce
<1>5. ASSUME NEW x \in Procs PROVE MatcherOK(x)'
  <2>1. CASE x = p
    BY <1>1, <1>2, <2>1 DEF TimeTypes, MatcherOK
  <2>2. CASE x # p
    <3>1. matcher'[x] = matcher[x] /\ matcher[x].left \in 0..Ttl /\ MatcherOK(x)
      BY <1>1, <1>2, <2>2 DEF TimeTypes, TimeInv
    <3> QED BY <1>4, <3>1, Times DEF MatcherOK, InForce
  <2> QED BY <2>1, <2>2
<1>6. ASSUME NEW z \in Slots, req[z] # NoReq PROVE TimeOK(req[z])'
  <2>1. TimeOK(req[z])
    BY <1>6 DEF TimeInv
  <2> QED BY <1>1, <1>4, <2>1, Times DEF TimeOK, Fetched, InForce
<1> QED BY <1>1, <1>3, <1>5, <1>6 DEF TimeInv

\* Every clock goes on by a minute.
LEMMA TimeOfMinutes ==
    ASSUME FormInv, TimeInv, Minute
    PROVE  TimeInv'
<1>1. TimeTypes /\ DOMAIN req = Slots
  BY DEF TimeInv, FormInv
<1>2. \A w \in Words : /\ listed'[w] = IF listed[w] \in 0..(OldAge - 1) THEN listed[w] + 1 ELSE listed[w]
                       /\ listed[w] \in {Unlisted} \cup 0..OldAge
  BY <1>1 DEF Minute, TimeTypes
<1>3. ASSUME NEW p \in Procs
      PROVE  /\ matcher'[p] \in [words : SUBSET Words, left : 0..Ttl]
             /\ matcher'[p].words = matcher[p].words
             /\ matcher[p].left \in Int
             /\ matcher'[p].left > 0 => /\ matcher[p].left > 0
                                        /\ matcher'[p].left = matcher[p].left - 1
  <2> PICK m, n : m = matcher[p] /\ n = m.left
    OBVIOUS
  <2>1. m \in [words : SUBSET Words, left : 0..Ttl] /\ n \in 0..Ttl
    BY <1>1 DEF TimeTypes
  <2>2. CASE n > 0
    <3>1. matcher'[p] = [m EXCEPT !.left = n - 1]
      BY <2>2 DEF Minute
    <3>2. n - 1 \in 0..Ttl
      BY <2>1, <2>2, Times
    <3> QED BY <2>1, <2>2, <3>1, <3>2
  <2>3. CASE ~(n > 0)
    <3>1. matcher'[p] = [m EXCEPT !.left = 0]
      BY <2>3 DEF Minute
    <3> QED BY <2>1, <3>1, Times
  <2> QED BY <2>2, <2>3
<1>4. InForce' = InForce
  BY <1>2, Times DEF InForce
<1>5. TimeTypes'
  <2>1. listed' \in [Words -> {Unlisted} \cup 0..OldAge]
    BY <1>2, Times DEF Minute
  <2>2. matcher' \in [Procs -> [words : SUBSET Words, left : 0..Ttl]]
    BY <1>3 DEF Minute
  <2> QED BY <2>1, <2>2 DEF TimeTypes
<1>6. ASSUME NEW p \in Procs PROVE MatcherOK(p)'
  <2>1. MatcherOK(p)
    BY DEF TimeInv
  <2> SUFFICES ASSUME matcher'[p].left > 0, NEW w \in InForce \ matcher[p].words
               PROVE  listed'[w] + matcher'[p].left <= Bound
    BY <1>3, <1>4 DEF MatcherOK
  <2>2. /\ matcher[p].left > 0 /\ matcher'[p].left = matcher[p].left - 1
        /\ matcher[p].left \in Int
    BY <1>3
  <2>3. w \in Words /\ listed[w] + matcher[p].left <= Bound
    BY <2>1, <2>2 DEF MatcherOK, InForce
  <2>4. listed[w] \in Int /\ listed'[w] \in Int /\ listed'[w] <= listed[w] + 1
    BY <1>2, <2>3, Times
  <2> QED BY <2>2, <2>3, <2>4, Times
<1>7. ASSUME NEW z \in Slots, req'[z] # NoReq PROVE TimeOK(req[z])'
  <2> PICK r : r = req[z]
    OBVIOUS
  <2>1. CASE z \in Loading
    <3>1. /\ r # NoReq /\ r.phase = "loading" /\ Whole(r) /\ r.wait < LoadTime
          /\ TimeOK(r) /\ Fetched(r)
      BY <2>1 DEF Loading, Busy, FormInv, ReqOK, Made, TimeInv, TimeOK, Minute
    <3> PICK q : q = [r EXCEPT !.wait = @ + 1]
      OBVIOUS
    <3>2. req'[z] = q
      BY <2>1 DEF Minute
    <3>3. q.phase = "loading" /\ q.lag = r.lag /\ q.read = r.read /\ q.wait = r.wait + 1
      BY <3>1 DEF Whole, Fields
    <3>4. ASSUME NEW w \in InForce \ r.read PROVE listed'[w] <= r.wait + 1
      <4>1. w \in Words /\ listed[w] <= r.wait /\ r.wait \in Int
        BY <3>1, <3>4 DEF Fetched, InForce
      <4>2. listed[w] \in Int /\ listed'[w] \in Int /\ listed'[w] <= listed[w] + 1
        BY <1>2, <4>1, Times
      <4> QED BY <4>1, <4>2
    <3>5. r.wait + 1 \in 0..LoadTime
      BY <3>1, Times DEF Fetched
    <3>6. (q.lag \in 0..Bound) /\ q.read \subseteq Words
      BY <3>1, <3>3 DEF TimeOK, Fetched
    <3>7. Fetched(q)'
      BY <1>4, <3>3, <3>4, <3>5, <3>6 DEF Fetched
    <3> QED BY <3>2, <3>3, <3>6, <3>7 DEF TimeOK, Fetched
  <2>2. CASE z \notin Loading
    <3>1. req'[z] = r /\ r # NoReq /\ TimeOK(r) /\ r.phase # "loading"
      BY <1>7, <2>2 DEF Minute, Loading, Busy, TimeInv
    <3> QED BY <3>1 DEF TimeOK
  <2> QED BY <2>1, <2>2
<1> QED BY <1>5, <1>6, <1>7 DEF TimeInv

\* Caches expire over night, or with their process.
LEMMA TimeOfDaysAndCrashes ==
    ASSUME FormInv, TimeInv, Day \/ \E p \in Procs : Crash(p)
    PROVE  TimeInv'
<1>1. TimeTypes
  BY DEF TimeInv
<1>2. CASE Day
  <2>1. /\ UNCHANGED req /\ \A s \in Slots : req[s] = NoReq
        /\ matcher' = [p \in Procs |-> [matcher[p] EXCEPT !.left = 0]]
        /\ listed' = [w \in Words |-> IF w \in InForce THEN OldAge ELSE Unlisted]
    BY <1>2 DEF Day, Busy
  <2>2. TimeTypes'
    BY <1>1, <2>1, Times DEF TimeTypes
  <2>3. ASSUME NEW p \in Procs PROVE MatcherOK(p)'
    <3>1. matcher'[p].left = 0
      BY <1>1, <2>1 DEF TimeTypes
    <3> QED BY <3>1 DEF MatcherOK
  <2> QED BY <2>1, <2>2, <2>3 DEF TimeInv
<1>3. ASSUME NEW p \in Procs, Crash(p) PROVE TimeInv'
  <2>1. /\ UNCHANGED listed /\ \A s \in Slots : req'[s] = req[s] \/ req'[s] = NoReq
        /\ matcher' = [matcher EXCEPT ![p] = [words |-> {}, left |-> 0]]
    BY <1>3 DEF Crash
  <2>2. TimeTypes'
    BY <1>1, <2>1, Times DEF TimeTypes
  <2>3. ASSUME NEW x \in Procs PROVE MatcherOK(x)'
    BY <1>1, <2>1 DEF TimeTypes, TimeInv, MatcherOK, InForce
  <2>4. ASSUME NEW z \in Slots, req'[z] # NoReq PROVE TimeOK(req[z])'
    <3>1. req'[z] = req[z] /\ TimeOK(req[z])
      BY <2>1, <2>4 DEF TimeInv
    <3> QED BY <2>1, <3>1 DEF TimeOK, Fetched, InForce
  <2> QED BY <2>2, <2>3, <2>4 DEF TimeInv
<1> QED BY <1>2, <1>3

LEMMA TimeOfAsks ==
    ASSUME FormInv, TimeInv, NEW s \in Slots, NEW r, Fresh(s, r)
    PROVE  TimeInv'
<1>1. UNCHANGED <<listed, matcher>> /\ req' = [req EXCEPT ![s] = r] /\ DOMAIN req = Slots
  BY DEF Fresh, GuardTables, FormInv
<1>2. TimeOK(r)
  BY Times DEF Fresh, Blank, TimeOK
<1>3. TimeTypes' /\ \A x \in Procs : MatcherOK(x)'
  BY <1>1 DEF TimeInv, TimeTypes, MatcherOK, InForce
<1> QED BY <1>1, <1>2, <1>3, TimeOfOne

LEMMA TimeOfFloors ==
    ASSUME FormInv, TimeInv, NEW s \in Busy, ReadFloor(s)
    PROVE  TimeInv'
<1> PICK r : r = req[s]
  OBVIOUS
<1> PICK x, y : x = NextFloor(r.on) /\ y = RepliesOf(r.on)
  OBVIOUS
<1> PICK q : q = [r EXCEPT !.phase = "insert", !.floor = x, !.seen = y]
  OBVIOUS
<1>1. s \in Slots /\ Whole(r) /\ DOMAIN req = Slots /\ TimeOK(r)
  BY DEF Busy, FormInv, ReqOK, Made, TimeInv
<1>2. UNCHANGED <<listed, matcher>> /\ req' = [req EXCEPT ![s] = q]
  BY <1>1 DEF ReadFloor
<1>3. q.phase = "insert" /\ q.lag = r.lag
  BY <1>1 DEF Whole, Fields
<1>4. TimeOK(q)
  BY <1>1, <1>3 DEF TimeOK
<1>5. TimeTypes' /\ \A z \in Procs : MatcherOK(z)'
  BY <1>2 DEF TimeInv, TimeTypes, MatcherOK, InForce
<1> QED BY <1>1, <1>2, <1>4, <1>5, TimeOfOne

\* Requests that write end; the tables of the guard stay as they are.
LEMMA WritersEnd ==
    ASSUME FormInv, NEW s \in Busy,
           \/ WriteThread(s) \/ WriteEdit(s)
           \/ InsertReply(s) \/ DeleteReply(s) \/ WriteBook(s)
           \/ WriteRelist(s) \/ WriteTalk(s) \/ WriteMessage(s)
           \/ WriteRevision(s) \/ WriteProfile(s)
    PROVE  /\ s \in Slots /\ DOMAIN req = Slots /\ req' = [req EXCEPT ![s] = NoReq]
           /\ Goes /\ UNCHANGED GuardTables
<1>1. Ends(s)
  BY DEF WriteThread, WriteEdit, InsertReply, DeleteReply, WriteBook, WriteRelist, WriteTalk,
         WriteMessage, WriteRevision, WriteProfile
<1>2. s \in Slots /\ DOMAIN req = Slots
  BY DEF Busy, FormInv
<1> QED BY <1>1, <1>2, OneGoes DEF Ends, GuardTables

LEMMA TimeInvStarts == ASSUME Init PROVE TimeInv
<1>1. /\ listed = [w \in Words |-> IF w \in Listed THEN OldAge ELSE Unlisted]
      /\ matcher = [p \in Procs |-> [words |-> {}, left |-> 0]]
      /\ req = [s \in Slots |-> NoReq]
  BY DEF Init, GuardInit
<1>2. TimeTypes
  BY <1>1, Times DEF TimeTypes
<1>3. \A p \in Procs : MatcherOK(p)
  BY <1>1 DEF MatcherOK
<1> QED BY <1>1, <1>2, <1>3 DEF TimeInv

LEMMA TimeGoesOn ==
    ASSUME ForumInv, TimeInv, [Next /\ UNCHANGED kinds]_vars
    PROVE  TimeInv'
<1>0. FormInv /\ StoredWasChecked /\ DOMAIN req = Slots
  BY DEF ForumInv, FormInv
<1>s. ASSUME UNCHANGED guardVars PROVE TimeInv'
  <2>1. UNCHANGED <<listed, matcher>> /\ Goes
    BY <1>s DEF guardVars, Goes
  <2> QED BY <2>1, TimeStands
<1>1. CASE UNCHANGED vars
  BY <1>s, <1>1 DEF vars
<1>2. CASE GuardNext /\ UNCHANGED forumVars
  <2>1. ASSUME NEW s \in Busy,
               \/ WriteHit(s) \/ DebitScore(s) \/ StoreScore(s) \/ Ban(s) \/ CountHints(s)
               \/ CountSerious(s) \/ Judge(s) \/ Switch(s) \/ Refuse(s)
        PROVE  TimeInv'
    <3>1. Goes
      BY <1>0, <2>1, EnforceMoves
    <3>2. UNCHANGED <<listed, matcher>>
      BY <2>1 DEF WriteHit, DebitScore, StoreScore, Ban, CountHints, CountSerious, Judge, Switch, Refuse
    <3> QED BY <3>1, <3>2, TimeStands
  <2> QED BY <1>0, <1>2, <2>1, TimeOfChecks, TimeOfWords, TimeOfMinutes, TimeOfDaysAndCrashes
          DEF GuardNext
<1>3. ASSUME NEW s \in Slots, NEW u \in Users, NEW p \in Procs, NEW text \in Texts,
             AsksWith(s, u, p, text)
      PROVE  TimeInv'
  <2>1. \E r : Fresh(s, r)
    BY <1>0, <1>3, TextAsksAreMade
  <2> QED BY <1>0, <2>1, TimeOfAsks
<1>4. ASSUME NEW s \in Slots, NEW u \in Users, NEW p \in Procs, AsksFor(s, u, p)
      PROVE  TimeInv'
  <2>1. \E r : Fresh(s, r)
    BY <1>0, <1>4, OtherAsksAreMade
  <2> QED BY <1>0, <2>1, TimeOfAsks
<1>5. ASSUME NEW s \in Busy,
             \/ WriteThread(s) \/ WriteEdit(s)
             \/ InsertReply(s) \/ DeleteReply(s) \/ WriteBook(s)
             \/ WriteRelist(s) \/ WriteTalk(s) \/ WriteMessage(s)
             \/ WriteRevision(s) \/ WriteProfile(s)
      PROVE  TimeInv'
  <2>1. Goes /\ UNCHANGED <<listed, matcher>>
    BY <1>0, <1>5, WritersEnd DEF GuardTables
  <2> QED BY <2>1, TimeStands
<1>6. ASSUME NEW s \in Busy, ReadFloor(s) PROVE TimeInv'
  BY <1>0, <1>6, TimeOfFloors
<1>7. CASE \/ \E t \in DOMAIN threads : \/ DeleteThread(t)
                                        \/ \E st \in Statuses : ReviewThread(t, st)
           \/ \E i \in DOMAIN replies, st \in Statuses : ReviewReply(i, st)
           \/ \E b \in DOMAIN books : \/ \E deleted \in BOOLEAN : TakeDown(b, deleted)
                                      \/ \E st \in {"on_sale", "off_shelf", "deleted"} :
                                           ReviewBook(b, st)
  BY <1>s, <1>7 DEF DeleteThread, ReviewThread, ReviewReply, TakeDown, ReviewBook
<1>8. ASSUME Next PROVE TimeInv'
  BY <1>2, <1>3, <1>4, <1>5, <1>6, <1>7, <1>8 DEF Next, AsksWith, AsksFor, Statuses
<1> QED BY <1>1, <1>8

\* A check misses no word that was in force for longer than a matcher is kept and a
\* library takes to load, in any process.
THEOREM WordsSpread == Spec => []WordsReachEveryProcess
<1>1. Init => ForumInv /\ TimeInv
  BY ForumStarts, TimeInvStarts
<1>2. ForumInv /\ TimeInv /\ [Next /\ UNCHANGED kinds]_vars => ForumInv' /\ TimeInv'
  BY ForumGoesOn, TimeGoesOn
<1>3. ForumInv /\ TimeInv => WordsReachEveryProcess
  BY Times DEF TimeInv, TimeOK, WordsReachEveryProcess, Busy, Bound
<1> QED BY <1>1, <1>2, <1>3, PTL DEF Spec
-----------------------------------------------------------------------------
(* Punishments and what they rest on *)

Kinds    == {"debit", "severe", "hint", "serious", "postBan"}
Counters == [hint : Nat, today : Nat, serious : Nat, severe : Nat]
UserRows == [mute : Nat, banned : BOOLEAN, score : Nat]

PunTypes ==
    /\ hits \in [Users -> Counters]
    /\ users \in [Users -> UserRows]
    /\ penalties \in [Users -> Seq([kind : Kinds, count : Nat])]

\* Every entry counts hits that are there.
EntriesRest(u) ==
    \A i \in DOMAIN penalties[u] :
      /\ penalties[u][i].kind = "hint" =>
           penalties[u][i].count >= HintLimit /\ hits[u].hint >= penalties[u][i].count
      /\ penalties[u][i].kind = "serious" =>
           penalties[u][i].count >= MuteHits /\ hits[u].serious >= penalties[u][i].count
      /\ penalties[u][i].kind = "postBan" =>
           penalties[u][i].count >= BanHits /\ hits[u].serious >= penalties[u][i].count

\* A request that will make an entry for a hit that is already written.
Owes(r, phase, level) ==
    \/ r.phase = phase
    \/ /\ r.phase = "hits" /\ r.level = level
       /\ \A i \in r.found : LevelOf[r.text[i]] # level

Owing(u, phase, level) == {s \in Slots : req[s] # NoReq /\ req[s].user = u /\ Owes(req[s], phase, level)}

\* There is a hit for every entry, made or owed.
HitsCover(u) ==
    /\ Cardinality(EntriesOf(u, "severe")) + Cardinality(Owing(u, "ban", 4)) <= hits[u].severe
    /\ Cardinality(EntriesOf(u, "debit")) + Cardinality(Owing(u, "debit", 3)) <= hits[u].serious

SwitchesRest(u) ==
    /\ users[u].banned => EntriesOf(u, "severe") # {}
    /\ users[u].mute > 0 => \E kind \in DOMAIN MuteDays : EntriesOf(u, kind) # {}

Covers(u, score) == score + Debit * Cardinality(EntriesOf(u, "debit")) >= InitScore

\* What a request on its way through enforce has read and will write.
PunOK(r) ==
    /\ r.today \in Nat /\ r.today <= hits[r.user].hint
    /\ r.serious \in Nat /\ r.serious <= hits[r.user].serious
    /\ r.phase = "hits" => /\ r.found # {} /\ \A i \in r.found : r.text[i] \in Words
    /\ r.phase = "store" => r.score \in Nat /\ Covers(r.user, r.score)
    /\ r.phase = "switch" => r.penalty \in Kinds \ {"debit"} /\ EntriesOf(r.user, r.penalty) # {}

UserOK(u) ==
    /\ hits[u].today <= hits[u].hint
    /\ EntriesRest(u) /\ HitsCover(u) /\ SwitchesRest(u) /\ Covers(u, users[u].score)

PunInv ==
    /\ PunTypes
    /\ \A u \in Users : UserOK(u)
    /\ \A s \in Slots : req[s] # NoReq => PunOK(req[s])

LEMMA Limits ==
    /\ Debit \in Nat /\ InitScore \in Nat
    /\ HintLimit \in Nat \ {0} /\ MuteHits \in Nat \ {0} /\ BanHits \in Nat \ {0}
    /\ LevelOf \in [Words -> 1..4]
BY WordGuardAssumption

LEMMA EntriesFinite ==
    ASSUME NEW S, NEW p \in Seq(S), NEW kind
    PROVE  /\ IsFiniteSet({i \in DOMAIN p : p[i].kind = kind})
           /\ Cardinality({i \in DOMAIN p : p[i].kind = kind}) \in Nat
<1>1. Len(p) \in Nat /\ DOMAIN p = 1..Len(p)
  BY LenProperties
<1>2. IsFiniteSet(DOMAIN p) /\ {i \in DOMAIN p : p[i].kind = kind} \in SUBSET DOMAIN p
  BY <1>1, FS_Interval
<1> QED BY <1>2, FS_Subset, FS_CardinalityType

LEMMA PunNumbers ==
    ASSUME PunTypes, NEW u \in Users
    PROVE  /\ hits[u] \in Counters /\ users[u] \in UserRows
           /\ Len(penalties[u]) \in Nat /\ DOMAIN penalties[u] = 1..Len(penalties[u])
           /\ \A i \in DOMAIN penalties[u] : penalties[u][i] \in [kind : Kinds, count : Nat]
           /\ \A kind : /\ IsFiniteSet(EntriesOf(u, kind))
                        /\ Cardinality(EntriesOf(u, kind)) \in Nat
<1>1. penalties[u] \in Seq([kind : Kinds, count : Nat])
  BY DEF PunTypes
<1>2. Len(penalties[u]) \in Nat /\ DOMAIN penalties[u] = 1..Len(penalties[u])
  BY <1>1, LenProperties
<1>3. \A i \in DOMAIN penalties[u] : penalties[u][i] \in [kind : Kinds, count : Nat]
  BY <1>1, <1>2, ElementOfSeq
<1>4. ASSUME NEW kind
      PROVE  IsFiniteSet(EntriesOf(u, kind)) /\ Cardinality(EntriesOf(u, kind)) \in Nat
  BY <1>1, EntriesFinite DEF EntriesOf
<1>5. hits[u] \in Counters /\ users[u] \in UserRows
  BY DEF PunTypes
<1> QED BY <1>2, <1>3, <1>4, <1>5

LEMMA OwingNumbers ==
    ASSUME NEW u, NEW phase, NEW level
    PROVE  IsFiniteSet(Owing(u, phase, level)) /\ Cardinality(Owing(u, phase, level)) \in Nat
<1>1. IsFiniteSet(Slots) /\ Owing(u, phase, level) \in SUBSET Slots
  BY ForumAssumption DEF Owing
<1> QED BY <1>1, FS_Subset, FS_CardinalityType

\* More entries cover a loss as well.
LEMMA Product == ASSUME NEW d \in Nat, NEW m \in Nat, NEW n \in Nat, m <= n PROVE d * m <= d * n
OBVIOUS

LEMMA ProductNext ==
    ASSUME NEW d \in Nat, NEW n \in Nat PROVE d * (n + 1) = d * n + d /\ d * n \in Nat
OBVIOUS

\* What is on record of u only grows.
Grown(u) ==
    /\ hits'[u].hint >= hits[u].hint /\ hits'[u].serious >= hits[u].serious
    /\ \A kind \in Kinds : EntriesOf(u, kind) \subseteq EntriesOf(u, kind)'

LEMMA CoversGrows ==
    ASSUME PunTypes, PunTypes', NEW u \in Users, Grown(u), NEW x \in Nat, Covers(u, x)
    PROVE  Covers(u, x)'
<1> PICK m, n : m = Cardinality(EntriesOf(u, "debit")) /\ n = Cardinality(EntriesOf(u, "debit"))'
  OBVIOUS
<1>1. /\ IsFiniteSet(EntriesOf(u, "debit")') /\ EntriesOf(u, "debit") \in SUBSET EntriesOf(u, "debit")'
      /\ m \in Nat /\ n \in Nat
  <2>1. penalties'[u] \in Seq([kind : Kinds, count : Nat])
    BY DEF PunTypes
  <2>2. IsFiniteSet(EntriesOf(u, "debit")') /\ n \in Nat
    BY <2>1, EntriesFinite DEF EntriesOf
  <2>3. m \in Nat
    BY PunNumbers
  <2> QED BY <2>2, <2>3 DEF Grown, Kinds
<1>2. m <= n
  BY <1>1, FS_Subset
<1>3. Debit * m <= Debit * n /\ Debit * m \in Nat /\ Debit * n \in Nat
  BY <1>1, <1>2, Product, ProductNext, Limits
<1>4. x + Debit * m >= InitScore
  BY DEF Covers
<1>5. x + Debit * n >= InitScore
  BY <1>3, <1>4, Limits
<1> QED BY <1>5 DEF Covers

LEMMA PunOKGrows ==
    ASSUME PunTypes, PunTypes', NEW r, r.user \in Users, PunOK(r), Grown(r.user)
    PROVE  PunOK(r)'
<1> PICK u : u = r.user
  OBVIOUS
<1>1. /\ hits[u] \in Counters /\ hits'[u] \in Counters
  BY PunNumbers DEF PunTypes
<1>2. r.today <= hits'[u].hint /\ r.serious <= hits'[u].serious
  BY <1>1 DEF PunOK, Grown, Counters
<1>3. r.phase = "store" => Covers(u, r.score)'
  BY CoversGrows DEF PunOK
<1>4. r.phase = "switch" => EntriesOf(u, r.penalty)' # {}
  BY DEF PunOK, Grown
<1> QED BY <1>2, <1>3, <1>4 DEF PunOK

\* One request of v changes.
Single(s, q, v) ==
    /\ DOMAIN req = Slots /\ s \in Slots /\ req' = [req EXCEPT ![s] = q]
    /\ req[s] # NoReq /\ q # NoReq /\ req[s].user = v /\ q.user = v

\* How many a user owes, when one of the requests changes.
LEMMA OwingMoves ==
    ASSUME NEW s, NEW q, NEW v, Single(s, q, v), NEW phase, NEW level
    PROVE  /\ (Owes(q, phase, level) => Owes(req[s], phase, level)) =>
                Cardinality(Owing(v, phase, level))' <= Cardinality(Owing(v, phase, level))
           /\ Owes(req[s], phase, level) /\ ~Owes(q, phase, level) =>
                Cardinality(Owing(v, phase, level))' = Cardinality(Owing(v, phase, level)) - 1
           /\ Cardinality(Owing(v, phase, level))' <= Cardinality(Owing(v, phase, level)) + 1
<1> PICK A, B, r : A = Owing(v, phase, level) /\ B = Owing(v, phase, level)' /\ r = req[s]
  OBVIOUS
<1>1. /\ IsFiniteSet(A) /\ Cardinality(A) \in Nat /\ IsFiniteSet(B) /\ Cardinality(B) \in Nat
  BY OwingNumbers, ForumAssumption, FS_Subset, FS_CardinalityType DEF Owing
<1>2. /\ s \in A <=> Owes(r, phase, level)
      /\ s \in B <=> Owes(q, phase, level)
      /\ \A z \in Slots \ {s} : z \in A <=> z \in B
      /\ A \subseteq Slots /\ B \subseteq Slots
  BY DEF Single, Owing, Owes
<1>3. ASSUME Owes(q, phase, level) => Owes(r, phase, level) PROVE Cardinality(B) <= Cardinality(A)
  <2>1. B \in SUBSET A
    BY <1>2, <1>3
  <2> QED BY <1>1, <2>1, FS_Subset
<1>4. ASSUME Owes(r, phase, level), ~Owes(q, phase, level) PROVE Cardinality(B) = Cardinality(A) - 1
  <2>1. B = A \ {s} /\ s \in A
    BY <1>2, <1>4
  <2> QED BY <1>1, <2>1, FS_RemoveElement
<1>5. Cardinality(B) <= Cardinality(A) + 1
  <2> PICK C : C = A \cup {s}
    OBVIOUS
  <2>1. B \in SUBSET C
    BY <1>2
  <2>2. IsFiniteSet(C) /\ Cardinality(C) = IF s \in A THEN Cardinality(A) ELSE Cardinality(A) + 1
    BY <1>1, FS_AddElement
  <2>3. Cardinality(B) <= Cardinality(C)
    BY <2>1, <2>2, FS_Subset
  <2> QED BY <1>1, <2>2, <2>3
<1> QED BY <1>3, <1>4, <1>5

\* The two debts of a request.
Debts == {<<"ban", 4>>, <<"debit", 3>>}

Indebts(r, q) == \A d \in Debts : Owes(q, d[1], d[2]) => Owes(r, d[1], d[2])

PunTables == <<hits, users, penalties>>

\* Steps that write nothing of it down, and put no request into debt.
LEMMA QuietKeeps ==
    ASSUME PunInv, UNCHANGED PunTables,
           \A s \in Slots : \/ req'[s] = req[s]
                            \/ req'[s] = NoReq
                            \/ /\ PunOK(req'[s])
                               /\ \A d \in Debts : Owes(req'[s], d[1], d[2]) =>
                                    /\ req[s] # NoReq /\ req'[s].user = req[s].user
                                    /\ Owes(req[s], d[1], d[2])
    PROVE  PunInv'
<1>1. PunTypes /\ PunTypes'
  BY DEF PunInv, PunTypes, PunTables
<1>2. ASSUME NEW s \in Slots, req'[s] # NoReq PROVE PunOK(req[s])'
  <2> PICK q : q = req'[s]
    OBVIOUS
  <2>1. PunOK(q)
    BY <1>2 DEF PunInv
  <2>2. PunOK(q)'
    BY <2>1 DEF PunOK, Covers, EntriesOf, PunTables
  <2> QED BY <2>2 DEF PunOK, Covers, EntriesOf
<1>3. ASSUME NEW u \in Users PROVE UserOK(u)'
  <2>1. UserOK(u)
    BY DEF PunInv
  <2>2. ASSUME NEW d \in Debts
        PROVE  /\ Cardinality(Owing(u, d[1], d[2]))' <= Cardinality(Owing(u, d[1], d[2]))
               /\ Cardinality(Owing(u, d[1], d[2]))' \in Nat
    <3>1. Owing(u, d[1], d[2])' \in SUBSET Owing(u, d[1], d[2])
      BY DEF Owing, Owes
    <3> QED BY <3>1, OwingNumbers, FS_Subset, FS_CardinalityType
  <2>3. /\ Cardinality(Owing(u, "ban", 4))' <= Cardinality(Owing(u, "ban", 4))
        /\ Cardinality(Owing(u, "debit", 3))' <= Cardinality(Owing(u, "debit", 3))
        /\ Cardinality(Owing(u, "ban", 4))' \in Nat /\ Cardinality(Owing(u, "debit", 3))' \in Nat
    <3>1. <<"ban", 4>> \in Debts /\ <<"debit", 3>> \in Debts
      BY DEF Debts
    <3> QED BY <2>2, <3>1
  <2>4. HitsCover(u)'
    <3>1. /\ EntriesOf(u, "severe")' = EntriesOf(u, "severe")
          /\ EntriesOf(u, "debit")' = EntriesOf(u, "debit") /\ hits' = hits
          /\ hits[u].severe \in Nat /\ hits[u].serious \in Nat
      BY <1>1, PunNumbers DEF EntriesOf, PunTables, Counters
    <3>2. HitsCover(u)
      BY <2>1 DEF UserOK
    <3>3. /\ Cardinality(EntriesOf(u, "severe")) \in Nat /\ Cardinality(Owing(u, "ban", 4)) \in Nat
          /\ Cardinality(EntriesOf(u, "debit")) \in Nat /\ Cardinality(Owing(u, "debit", 3)) \in Nat
      BY <1>1, PunNumbers, OwingNumbers
    <3> QED BY <2>3, <3>1, <3>2, <3>3 DEF HitsCover
  <2>5. (hits[u].today <= hits[u].hint /\ EntriesRest(u) /\ SwitchesRest(u) /\ Covers(u, users[u].score))'
    BY <2>1 DEF UserOK, EntriesRest, SwitchesRest, Covers, EntriesOf, PunTables
  <2> QED BY <2>4, <2>5 DEF UserOK
<1> QED BY <1>1, <1>2, <1>3 DEF PunInv

OthersStay(v) ==
    \A u \in Users \ {v} :
      hits'[u] = hits[u] /\ users'[u] = users[u] /\ penalties'[u] = penalties[u]

\* Steps of one request that write something down about its user.
LEMMA OneIsPunished ==
    ASSUME FormInv, PunInv, PunTypes', NEW s, NEW q, NEW v \in Users, Single(s, q, v),
           OthersStay(v), Grown(v), UserOK(v)', PunOK(q)'
    PROVE  PunInv'
<1>0. /\ DOMAIN req = Slots /\ PunTypes /\ s \in Slots /\ req' = [req EXCEPT ![s] = q]
      /\ req[s] # NoReq /\ q # NoReq /\ req[s].user = v /\ q.user = v
  BY DEF FormInv, PunInv, Single
<1>1. ASSUME NEW u \in Users, u # v PROVE UserOK(u)'
  <2>1. UserOK(u) /\ hits'[u] = hits[u] /\ users'[u] = users[u] /\ penalties'[u] = penalties[u]
    BY <1>1 DEF PunInv, OthersStay
  <2>2. ASSUME NEW phase, NEW level PROVE Owing(u, phase, level)' = Owing(u, phase, level)
    BY <1>0, <1>1 DEF Owing, Owes
  <2> QED BY <2>1, <2>2
          DEF UserOK, EntriesRest, HitsCover, SwitchesRest, Covers, EntriesOf
<1>2. ASSUME NEW u \in Users PROVE Grown(u)
  <2>1. CASE u = v
    BY <2>1
  <2>2. CASE u # v
    <3>1. hits'[u] = hits[u] /\ penalties'[u] = penalties[u] /\ hits[u] \in Counters
      BY <1>0, <2>2, PunNumbers DEF OthersStay
    <3> QED BY <3>1 DEF Grown, EntriesOf, Counters
  <2> QED BY <2>1, <2>2
<1>3. ASSUME NEW z \in Slots, req'[z] # NoReq PROVE PunOK(req[z])'
  <2> PICK r : r = req'[z]
    OBVIOUS
  <2>1. CASE z = s
    <3>1. r = q
      BY <1>0, <2>1
    <3>2. PunOK(r)'
      BY <3>1
    <3> QED BY <3>2 DEF PunOK, Covers, EntriesOf
  <2>2. CASE z # s
    <3>1. r = req[z] /\ PunOK(r) /\ r.user \in Users
      BY <1>0, <1>3, <2>2 DEF PunInv, FormInv, ReqOK, Made
    <3>2. PunOK(r)'
      BY <1>0, <1>2, <3>1, PunOKGrows
    <3> QED BY <3>2 DEF PunOK, Covers, EntriesOf
  <2> QED BY <2>1, <2>2
<1> QED BY <1>1, <1>3 DEF PunInv

Enters(v, kind, n) == penalties' = [penalties EXCEPT ![v] = Append(@, Entry(kind, n))]

LEMMA EntryAdded ==
    ASSUME PunTypes, NEW v \in Users, NEW kind \in Kinds, NEW n \in Nat, Enters(v, kind, n)
    PROVE  /\ penalties' \in [Users -> Seq([kind : Kinds, count : Nat])]
           /\ \A u \in Users \ {v} : penalties'[u] = penalties[u]
           /\ Cardinality(EntriesOf(v, kind))' = Cardinality(EntriesOf(v, kind)) + 1
           /\ EntriesOf(v, kind)' # {}
           /\ \A k : k # kind => EntriesOf(v, k)' = EntriesOf(v, k)
           /\ \A k : EntriesOf(v, k) \subseteq EntriesOf(v, k)'
           /\ \A i \in DOMAIN penalties'[v] :
                penalties'[v][i] = Entry(kind, n) \/ (i \in DOMAIN penalties[v] /\ penalties'[v][i] = penalties[v][i])
<1> PICK p, x, e : p = penalties[v] /\ x = Len(p) + 1 /\ e = Entry(kind, n)
  OBVIOUS
<1>1. p \in Seq([kind : Kinds, count : Nat]) /\ e \in [kind : Kinds, count : Nat] /\ e.kind = kind
  BY DEF PunTypes, Entry
<1>2. penalties'[v] = Append(p, e) /\ \A u \in Users \ {v} : penalties'[u] = penalties[u]
  BY DEF PunTypes, Enters
<1>3. /\ Append(p, e) \in Seq([kind : Kinds, count : Nat]) /\ x \notin DOMAIN p
      /\ DOMAIN Append(p, e) = DOMAIN p \cup {x} /\ Append(p, e)[x] = e
      /\ \A j \in DOMAIN p : Append(p, e)[j] = p[j]
  BY <1>1, RowAdded
<1>4. penalties' \in [Users -> Seq([kind : Kinds, count : Nat])]
  BY <1>2, <1>3 DEF PunTypes, Enters
<1>5. EntriesOf(v, kind)' = EntriesOf(v, kind) \cup {x} /\ x \notin EntriesOf(v, kind)
  BY <1>1, <1>2, <1>3 DEF EntriesOf
<1>6. ASSUME NEW k, k # kind PROVE EntriesOf(v, k)' = EntriesOf(v, k)
  BY <1>1, <1>2, <1>3, <1>6 DEF EntriesOf
<1>7. Cardinality(EntriesOf(v, kind)') = Cardinality(EntriesOf(v, kind)) + 1
  BY <1>5, PunNumbers, FS_AddElement
<1>8. \A k : EntriesOf(v, k) \subseteq EntriesOf(v, k)'
  BY <1>5, <1>6
<1>9. \A i \in DOMAIN penalties'[v] :
        penalties'[v][i] = e \/ (i \in DOMAIN p /\ penalties'[v][i] = p[i])
  BY <1>2, <1>3
<1> QED BY <1>2, <1>4, <1>5, <1>6, <1>7, <1>8, <1>9

\* The hits of a user grow by one of the counts of the level.
LEMMA HitWritten ==
    ASSUME NEW h \in Counters, NEW w \in Words,
           NEW g, g = [c \in DOMAIN h |-> IF c \in Counts(w) THEN h[c] + 1 ELSE h[c]]
    PROVE  /\ g \in Counters /\ g.hint >= h.hint /\ g.serious >= h.serious /\ g.severe >= h.severe
           /\ h.today <= h.hint => g.today <= g.hint
           /\ LevelOf[w] = 3 => g.serious = h.serious + 1
           /\ LevelOf[w] = 4 => g.severe = h.severe + 1
<1>1. DOMAIN h = {"hint", "today", "serious", "severe"}
  BY DEF Counters
<1>2. /\ g = [c \in {"hint", "today", "serious", "severe"} |-> IF c \in Counts(w) THEN h[c] + 1 ELSE h[c]]
      /\ g.hint = IF "hint" \in Counts(w) THEN h.hint + 1 ELSE h.hint
      /\ g.today = IF "today" \in Counts(w) THEN h.today + 1 ELSE h.today
      /\ g.serious = IF "serious" \in Counts(w) THEN h.serious + 1 ELSE h.serious
      /\ g.severe = IF "severe" \in Counts(w) THEN h.severe + 1 ELSE h.severe
  BY <1>1
<1>3. h.hint \in Nat /\ h.today \in Nat /\ h.serious \in Nat /\ h.severe \in Nat
  BY DEF Counters
<1>4. g = [hint |-> g.hint, today |-> g.today, serious |-> g.serious, severe |-> g.severe]
  BY <1>2
<1>5. g.hint \in Nat /\ g.today \in Nat /\ g.serious \in Nat /\ g.severe \in Nat
  BY <1>2, <1>3
<1>6. g \in Counters
  BY <1>4, <1>5 DEF Counters
<1>7. LevelOf[w] \in 1..4
  BY Limits
<1>8. /\ "today" \in Counts(w) => "hint" \in Counts(w)
      /\ LevelOf[w] = 3 => "serious" \in Counts(w)
      /\ LevelOf[w] = 4 => "severe" \in Counts(w)
  BY <1>7 DEF Counts
<1>9. /\ g.hint >= h.hint /\ g.serious >= h.serious /\ g.severe >= h.severe
      /\ h.today <= h.hint => g.today <= g.hint
  BY <1>2, <1>3, <1>8
<1>10. /\ LevelOf[w] = 3 => g.serious = h.serious + 1
       /\ LevelOf[w] = 4 => g.severe = h.severe + 1
  BY <1>2, <1>8
<1> QED BY <1>6, <1>9, <1>10

\* The hit is on record, and covers what the request may owe for it now.
LEMMA HitCovers ==
    ASSUME PunTypes, NEW v \in Users, UserOK(v), UNCHANGED <<users, penalties>>, NEW w,
           NEW h \in Counters, NEW g \in Counters, h = hits[v], g = hits'[v],
           g.hint >= h.hint, g.serious >= h.serious, g.severe >= h.severe,
           h.today <= h.hint => g.today <= g.hint,
           LevelOf[w] = 3 => g.serious = h.serious + 1,
           LevelOf[w] = 4 => g.severe = h.severe + 1,
           \A d \in Debts :
             /\ Cardinality(Owing(v, d[1], d[2]))' \in Nat
             /\ Cardinality(Owing(v, d[1], d[2]))' <= Cardinality(Owing(v, d[1], d[2])) + 1
             /\ LevelOf[w] # d[2] =>
                  Cardinality(Owing(v, d[1], d[2]))' <= Cardinality(Owing(v, d[1], d[2]))
    PROVE  UserOK(v)'
<1>1. HitsCover(v)'
  <2>0. EntriesOf(v, "severe")' = EntriesOf(v, "severe") /\ EntriesOf(v, "debit")' = EntriesOf(v, "debit")
    BY DEF EntriesOf
  <2>1. /\ Cardinality(EntriesOf(v, "severe"))' = Cardinality(EntriesOf(v, "severe"))
        /\ Cardinality(EntriesOf(v, "debit"))' = Cardinality(EntriesOf(v, "debit"))
        /\ Cardinality(EntriesOf(v, "severe")) \in Nat /\ Cardinality(EntriesOf(v, "debit")) \in Nat
    BY <2>0, PunNumbers
  <2>2. <<"ban", 4>> \in Debts /\ <<"debit", 3>> \in Debts
    BY DEF Debts
  <2>3. /\ h.severe \in Nat /\ h.serious \in Nat /\ g.severe \in Nat /\ g.serious \in Nat
        /\ HitsCover(v)
    BY DEF UserOK, Counters
  <2>4. Cardinality(Owing(v, "ban", 4)) \in Nat /\ Cardinality(Owing(v, "debit", 3)) \in Nat
    BY OwingNumbers
  <2>5. Cardinality(EntriesOf(v, "severe"))' + Cardinality(Owing(v, "ban", 4))' <= g.severe
    <3>1. Cardinality(EntriesOf(v, "severe")) + Cardinality(Owing(v, "ban", 4)) <= h.severe
      BY <2>3 DEF HitsCover
    <3>2. /\ Cardinality(Owing(v, "ban", 4))' \in Nat
          /\ Cardinality(Owing(v, "ban", 4))' <= Cardinality(Owing(v, "ban", 4)) + 1
          /\ LevelOf[w] # 4 => Cardinality(Owing(v, "ban", 4))' <= Cardinality(Owing(v, "ban", 4))
      BY <2>2
    <3> QED BY <2>1, <2>3, <2>4, <3>1, <3>2
  <2>6. Cardinality(EntriesOf(v, "debit"))' + Cardinality(Owing(v, "debit", 3))' <= g.serious
    <3>1. Cardinality(EntriesOf(v, "debit")) + Cardinality(Owing(v, "debit", 3)) <= h.serious
      BY <2>3 DEF HitsCover
    <3>2. /\ Cardinality(Owing(v, "debit", 3))' \in Nat
          /\ Cardinality(Owing(v, "debit", 3))' <= Cardinality(Owing(v, "debit", 3)) + 1
          /\ LevelOf[w] # 3 => Cardinality(Owing(v, "debit", 3))' <= Cardinality(Owing(v, "debit", 3))
      BY <2>2
    <3> QED BY <2>1, <2>3, <2>4, <3>1, <3>2
  <2> QED BY <2>5, <2>6 DEF HitsCover
<1>2. UserOK(v)'
  <2>1. EntriesRest(v)'
    <3>1. \A j \in DOMAIN penalties[v] : penalties[v][j].count \in Nat
      BY PunNumbers
    <3>2. EntriesRest(v) /\ h.hint \in Nat /\ h.serious \in Nat /\ g.hint \in Nat /\ g.serious \in Nat
      BY DEF UserOK, Counters
    <3>3. \A j \in DOMAIN penalties[v] : /\ h.hint >= penalties[v][j].count => g.hint >= penalties[v][j].count
                                         /\ h.serious >= penalties[v][j].count => g.serious >= penalties[v][j].count
      BY <3>1, <3>2
    <3> QED BY <3>2, <3>3 DEF EntriesRest
  <2>2. (hits[v].today <= hits[v].hint)'
    BY DEF UserOK
  <2>3. \A kind : EntriesOf(v, kind)' = EntriesOf(v, kind)
    BY DEF EntriesOf
  <2>4. SwitchesRest(v) /\ Covers(v, users[v].score)
    BY DEF UserOK
  <2>5. SwitchesRest(v)'
    BY <2>3, <2>4 DEF SwitchesRest
  <2>6. Covers(v, users[v].score)'
    BY <2>3, <2>4 DEF Covers
  <2> QED BY <1>1, <2>1, <2>2, <2>5, <2>6 DEF UserOK
<1> QED BY <1>2

LEMMA HitsAreWritten ==
    ASSUME FormInv, PunInv, NEW s \in Busy, WriteHit(s)
    PROVE  PunInv'
<1>0. PICK i \in req[s].found :
         /\ req[s].phase = "hits"
         /\ hits' = [hits EXCEPT ![req[s].user] = [c \in DOMAIN @ |->
                       IF c \in Counts(req[s].text[i]) THEN @[c] + 1 ELSE @[c]]]
         /\ req' = [req EXCEPT ![s] =
                      [req[s] EXCEPT !.found = @ \ {i},
                                     !.phase = IF req[s].found = {i} THEN AfterHits(req[s]) ELSE @]]
  BY DEF WriteHit
<1> PICK r, v : r = req[s] /\ v = r.user
  OBVIOUS
<1> PICK w, h, g : w = r.text[i] /\ h = hits[v] /\ g = hits'[v]
  OBVIOUS
<1>1. /\ s \in Slots /\ r # NoReq /\ DOMAIN req = Slots /\ Whole(r) /\ v \in Users
      /\ PunTypes /\ PunOK(r) /\ UserOK(v) /\ h \in Counters
  BY PunNumbers DEF Busy, FormInv, ReqOK, Made, PunInv
<1>2. w \in Words /\ r.found # {}
  BY <1>0, <1>1 DEF PunOK
<1>3. g = [c \in DOMAIN h |-> IF c \in Counts(w) THEN h[c] + 1 ELSE h[c]]
  BY <1>0, <1>1 DEF PunTypes
<1>4. /\ g \in Counters /\ g.hint >= h.hint /\ g.serious >= h.serious /\ g.severe >= h.severe
      /\ h.today <= h.hint => g.today <= g.hint
      /\ LevelOf[w] = 3 => g.serious = h.serious + 1
      /\ LevelOf[w] = 4 => g.severe = h.severe + 1
  <2>1. h \in Counters /\ w \in Words
    BY <1>1, <1>2
  <2> QED BY <1>3, <2>1, HitWritten
<1> PICK q : q = [r EXCEPT !.found = @ \ {i},
                          !.phase = IF r.found = {i} THEN AfterHits(r) ELSE @]
  OBVIOUS
<1>5. /\ UNCHANGED <<users, penalties>> /\ req' = [req EXCEPT ![s] = q]
      /\ \A u \in Users \ {v} : hits'[u] = hits[u]
  BY <1>0, <1>1 DEF WriteHit, PunTypes
<1>6. PunTypes'
  <2>1. DOMAIN hits' = Users /\ hits \in [Users -> Counters]
    BY <1>0, <1>1 DEF PunTypes
  <2>2. hits' = [u \in Users |-> hits'[u]]
    BY <1>0, <2>1
  <2>3. \A u \in Users : hits'[u] \in Counters
    BY <1>4, <1>5, <2>1
  <2>4. hits' \in [Users -> Counters]
    BY <2>2, <2>3
  <2> QED BY <1>1, <1>5, <2>4 DEF PunTypes
<1>7. /\ Whole(q) /\ q.user = v /\ q.found = r.found \ {i} /\ q.level = r.level /\ q.text = r.text
      /\ q.today = r.today /\ q.serious = r.serious /\ q.score = r.score /\ q.penalty = r.penalty
      /\ q.phase = IF r.found = {i} THEN AfterHits(r) ELSE "hits"
      /\ q # NoReq
  <2>1. Whole(q) /\ q.phase = IF r.found = {i} THEN AfterHits(r) ELSE "hits"
    BY <1>0, <1>1 DEF Whole, Fields
  <2>2. q # NoReq
    BY <2>1 DEF NoReq, AfterHits
  <2> QED BY <1>0, <1>1, <2>1, <2>2 DEF Whole, Fields
<1>8. Grown(v)
  BY <1>4, <1>5 DEF Grown, EntriesOf
<1>9. PunOK(q)'
  <2>1. PunOK(r)'
    BY <1>1, <1>6, <1>8, PunOKGrows
  <2>2. q.phase \in {"hits", "debit", "ban", "hint"}
    BY <1>7 DEF AfterHits
  <2>3. q.phase = "hits" => q.found # {}
    BY <1>7, <1>2 DEF AfterHits
  <2>4. /\ q.today \in Nat /\ (q.today <= hits[q.user].hint)'
        /\ q.serious \in Nat /\ (q.serious <= hits[q.user].serious)'
    BY <1>7, <2>1 DEF PunOK
  <2>5. \A j \in q.found : q.text[j] \in Words
    BY <1>0, <1>1, <1>7 DEF PunOK
  <2> QED BY <2>2, <2>3, <2>4, <2>5 DEF PunOK
<1>10. ASSUME NEW phase, NEW level, <<phase, level>> \in Debts
       PROVE  /\ Cardinality(Owing(v, phase, level))' \in Nat
              /\ Cardinality(Owing(v, phase, level))' <= Cardinality(Owing(v, phase, level)) + 1
              /\ LevelOf[w] # level =>
                   Cardinality(Owing(v, phase, level))' <= Cardinality(Owing(v, phase, level))
  <2>1. ASSUME LevelOf[w] # level, Owes(q, phase, level) PROVE Owes(r, phase, level)
    <3>1. \A j \in r.found : j # i => j \in q.found
      BY <1>7
    <3>2. CASE q.phase = "hits"
      BY <1>0, <1>7, <2>1, <3>1, <3>2, <1>10 DEF Owes, Debts
    <3>3. CASE q.phase # "hits"
      <4>1. r.found = {i} /\ AfterHits(r) = phase
        BY <1>0, <1>7, <2>1, <3>3 DEF Owes
      <4>2. r.level = level
        BY <4>1, <1>10 DEF AfterHits, Debts
      <4> QED BY <1>0, <4>1, <4>2, <2>1 DEF Owes
    <3> QED BY <3>2, <3>3
  <2>2. IsFiniteSet(Owing(v, phase, level)') /\ Cardinality(Owing(v, phase, level))' \in Nat
    BY ForumAssumption, FS_Subset, FS_CardinalityType DEF Owing
  <2>3. Single(s, q, v)
    BY <1>1, <1>5, <1>7 DEF Single
  <2>4. Owes(r, phase, level) = Owes(req[s], phase, level)
    OBVIOUS
  <2> QED BY <2>1, <2>2, <2>3, <2>4, OwingMoves
<1>11. UserOK(v)'
  <2>1. ASSUME NEW d \in Debts
        PROVE  /\ Cardinality(Owing(v, d[1], d[2]))' \in Nat
               /\ Cardinality(Owing(v, d[1], d[2]))' <= Cardinality(Owing(v, d[1], d[2])) + 1
               /\ LevelOf[w] # d[2] =>
                    Cardinality(Owing(v, d[1], d[2]))' <= Cardinality(Owing(v, d[1], d[2]))
    <3>1. <<d[1], d[2]>> \in Debts
      BY DEF Debts
    <3> QED BY <1>10, <3>1
  <2> QED BY <1>1, <1>4, <1>5, <2>1, HitCovers
<1>12. Single(s, q, v) /\ OthersStay(v)
  BY <1>1, <1>5, <1>7 DEF Single, OthersStay
<1> QED BY <1>1, <1>6, <1>8, <1>9, <1>11, <1>12, OneIsPunished
\* A request that owes nothing any more.
Settled(q) == q.phase \notin {"hits", "ban", "debit"}

LEMMA SettledOwesNothing ==
    ASSUME NEW q, Settled(q), NEW d \in Debts PROVE ~Owes(q, d[1], d[2])
BY DEF Settled, Debts, Owes

\* No hit and no entry is written, and the request owes nothing in the end.
LEMMA NoNewDebt ==
    ASSUME PunTypes, NEW v \in Users, HitsCover(v), NEW s, NEW q, Single(s, q, v), Settled(q),
           UNCHANGED <<hits, penalties>>
    PROVE  HitsCover(v)'
<1>1. /\ ~Owes(q, "ban", 4) /\ ~Owes(q, "debit", 3)
  BY DEF Settled, Owes
<1>2. /\ Cardinality(Owing(v, "ban", 4))' <= Cardinality(Owing(v, "ban", 4))
      /\ Cardinality(Owing(v, "debit", 3))' <= Cardinality(Owing(v, "debit", 3))
  BY <1>1, OwingMoves
<1>3. /\ IsFiniteSet(Owing(v, "ban", 4)') /\ Cardinality(Owing(v, "ban", 4))' \in Nat
      /\ IsFiniteSet(Owing(v, "debit", 3)') /\ Cardinality(Owing(v, "debit", 3))' \in Nat
  BY ForumAssumption, FS_Subset, FS_CardinalityType DEF Owing
<1>4. EntriesOf(v, "severe")' = EntriesOf(v, "severe") /\ EntriesOf(v, "debit")' = EntriesOf(v, "debit")
  BY DEF EntriesOf
<1>5. /\ Cardinality(EntriesOf(v, "severe"))' = Cardinality(EntriesOf(v, "severe"))
      /\ Cardinality(EntriesOf(v, "debit"))' = Cardinality(EntriesOf(v, "debit"))
  BY <1>4
<1>6. /\ Cardinality(EntriesOf(v, "severe")) \in Nat /\ Cardinality(EntriesOf(v, "debit")) \in Nat
      /\ Cardinality(Owing(v, "ban", 4)) \in Nat /\ Cardinality(Owing(v, "debit", 3)) \in Nat
      /\ hits[v].severe \in Nat /\ hits[v].serious \in Nat
  BY PunNumbers, OwingNumbers DEF Counters
<1> QED BY <1>2, <1>3, <1>5, <1>6 DEF HitsCover

\* What an entry must have behind it when it is made.
Rests(v, kind, n) ==
    /\ kind = "hint" => n >= HintLimit /\ hits[v].hint >= n
    /\ kind = "serious" => n >= MuteHits /\ hits[v].serious >= n
    /\ kind = "postBan" => n >= BanHits /\ hits[v].serious >= n

\* The request s makes the entry, and becomes q.
Makes(s, q, v, kind, n) ==
    /\ kind \in Kinds /\ n \in Nat /\ Rests(v, kind, n)
    /\ kind = "severe" => Owes(req[s], "ban", 4)
    /\ kind = "debit" => Owes(req[s], "debit", 3)
    /\ q.today \in Nat /\ q.today <= hits[v].hint
    /\ q.serious \in Nat /\ q.serious <= hits[v].serious
    /\ \/ q.phase = "store" /\ kind = "debit" /\ q.score = Charged(req[s], users[v].score)
       \/ q.phase = "switch" /\ kind # "debit" /\ q.penalty = kind

LEMMA EntryIsWritten ==
    ASSUME FormInv, PunInv, NEW v \in Users, NEW s, NEW q, Single(s, q, v), NEW kind, NEW n,
           Makes(s, q, v, kind, n), Enters(v, kind, n), UNCHANGED <<hits, users>>
    PROVE  PunInv'
<1>0. /\ kind \in Kinds /\ n \in Nat /\ Rests(v, kind, n)
      /\ kind = "severe" => Owes(req[s], "ban", 4)
      /\ kind = "debit" => Owes(req[s], "debit", 3)
      /\ q.today \in Nat /\ q.today <= hits[v].hint
      /\ q.serious \in Nat /\ q.serious <= hits[v].serious
      /\ \/ q.phase = "store" /\ kind = "debit" /\ q.score = Charged(req[s], users[v].score)
         \/ q.phase = "switch" /\ kind # "debit" /\ q.penalty = kind
  BY DEF Makes
<1>1. PunTypes /\ UserOK(v) /\ q.user = v /\ hits[v] \in Counters /\ users[v] \in UserRows
  BY PunNumbers DEF PunInv, Single
<1>2. /\ penalties' \in [Users -> Seq([kind : Kinds, count : Nat])]
      /\ \A u \in Users \ {v} : penalties'[u] = penalties[u]
      /\ Cardinality(EntriesOf(v, kind))' = Cardinality(EntriesOf(v, kind)) + 1
      /\ EntriesOf(v, kind)' # {}
      /\ \A k : k # kind => EntriesOf(v, k)' = EntriesOf(v, k)
      /\ \A k : EntriesOf(v, k) \subseteq EntriesOf(v, k)'
      /\ \A i \in DOMAIN penalties'[v] :
           \/ penalties'[v][i] = Entry(kind, n)
           \/ i \in DOMAIN penalties[v] /\ penalties'[v][i] = penalties[v][i]
  BY <1>0, <1>1, EntryAdded
<1>3. PunTypes' /\ Grown(v) /\ OthersStay(v)
  <2>1. PunTypes' /\ OthersStay(v)
    BY <1>0, <1>1, <1>2 DEF PunTypes, OthersStay
  <2>2. hits'[v].hint >= hits[v].hint /\ hits'[v].serious >= hits[v].serious
    BY <1>1 DEF Counters
  <2> QED BY <1>2, <2>1, <2>2 DEF Grown
<1>4. HitsCover(v)'
  <2>1. Settled(q)
    BY <1>0 DEF Settled
  <2>2. ~Owes(q, "ban", 4) /\ ~Owes(q, "debit", 3)
    BY <2>1 DEF Settled, Owes
  <2>3. /\ Cardinality(Owing(v, "ban", 4))' <= Cardinality(Owing(v, "ban", 4))
        /\ Cardinality(Owing(v, "debit", 3))' <= Cardinality(Owing(v, "debit", 3))
        /\ kind = "severe" => Cardinality(Owing(v, "ban", 4))' = Cardinality(Owing(v, "ban", 4)) - 1
        /\ kind = "debit" => Cardinality(Owing(v, "debit", 3))' = Cardinality(Owing(v, "debit", 3)) - 1
    BY <1>0, <2>2, OwingMoves
  <2>4. /\ IsFiniteSet(Owing(v, "ban", 4)') /\ Cardinality(Owing(v, "ban", 4))' \in Nat
        /\ IsFiniteSet(Owing(v, "debit", 3)') /\ Cardinality(Owing(v, "debit", 3))' \in Nat
    BY ForumAssumption, FS_Subset, FS_CardinalityType DEF Owing
  <2>5. /\ Cardinality(EntriesOf(v, "severe")) \in Nat /\ Cardinality(EntriesOf(v, "debit")) \in Nat
        /\ Cardinality(Owing(v, "ban", 4)) \in Nat /\ Cardinality(Owing(v, "debit", 3)) \in Nat
        /\ hits[v].severe \in Nat /\ hits[v].serious \in Nat
    BY <1>1, PunNumbers, OwingNumbers DEF Counters
  <2>6. /\ Cardinality(EntriesOf(v, "severe"))' = Cardinality(EntriesOf(v, "severe")) +
             (IF kind = "severe" THEN 1 ELSE 0)
        /\ Cardinality(EntriesOf(v, "debit"))' = Cardinality(EntriesOf(v, "debit")) +
             (IF kind = "debit" THEN 1 ELSE 0)
    <3>1. /\ kind # "severe" => Cardinality(EntriesOf(v, "severe"))' = Cardinality(EntriesOf(v, "severe"))
          /\ kind # "debit" => Cardinality(EntriesOf(v, "debit"))' = Cardinality(EntriesOf(v, "debit"))
      BY <1>2
    <3> QED BY <1>2, <2>5, <3>1
  <2>7. HitsCover(v)
    BY <1>1 DEF UserOK
  <2>8. /\ (Cardinality(EntriesOf(v, "severe")) + Cardinality(Owing(v, "ban", 4)))' <= hits[v].severe
        /\ (Cardinality(EntriesOf(v, "debit")) + Cardinality(Owing(v, "debit", 3)))' <= hits[v].serious
    <3> PICK e, f, o, p : /\ e = Cardinality(EntriesOf(v, "severe")) /\ f = Cardinality(EntriesOf(v, "debit"))
                          /\ o = Cardinality(Owing(v, "ban", 4)) /\ p = Cardinality(Owing(v, "debit", 3))
      OBVIOUS
    <3> PICK g, h, x, y : /\ g = Cardinality(EntriesOf(v, "severe"))' /\ h = Cardinality(EntriesOf(v, "debit"))'
                          /\ x = Cardinality(Owing(v, "ban", 4))' /\ y = Cardinality(Owing(v, "debit", 3))'
      OBVIOUS
    <3> PICK a, b : a = hits[v].severe /\ b = hits[v].serious
      OBVIOUS
    <3>1. /\ e \in Nat /\ f \in Nat /\ o \in Nat /\ p \in Nat /\ x \in Nat /\ y \in Nat /\ a \in Nat /\ b \in Nat
          /\ g = e + (IF kind = "severe" THEN 1 ELSE 0) /\ h = f + (IF kind = "debit" THEN 1 ELSE 0)
          /\ x <= o /\ y <= p /\ e + o <= a /\ f + p <= b
          /\ kind = "severe" => x = o - 1
          /\ kind = "debit" => y = p - 1
      BY <2>3, <2>4, <2>5, <2>6, <2>7 DEF HitsCover
    <3>2. g + x <= a
      <4>1. CASE kind = "severe"
        BY <3>1, <4>1
      <4>2. CASE kind # "severe"
        BY <3>1, <4>2
      <4> QED BY <4>1, <4>2
    <3>3. h + y <= b
      <4>1. CASE kind = "debit"
        BY <3>1, <4>1
      <4>2. CASE kind # "debit"
        BY <3>1, <4>2
      <4> QED BY <4>1, <4>2
    <3> QED BY <3>2, <3>3
  <2> QED BY <2>8 DEF HitsCover
<1>5. EntriesRest(v)'
  <2>1. EntriesRest(v) /\ Entry(kind, n).kind = kind /\ Entry(kind, n).count = n
    BY <1>1 DEF UserOK, Entry
  <2> QED BY <1>0, <1>2, <2>1 DEF EntriesRest, Rests
<1>6. SwitchesRest(v)'
  BY <1>1, <1>2 DEF UserOK, SwitchesRest
<1>7. Covers(v, users[v].score)'
  <2> PICK x : x = users[v].score
    OBVIOUS
  <2>1. x \in Nat /\ Covers(v, x)
    BY <1>1 DEF UserOK, UserRows
  <2>2. Covers(v, x)'
    BY <1>1, <1>3, <2>1, CoversGrows
  <2> QED BY <2>2 DEF Covers
<1>8. UserOK(v)'
  <2>1. hits'[v].today <= hits'[v].hint
    BY <1>1 DEF UserOK
  <2> QED BY <1>4, <1>5, <1>6, <1>7, <2>1 DEF UserOK
<1>9. ASSUME q.phase = "store" PROVE q.score \in Nat /\ Covers(v, q.score)'
  <2> PICK x, m, y : x = users[v].score /\ m = Cardinality(EntriesOf(v, "debit")) /\ y = q.score
    OBVIOUS
  <2>1. /\ x \in Nat /\ m \in Nat /\ x + Debit * m >= InitScore /\ y = Charged(req[s], x)
        /\ Cardinality(EntriesOf(v, "debit"))' = m + 1
    BY <1>0, <1>1, <1>2, <1>9, PunNumbers DEF UserOK, UserRows, Covers
  <2>2. y \in Nat /\ y + Debit >= x
    BY <2>1, Limits DEF Charged
  <2> PICK d, e : d = Debit * m /\ e = Debit * (m + 1)
    OBVIOUS
  <2>3. e = d + Debit /\ d \in Nat /\ x + d >= InitScore
    BY <2>1, Limits, ProductNext
  <2>4. y + e >= InitScore
    BY <2>1, <2>2, <2>3, Limits
  <2> QED BY <2>1, <2>2, <2>4 DEF Covers
<1>10. PunOK(q)'
  <2>1. q.phase = "store" => q.score \in Nat /\ Covers(q.user, q.score)'
    BY <1>1, <1>9
  <2>2. q.phase = "switch" => q.penalty \in Kinds \ {"debit"} /\ EntriesOf(q.user, q.penalty)' # {}
    BY <1>0, <1>1, <1>2
  <2>3. q.phase # "hits"
    BY <1>0
  <2> QED BY <1>0, <1>1, <2>1, <2>2, <2>3 DEF PunOK
<1> QED BY <1>3, <1>8, <1>10, OneIsPunished
\* What a request in enforce has, at the start of each of its statements.
LEMMA Standing ==
    ASSUME FormInv, PunInv, NEW s \in Busy
    PROVE  /\ s \in Slots /\ DOMAIN req = Slots /\ req[s] # NoReq /\ Whole(req[s]) /\ req[s].user \in Users
           /\ PunTypes /\ PunOK(req[s]) /\ UserOK(req[s].user)
           /\ hits[req[s].user] \in Counters /\ users[req[s].user] \in UserRows
           /\ req[s].today \in Nat /\ req[s].today <= hits[req[s].user].hint
           /\ req[s].serious \in Nat /\ req[s].serious <= hits[req[s].user].serious
<1>1. /\ s \in Slots /\ DOMAIN req = Slots /\ req[s] # NoReq /\ Whole(req[s]) /\ req[s].user \in Users
  BY DEF Busy, FormInv, ReqOK, Made
<1>2. PunTypes /\ PunOK(req[s]) /\ UserOK(req[s].user)
  BY <1>1 DEF PunInv
<1> QED BY <1>1, <1>2, PunNumbers DEF PunOK

LEMMA Due == ASSUME NEW n \in Nat, NEW limit \in Nat \ {0}, n > 0, n % limit = 0 PROVE n >= limit
BY SMTT(30)

LEMMA DebitsAreWritten ==
    ASSUME FormInv, PunInv, NEW s \in Busy, DebitScore(s)
    PROVE  PunInv'
<1> PICK r, v : r = req[s] /\ v = r.user
  OBVIOUS
<1> PICK y : y = Charged(r, users[v].score)
  OBVIOUS
<1> PICK q : q = [r EXCEPT !.phase = "store", !.score = y]
  OBVIOUS
<1>1. /\ s \in Slots /\ DOMAIN req = Slots /\ r # NoReq /\ Whole(r) /\ v \in Users
      /\ r.today \in Nat /\ r.today <= hits[v].hint
      /\ r.serious \in Nat /\ r.serious <= hits[v].serious
  BY Standing
<1>2. /\ r.phase = "debit" /\ Enters(v, "debit", 0) /\ UNCHANGED <<hits, users>>
      /\ req' = [req EXCEPT ![s] = q]
  BY DEF DebitScore, Enters
<1>3. /\ q.phase = "store" /\ q.score = y /\ q.user = v /\ q.today = r.today /\ q.serious = r.serious
      /\ q # NoReq
  <2>1. /\ q.phase = "store" /\ q.score = y /\ q.user = v /\ q.today = r.today /\ q.serious = r.serious
    BY <1>1 DEF Whole, Fields
  <2> QED BY <2>1 DEF NoReq
<1>4. Single(s, q, v)
  BY <1>1, <1>2, <1>3 DEF Single
<1>5. Owes(req[s], "debit", 3) /\ Rests(v, "debit", 0) /\ "debit" \in Kinds /\ 0 \in Nat
  BY <1>2 DEF Owes, Rests, Kinds
<1>6. Makes(s, q, v, "debit", 0)
  BY <1>1, <1>3, <1>5 DEF Makes
<1> QED BY <1>1, <1>2, <1>4, <1>6, EntryIsWritten

\* A row of penalties: what the request was and has read stays.
LEMMA PenaltiesAreWritten ==
    ASSUME FormInv, PunInv, NEW s \in Busy, NEW r, Whole(r), r.user = req[s].user,
           r.today = req[s].today, r.serious \in Nat, r.serious <= hits[r.user].serious,
           NEW kind \in Kinds \ {"debit"}, NEW n \in Nat, Rests(r.user, kind, n), NEW then,
           kind = "severe" => Owes(req[s], "ban", 4),
           Punish(s, r, kind, n, then), UNCHANGED <<hits, users>>
    PROVE  PunInv'
<1> PICK v, q : v = r.user /\ q = [r EXCEPT !.phase = "switch", !.penalty = kind, !.then = then]
  OBVIOUS
<1>1. /\ s \in Slots /\ DOMAIN req = Slots /\ req[s] # NoReq /\ v \in Users /\ req[s].user = v
      /\ r.today \in Nat /\ r.today <= hits[v].hint
  BY Standing
<1>2. Enters(v, kind, n) /\ req' = [req EXCEPT ![s] = q]
  BY DEF Punish, Enters
<1>3. /\ q.phase = "switch" /\ q.penalty = kind /\ q.user = v /\ q.today = r.today /\ q.serious = r.serious
      /\ q # NoReq
  <2>1. /\ q.phase = "switch" /\ q.penalty = kind /\ q.user = v /\ q.today = r.today /\ q.serious = r.serious
    BY DEF Whole, Fields
  <2> QED BY <2>1 DEF NoReq
<1>4. Single(s, q, v)
  BY <1>1, <1>2, <1>3 DEF Single
<1>5. Makes(s, q, v, kind, n)
  BY <1>1, <1>3 DEF Makes
<1> QED BY <1>1, <1>2, <1>4, <1>5, EntryIsWritten

LEMMA BansAreWritten ==
    ASSUME FormInv, PunInv, NEW s \in Busy, Ban(s)
    PROVE  PunInv'
<1> PICK r, n : r = req[s] /\ n = hits[r.user].severe
  OBVIOUS
<1>1. /\ Whole(r) /\ r.serious \in Nat /\ r.serious <= hits[r.user].serious /\ n \in Nat
  BY Standing DEF Counters
<1>2. Punish(s, r, "severe", n, "hint") /\ r.phase = "ban" /\ UNCHANGED <<hits, users>>
  BY DEF Ban
<1>3. Owes(req[s], "ban", 4) /\ Rests(r.user, "severe", n) /\ "severe" \in Kinds \ {"debit"}
  BY <1>2 DEF Owes, Rests, Kinds
<1>4. /\ r.user = req[s].user /\ r.today = req[s].today /\ n \in Nat
      /\ r.serious \in Nat /\ r.serious <= hits[r.user].serious /\ Whole(r)
  BY <1>1
<1> QED BY <1>2, <1>3, <1>4, PenaltiesAreWritten

\* A request that goes on to where it owes nothing, and writes nothing down.
LEMMA OneIsQuiet ==
    ASSUME PunInv, DOMAIN req = Slots, NEW s \in Slots, NEW q, req' = [req EXCEPT ![s] = q],
           UNCHANGED PunTables, q = NoReq \/ (PunOK(q) /\ Settled(q))
    PROVE  PunInv'
<1>1. \A z \in Slots : req'[z] = IF z = s THEN q ELSE req[z]
  OBVIOUS
<1>2. ASSUME NEW d \in Debts, Settled(q) PROVE ~Owes(q, d[1], d[2])
  BY <1>2, SettledOwesNothing
<1>3. \A z \in Slots : \/ req'[z] = req[z]
                       \/ req'[z] = NoReq
                       \/ PunOK(req'[z]) /\ \A d \in Debts : ~Owes(req'[z], d[1], d[2])
  BY <1>1, <1>2
<1> QED BY <1>3, QuietKeeps

LEMMA CountsAreTaken ==
    ASSUME FormInv, PunInv, NEW s \in Busy, CountHints(s) \/ CountSerious(s)
    PROVE  PunInv'
<1> PICK r, v : r = req[s] /\ v = r.user
  OBVIOUS
<1>1. /\ s \in Slots /\ DOMAIN req = Slots /\ Whole(r) /\ v \in Users
      /\ hits[v] \in Counters /\ UserOK(v) /\ r.today \in Nat /\ r.today <= hits[v].hint
      /\ r.serious \in Nat /\ r.serious <= hits[v].serious
  BY Standing
<1>2. CASE CountHints(s)
  <2> PICK y : y = hits[v].today
    OBVIOUS
  <2> PICK q : q = [r EXCEPT !.phase = "serious", !.today = y]
    OBVIOUS
  <2>1. req' = [req EXCEPT ![s] = q] /\ UNCHANGED PunTables
    BY <1>2 DEF CountHints, PunTables
  <2>2. q.phase = "serious" /\ q.today = y /\ q.serious = r.serious /\ q.user = v
    BY <1>1 DEF Whole, Fields
  <2>3. y \in Nat /\ y <= hits[v].hint
    BY <1>1 DEF Counters, UserOK
  <2>4. PunOK(q) /\ Settled(q)
    BY <1>1, <2>2, <2>3 DEF PunOK, Settled
  <2> QED BY <1>1, <2>1, <2>4, OneIsQuiet
<1>3. CASE CountSerious(s)
  <2> PICK y : y = hits[v].serious
    OBVIOUS
  <2> PICK p : p = [r EXCEPT !.serious = y]
    OBVIOUS
  <2>1. /\ Whole(p) /\ p.user = v /\ p.today = r.today /\ p.serious = y /\ y \in Nat /\ y <= hits[v].serious
    BY <1>1 DEF Whole, Fields, Counters
  <2>2. UNCHANGED <<hits, users>>
    BY <1>3 DEF CountSerious
  <2>3. CASE HintDue(p.today)
    <3>1. Punish(s, p, "hint", p.today, "judge")
      BY <1>3, <2>3 DEF CountSerious
    <3>2. p.today >= HintLimit
      BY <1>1, <2>1, <2>3, Due, Limits DEF HintDue
    <3>3. Rests(v, "hint", p.today) /\ "hint" \in Kinds \ {"debit"}
      BY <1>1, <2>1, <3>2 DEF Rests, Kinds, Counters
    <3> QED BY <1>1, <2>1, <2>2, <3>1, <3>3, PenaltiesAreWritten
  <2>4. CASE ~HintDue(p.today)
    <3> PICK q : q = [p EXCEPT !.phase = "judge"]
      OBVIOUS
    <3>1. req' = [req EXCEPT ![s] = q] /\ UNCHANGED PunTables
      BY <1>3, <2>4 DEF CountSerious, Spare, PunTables
    <3>2. q.phase = "judge" /\ q.today = p.today /\ q.serious = y /\ q.user = v
      BY <2>1 DEF Whole, Fields
    <3>3. PunOK(q) /\ Settled(q)
      BY <1>1, <2>1, <3>2 DEF PunOK, Settled
    <3> QED BY <1>1, <3>1, <3>3, OneIsQuiet
  <2> QED BY <2>3, <2>4
<1> QED BY <1>2, <1>3

LEMMA UsersAreJudged ==
    ASSUME FormInv, PunInv, NEW s \in Busy, Judge(s)
    PROVE  PunInv'
<1> PICK r, v, n : r = req[s] /\ v = r.user /\ n = r.serious
  OBVIOUS
<1>1. /\ s \in Slots /\ DOMAIN req = Slots /\ Whole(r) /\ v \in Users
      /\ hits[v] \in Counters /\ r.today \in Nat /\ r.today <= hits[v].hint
      /\ n \in Nat /\ n <= hits[v].serious
  BY Standing
<1>2. UNCHANGED <<hits, users>>
  BY DEF Judge
<1>3. ASSUME NEW kind \in {"postBan", "serious"},
             n >= IF kind = "postBan" THEN BanHits ELSE MuteHits,
             Punish(s, r, kind, n, Verdict(r))
      PROVE  PunInv'
  <2>1. Rests(v, kind, n) /\ kind \in Kinds \ {"debit"} /\ kind # "severe"
    BY <1>1, <1>3 DEF Rests, Kinds, Counters
  <2> QED BY <1>1, <1>2, <1>3, <2>1, PenaltiesAreWritten
<1>4. CASE Reached(n, BanHits)
  <2>1. n >= BanHits /\ Punish(s, r, "postBan", n, Verdict(r))
    BY <1>4 DEF Judge, Reached
  <2> QED BY <1>3, <2>1
<1>5. CASE ~Reached(n, BanHits) /\ Reached(n, MuteHits)
  <2>1. n >= MuteHits /\ Punish(s, r, "serious", n, Verdict(r))
    BY <1>5 DEF Judge, Reached
  <2> QED BY <1>3, <2>1
<1>6. CASE ~Reached(n, BanHits) /\ ~Reached(n, MuteHits)
  <2> PICK x : x = Verdict(r)
    OBVIOUS
  <2> PICK q : q = [r EXCEPT !.phase = x]
    OBVIOUS
  <2>1. req' = [req EXCEPT ![s] = q] /\ UNCHANGED PunTables /\ x \in {"write", "refuse"}
    BY <1>6 DEF Judge, Spare, PunTables, Verdict
  <2>2. q.phase = x /\ q.today = r.today /\ q.serious = n /\ q.user = v
    BY <1>1 DEF Whole, Fields
  <2>3. PunOK(q) /\ Settled(q)
    BY <1>1, <2>1, <2>2 DEF PunOK, Settled
  <2> QED BY <1>1, <2>1, <2>3, OneIsQuiet
<1> QED BY <1>4, <1>5, <1>6
\* The score is stored, or the switch of a user is set; the request owes nothing.
LEMMA UserIsWritten ==
    ASSUME FormInv, PunInv, NEW s \in Busy, NEW x, x \in Nexts, NEW row \in UserRows,
           users' = [users EXCEPT ![req[s].user] = row],
           req' = [req EXCEPT ![s] = [req[s] EXCEPT !.phase = x]],
           UNCHANGED <<hits, penalties>>,
           Covers(req[s].user, row.score),
           row.banned => EntriesOf(req[s].user, "severe") # {},
           row.mute > 0 => \E kind \in DOMAIN MuteDays : EntriesOf(req[s].user, kind) # {}
    PROVE  PunInv'
<1> PICK r, v : r = req[s] /\ v = r.user
  OBVIOUS
<1> PICK q : q = [r EXCEPT !.phase = x]
  OBVIOUS
<1>1. /\ s \in Slots /\ DOMAIN req = Slots /\ r # NoReq /\ Whole(r) /\ v \in Users /\ PunTypes
      /\ UserOK(v) /\ hits[v] \in Counters
      /\ r.today \in Nat /\ r.today <= hits[v].hint
      /\ r.serious \in Nat /\ r.serious <= hits[v].serious
  BY Standing
<1>2. q.phase = x /\ q.user = v /\ q.today = r.today /\ q.serious = r.serious /\ q # NoReq
  <2>1. q.phase = x /\ q.user = v /\ q.today = r.today /\ q.serious = r.serious
    BY <1>1 DEF Whole, Fields
  <2>2. Whole(q)
    BY <1>1 DEF Whole, Fields
  <2> QED BY <2>1, <2>2 DEF NoReq, Whole, Fields
<1>3. Settled(q) /\ PunOK(q)'
  <2>1. q.phase \in Nexts
    BY <1>2
  <2> QED BY <1>1, <1>2, <2>1 DEF Nexts, Settled, PunOK
<1>4. Single(s, q, v)
  BY <1>1, <1>2 DEF Single
<1>5. users'[v] = row /\ \A u \in Users \ {v} : users'[u] = users[u]
  BY <1>1 DEF PunTypes
<1>6. PunTypes' /\ OthersStay(v)
  <2>1. users' \in [Users -> UserRows]
    BY <1>1 DEF PunTypes
  <2> QED BY <1>1, <1>5, <2>1 DEF PunTypes, OthersStay
<1>7. Grown(v)
  BY <1>1 DEF Grown, EntriesOf, Counters
<1>8. UserOK(v)'
  <2>0. HitsCover(v)
    BY <1>1 DEF UserOK
  <2>1. HitsCover(v)'
    BY <1>1, <1>3, <1>4, <2>0, NoNewDebt
  <2>2. (hits[v].today <= hits[v].hint /\ EntriesRest(v))'
    BY <1>1 DEF UserOK, EntriesRest
  <2>3. SwitchesRest(v)' /\ Covers(v, users[v].score)'
    BY <1>5 DEF SwitchesRest, Covers, EntriesOf
  <2> QED BY <2>1, <2>2, <2>3 DEF UserOK
<1> QED BY <1>1, <1>3, <1>4, <1>6, <1>7, <1>8, OneIsPunished

LEMMA ScoresAreStored ==
    ASSUME FormInv, PunInv, NEW s \in Busy, StoreScore(s)
    PROVE  PunInv'
<1> PICK v, y : v = req[s].user /\ y = req[s].score
  OBVIOUS
<1> PICK row : row = [users[v] EXCEPT !.score = y]
  OBVIOUS
<1>1. v \in Users /\ UserOK(v) /\ users[v] \in UserRows /\ req[s].phase = "store" /\ PunOK(req[s])
  BY Standing DEF StoreScore
<1>2. y \in Nat /\ Covers(v, y)
  BY <1>1 DEF PunOK
<1>3. row \in UserRows /\ row.score = y /\ row.banned = users[v].banned /\ row.mute = users[v].mute
  BY <1>1, <1>2 DEF UserRows
<1>4. /\ users' = [users EXCEPT ![v] = row] /\ UNCHANGED <<hits, penalties>>
      /\ req' = [req EXCEPT ![s] = [req[s] EXCEPT !.phase = "hint"]]
  BY DEF StoreScore
<1>5. "hint" \in Nexts
  BY DEF Nexts
<1>6. /\ row.banned => EntriesOf(v, "severe") # {}
      /\ row.mute > 0 => \E kind \in DOMAIN MuteDays : EntriesOf(v, kind) # {}
  <2>1. SwitchesRest(v)
    BY <1>1 DEF UserOK
  <2> QED BY <1>3, <2>1 DEF SwitchesRest
<1>7. Covers(v, row.score)
  BY <1>2, <1>3
<1> QED BY <1>3, <1>4, <1>5, <1>6, <1>7, UserIsWritten

LEMMA SwitchesAreSet ==
    ASSUME FormInv, PunInv, NEW s \in Busy, Switch(s)
    PROVE  PunInv'
<1> PICK r, v, x : r = req[s] /\ v = r.user /\ x = r.then
  OBVIOUS
<1>1. /\ v \in Users /\ UserOK(v) /\ users[v] \in UserRows /\ r.phase = "switch" /\ PunOK(r)
      /\ x \in Nexts
  BY Standing DEF Switch, Busy, FormInv, ReqOK, Made
<1>2. r.penalty \in Kinds \ {"debit"} /\ EntriesOf(v, r.penalty) # {}
  BY <1>1 DEF PunOK
<1> PICK days : days = IF users[v].mute > MuteDays[r.penalty] THEN users[v].mute ELSE MuteDays[r.penalty]
  OBVIOUS
<1> PICK row : row = IF r.penalty = "severe" THEN [users[v] EXCEPT !.banned = TRUE]
                     ELSE [users[v] EXCEPT !.mute = days]
  OBVIOUS
<1>3. /\ users' = [users EXCEPT ![v] = row] /\ UNCHANGED <<hits, penalties>>
      /\ req' = [req EXCEPT ![s] = [r EXCEPT !.phase = x]]
  BY DEF Switch
<1>4. r.penalty # "severe" => r.penalty \in DOMAIN MuteDays /\ days \in Nat
  BY <1>1, <1>2 DEF Kinds, MuteDays, UserRows
<1>5. /\ row \in UserRows /\ row.score = users[v].score
      /\ r.penalty = "severe" => row.mute = users[v].mute
      /\ r.penalty # "severe" => row.banned = users[v].banned
  BY <1>1, <1>4 DEF UserRows
<1>6. row.banned => EntriesOf(v, "severe") # {}
  <2>1. CASE r.penalty = "severe"
    BY <1>2, <2>1
  <2>2. CASE r.penalty # "severe"
    BY <1>1, <1>5, <2>2 DEF UserOK, SwitchesRest
  <2> QED BY <2>1, <2>2
<1>7. row.mute > 0 => \E kind \in DOMAIN MuteDays : EntriesOf(v, kind) # {}
  <2>1. CASE r.penalty = "severe"
    BY <1>1, <1>5, <2>1 DEF UserOK, SwitchesRest
  <2>2. CASE r.penalty # "severe"
    BY <1>2, <1>4, <2>2
  <2> QED BY <2>1, <2>2
<1>8. Covers(v, row.score)
  BY <1>1, <1>5 DEF UserOK
<1> QED BY <1>1, <1>3, <1>5, <1>6, <1>7, <1>8, UserIsWritten
-----------------------------------------------------------------------------
\* Some hit is of the level that a text is judged by.
LEMMA WorstIsThere ==
    ASSUME NEW text, NEW found, found # {}, \A i \in found : text[i] \in Words
    PROVE  \E i \in found : LevelOf[text[i]] = Worst(text, found)
<1> PICK levels : levels = {0} \cup {LevelOf[text[i]] : i \in found}
  OBVIOUS
<1>1. \A i \in found : LevelOf[text[i]] \in 1..4 /\ LevelOf[text[i]] \in levels
  BY Limits
<1>2. levels \in SUBSET (0..4)
  BY <1>1
<1>3. PICK m \in levels : \A l \in levels : l <= m
  <2> PICK f : f = [l \in levels |-> l]
    OBVIOUS
  <2>1. IsFiniteSet(levels)
    <3> PICK a, b : a = 0 /\ b = 4 /\ a \in Int /\ b \in Int
      OBVIOUS
    <3>1. IsFiniteSet(a..b)
      BY FS_Interval
    <3> QED BY <1>2, <3>1, FS_Subset
  <2>2. 0 \in levels /\ \A l \in levels : f[l] = l /\ f[l] \in Int
    BY <1>2
  <2>3. PICK m \in levels : \A l \in levels : f[l] <= f[m]
    BY <2>1, <2>2, LargestExists
  <2> QED BY <2>2, <2>3
<1> PICK w : w = CHOOSE l \in levels : \A k \in levels : k <= l
  OBVIOUS
<1>4. w \in levels /\ \A k \in levels : k <= w
  BY <1>3
<1>5. w # 0
  <2> PICK l : l \in levels /\ l \in 1..4
    BY <1>1
  <2>1. l <= w
    BY <1>4
  <2>2. ~(l <= 0)
    OBVIOUS
  <2> QED BY <2>1, <2>2
<1>6. \E i \in found : LevelOf[text[i]] = w
  BY <1>4, <1>5
<1>7. Worst(text, found) = w
  BY DEF Worst
<1> QED BY <1>6, <1>7
\* A text that was checked has a hit left of its worst level.
LEMMA DecidedOwesNothing ==
    ASSUME PunInv, NEW r, Whole(r), PunOK(r), r.user \in Users, NEW known, known \subseteq Words
    PROVE  /\ PunOK(Decided(r, known))
           /\ \A d \in Debts : ~Owes(Decided(r, known), d[1], d[2])
<1> PICK q, found : q = Decided(r, known) /\ found = {i \in DOMAIN r.text : r.text[i] \in known}
  OBVIOUS
<1>1. /\ q.user = r.user /\ q.text = r.text /\ q.today = r.today /\ q.serious = r.serious
      /\ q.found = found /\ q.level = Worst(r.text, found)
      /\ q.phase \in {"write", "hits", "refuse"} /\ (q.phase = "hits" => found # {})
  <2> PICK p : p = [r EXCEPT !.found = found, !.level = Worst(r.text, found), !.lag = Lag(r.text, known)]
    OBVIOUS
  <2>1. q = [p EXCEPT !.phase = AfterCheck(p)]
    BY DEF Decided
  <2>2. /\ Whole(p) /\ p.user = r.user /\ p.text = r.text /\ p.today = r.today /\ p.serious = r.serious
        /\ p.found = found /\ p.level = Worst(r.text, found)
    BY DEF Whole, Fields
  <2>3. AfterCheck(p) \in {"write", "hits", "refuse"} /\ (AfterCheck(p) = "hits" => found # {})
    BY <2>2 DEF AfterCheck, Verdict
  <2>4. q = [f \in Fields |-> IF f = "phase" THEN AfterCheck(p) ELSE p[f]]
    BY <2>1, <2>2 DEF Whole, Fields
  <2>5. /\ q.user = p.user /\ q.text = p.text /\ q.today = p.today /\ q.serious = p.serious
        /\ q.found = p.found /\ q.level = p.level /\ q.phase = AfterCheck(p)
    BY <2>4 DEF Fields
  <2> QED BY <2>2, <2>3, <2>5
<1>2. \A i \in found : r.text[i] \in Words
  OBVIOUS
<1>3. PunOK(q)
  BY <1>1, <1>2 DEF PunOK
<1>4. ASSUME NEW d \in Debts PROVE ~Owes(q, d[1], d[2])
  <2>1. d[1] \in {"ban", "debit"}
    BY DEF Debts
  <2>2. CASE q.phase = "hits"
    <3>1. PICK i \in found : LevelOf[r.text[i]] = Worst(r.text, found)
      BY <1>1, <1>2, <2>2, WorstIsThere
    <3> QED BY <1>1, <2>1, <2>2, <3>1 DEF Owes
  <2>3. CASE q.phase # "hits"
    BY <1>1, <2>1, <2>3 DEF Owes
  <2> QED BY <2>2, <2>3
<1> QED BY <1>3, <1>4

LEMMA TextsAreChecked ==
    ASSUME FormInv, TimeInv, PunInv, NEW s \in Busy, CheckText(s) \/ KeepMatcher(s)
    PROVE  PunInv'
<1> PICK r : r = req[s]
  OBVIOUS
<1>1. /\ s \in Slots /\ DOMAIN req = Slots /\ r # NoReq /\ Whole(r) /\ r.user \in Users /\ PunOK(r)
      /\ r.proc \in Procs /\ TimeOK(r)
  BY Standing DEF Busy, FormInv, ReqOK, Made, TimeInv
<1>2. UNCHANGED PunTables
  BY DEF CheckText, KeepMatcher, PunTables
<1>3. ASSUME NEW known, known \subseteq Words, req' = [req EXCEPT ![s] = Decided(r, known)]
      PROVE  PunInv'
  <2> PICK q : q = Decided(r, known)
    OBVIOUS
  <2>1. PunOK(q) /\ \A d \in Debts : ~Owes(q, d[1], d[2])
    BY <1>1, <1>3, DecidedOwesNothing
  <2>2. \A z \in Slots : req'[z] = IF z = s THEN q ELSE req[z]
    BY <1>1, <1>3
  <2>3. \A z \in Slots : \/ req'[z] = req[z]
                         \/ PunOK(req'[z]) /\ \A d \in Debts : ~Owes(req'[z], d[1], d[2])
    BY <2>1, <2>2
  <2> QED BY <1>2, <2>3, QuietKeeps
<1>4. CASE CheckText(s) /\ Usable(r.proc)
  <2>1. matcher[r.proc].words \subseteq Words
    BY <1>1 DEF TimeInv, TimeTypes
  <2>2. req' = [req EXCEPT ![s] = Decided(r, matcher[r.proc].words)]
    BY <1>4 DEF CheckText
  <2> QED BY <1>3, <2>1, <2>2
<1>5. CASE CheckText(s) /\ ~Usable(r.proc)
  <2> PICK q : q = [r EXCEPT !.phase = "loading", !.read = InForce]
    OBVIOUS
  <2>1. req' = [req EXCEPT ![s] = q]
    BY <1>5 DEF CheckText
  <2>2. q.phase = "loading" /\ q.today = r.today /\ q.serious = r.serious /\ q.user = r.user
    BY <1>1 DEF Whole, Fields
  <2>3. PunOK(q) /\ Settled(q)
    BY <1>1, <2>2 DEF PunOK, Settled
  <2> QED BY <1>1, <1>2, <2>1, <2>3, OneIsQuiet
<1>6. CASE KeepMatcher(s)
  <2>1. req' = [req EXCEPT ![s] = Decided(r, r.read)] /\ r.phase = "loading"
    BY <1>6 DEF KeepMatcher
  <2>2. r.read \subseteq Words
    BY <1>1, <2>1 DEF TimeOK, Fetched
  <2> QED BY <1>3, <2>1, <2>2
<1> QED BY <1>4, <1>5, <1>6

\* Mutes run down, and the counts of the day begin again.
LEMMA DaysPass ==
    ASSUME FormInv, PunInv, Day
    PROVE  PunInv'
<1>1. /\ UNCHANGED <<penalties, req>> /\ \A s \in Slots : req[s] = NoReq
      /\ users' = [u \in Users |-> [users[u] EXCEPT !.mute = IF @ > 0 THEN @ - 1 ELSE 0]]
      /\ hits' = [u \in Users |-> [hits[u] EXCEPT !.today = 0]]
  BY DEF Day, Busy
<1>2. PunTypes
  BY DEF PunInv
<1>3. ASSUME NEW u \in Users
      PROVE  /\ users'[u] \in UserRows /\ users'[u].score = users[u].score
             /\ users'[u].banned = users[u].banned /\ (users'[u].mute > 0 => users[u].mute > 0)
             /\ hits'[u] \in Counters /\ hits'[u].today = 0 /\ hits'[u].hint = hits[u].hint
             /\ hits'[u].serious = hits[u].serious /\ hits'[u].severe = hits[u].severe
  <2> PICK m : m = IF users[u].mute > 0 THEN users[u].mute - 1 ELSE 0
    OBVIOUS
  <2>1. users[u] \in UserRows /\ hits[u] \in Counters
    BY <1>2, PunNumbers
  <2>2. m \in Nat /\ (m > 0 => users[u].mute > 0)
    BY <2>1 DEF UserRows
  <2>3. users'[u] = [users[u] EXCEPT !.mute = m] /\ hits'[u] = [hits[u] EXCEPT !.today = 0]
    BY <1>1
  <2> QED BY <2>1, <2>2, <2>3 DEF UserRows, Counters
<1>4. PunTypes'
  BY <1>1, <1>2, <1>3 DEF PunTypes
<1>5. ASSUME NEW u \in Users PROVE UserOK(u)'
  <2>1. UserOK(u) /\ hits[u] \in Counters
    BY <1>2, PunNumbers DEF PunInv
  <2>2. HitsCover(u)'
    <3>1. Owing(u, "ban", 4)' = Owing(u, "ban", 4) /\ Owing(u, "debit", 3)' = Owing(u, "debit", 3)
      BY <1>1 DEF Owing
    <3>2. EntriesOf(u, "severe")' = EntriesOf(u, "severe") /\ EntriesOf(u, "debit")' = EntriesOf(u, "debit")
      BY <1>1 DEF EntriesOf
    <3> QED BY <1>3, <2>1, <3>1, <3>2 DEF UserOK, HitsCover
  <2>3. EntriesRest(u)'
    BY <1>1, <1>3, <2>1 DEF UserOK, EntriesRest
  <2>4. SwitchesRest(u)' /\ Covers(u, users[u].score)'
    BY <1>1, <1>3, <2>1 DEF UserOK, SwitchesRest, Covers, EntriesOf
  <2>5. (hits[u].today <= hits[u].hint)'
    BY <1>3, <2>1 DEF Counters
  <2> QED BY <2>2, <2>3, <2>4, <2>5 DEF UserOK
<1> QED BY <1>1, <1>4, <1>5 DEF PunInv

LEMMA MinutesAndCrashesPass ==
    ASSUME FormInv, PunInv, Minute \/ \E p \in Procs : Crash(p)
    PROVE  PunInv'
<1>1. UNCHANGED PunTables
  BY DEF Minute, Crash, PunTables
<1>2. CASE \E p \in Procs : Crash(p)
  <2>1. \A s \in Slots : req'[s] = req[s] \/ req'[s] = NoReq
    BY <1>2 DEF Crash
  <2> QED BY <1>1, <2>1, QuietKeeps
<1>3. CASE Minute
  <2>1. ASSUME NEW s \in Slots, req'[s] # req[s]
        PROVE  PunOK(req'[s]) /\ \A d \in Debts : ~Owes(req'[s], d[1], d[2])
    <3> PICK r, y : r = req[s] /\ y = r.wait + 1
      OBVIOUS
    <3> PICK q : q = [r EXCEPT !.wait = y]
      OBVIOUS
    <3>1. s \in Loading
      BY <1>3, <2>1 DEF Minute
    <3>2. s \in Busy /\ r.phase = "loading"
      BY <3>1 DEF Loading
    <3>3. Whole(r) /\ PunOK(r)
      BY <3>2, Standing
    <3>4. req'[s] = q
      BY <1>3, <3>1, <3>3 DEF Minute, Whole, Fields
    <3>5. q.phase = "loading" /\ q.today = r.today /\ q.serious = r.serious /\ q.user = r.user
      BY <3>2, <3>3 DEF Whole, Fields
    <3>6. PunOK(q) /\ Settled(q)
      BY <3>3, <3>5 DEF PunOK, Settled
    <3> QED BY <3>4, <3>6, SettledOwesNothing
  <2> QED BY <1>1, <2>1, QuietKeeps
<1> QED BY <1>2, <1>3

LEMMA AsksOweNothing ==
    ASSUME FormInv, PunInv, NEW s \in Slots, NEW r, Fresh(s, r)
    PROVE  PunInv'
<1>1. UNCHANGED PunTables /\ req' = [req EXCEPT ![s] = r] /\ DOMAIN req = Slots /\ r.user \in Users
  BY DEF Fresh, GuardTables, PunTables, FormInv, Made
<1>2. hits[r.user] \in Counters
  BY <1>1, PunNumbers DEF PunInv
<1>3. PunOK(r) /\ Settled(r)
  BY <1>2 DEF Fresh, Blank, PunOK, Settled, Counters
<1> QED BY <1>1, <1>3, OneIsQuiet

LEMMA FloorsOweNothing ==
    ASSUME FormInv, PunInv, NEW s \in Busy, ReadFloor(s)
    PROVE  PunInv'
<1> PICK r : r = req[s]
  OBVIOUS
<1> PICK x, y : x = NextFloor(r.on) /\ y = RepliesOf(r.on)
  OBVIOUS
<1> PICK q : q = [r EXCEPT !.phase = "insert", !.floor = x, !.seen = y]
  OBVIOUS
<1>1. s \in Slots /\ Whole(r) /\ DOMAIN req = Slots /\ PunOK(r)
  BY Standing
<1>2. UNCHANGED PunTables /\ req' = [req EXCEPT ![s] = q]
  BY <1>1 DEF ReadFloor, PunTables
<1>3. q.phase = "insert" /\ q.today = r.today /\ q.serious = r.serious /\ q.user = r.user
  BY <1>1 DEF Whole, Fields
<1>4. PunOK(q) /\ Settled(q)
  BY <1>1, <1>3 DEF PunOK, Settled
<1> QED BY <1>1, <1>2, <1>4, OneIsQuiet
LEMMA PunInvStarts == ASSUME Init PROVE PunInv
<1>1. /\ users = [u \in Users |-> [mute |-> 0, banned |-> FALSE, score |-> InitScore]]
      /\ hits = [u \in Users |-> [hint |-> 0, today |-> 0, serious |-> 0, severe |-> 0]]
      /\ penalties = [u \in Users |-> <<>>]
      /\ req = [s \in Slots |-> NoReq]
  BY DEF Init, GuardInit
<1>2. PunTypes
  <2>1. <<>> \in Seq([kind : Kinds, count : Nat])
    BY EmptySeq
  <2>2. penalties \in [Users -> Seq([kind : Kinds, count : Nat])]
    BY <1>1, <2>1
  <2>3. hits \in [Users -> Counters] /\ users \in [Users -> UserRows]
    BY <1>1, Limits DEF Counters, UserRows
  <2> QED BY <2>2, <2>3 DEF PunTypes
<1>3. ASSUME NEW u \in Users PROVE UserOK(u)
  <2>1. DOMAIN penalties[u] = {}
    BY <1>1
  <2>2. \A kind : EntriesOf(u, kind) = {}
    BY <2>1 DEF EntriesOf
  <2>3. Owing(u, "ban", 4) = {} /\ Owing(u, "debit", 3) = {}
    BY <1>1 DEF Owing
  <2>4. Cardinality({}) = 0
    BY FS_EmptySet
  <2>5. /\ hits[u].today = 0 /\ hits[u].hint = 0 /\ hits[u].serious = 0 /\ hits[u].severe = 0
        /\ users[u].mute = 0 /\ ~users[u].banned /\ users[u].score = InitScore
    BY <1>1
  <2>6. HitsCover(u)
    BY <2>2, <2>3, <2>4, <2>5 DEF HitsCover
  <2>7. Covers(u, users[u].score)
    <3>1. Debit * 0 = 0
      BY Limits
    <3>2. Cardinality(EntriesOf(u, "debit")) = 0
      BY <2>2, <2>4
    <3> QED BY <2>5, <3>1, <3>2, Limits DEF Covers
  <2> QED BY <2>1, <2>5, <2>6, <2>7 DEF UserOK, EntriesRest, SwitchesRest
<1> QED BY <1>1, <1>2, <1>3 DEF PunInv

LEMMA PunGoesOn ==
    ASSUME ForumInv, TimeInv, PunInv, [Next /\ UNCHANGED kinds]_vars
    PROVE  PunInv'
<1>0. FormInv /\ StoredWasChecked /\ DOMAIN req = Slots
  BY DEF ForumInv, FormInv
<1>s. ASSUME UNCHANGED guardVars PROVE PunInv'
  <2>1. UNCHANGED PunTables /\ \A s \in Slots : req'[s] = req[s]
    BY <1>s DEF guardVars, PunTables
  <2> QED BY <2>1, QuietKeeps
<1>1. CASE UNCHANGED vars
  BY <1>s, <1>1 DEF vars
<1>2. CASE GuardNext /\ UNCHANGED forumVars
  <2>1. ASSUME NEW s \in Busy, Refuse(s) PROVE PunInv'
    <3>1. s \in Slots /\ req' = [req EXCEPT ![s] = NoReq] /\ UNCHANGED PunTables
      BY <2>1 DEF Refuse, Busy, PunTables
    <3> QED BY <1>0, <3>1, OneIsQuiet
  <2>2. ASSUME NEW w \in Words, NEW p \in Procs, CreateWord(w, p) \/ DeleteWord(w, p) PROVE PunInv'
    <3>1. UNCHANGED PunTables /\ \A s \in Slots : req'[s] = req[s]
      BY <2>2 DEF CreateWord, DeleteWord, Relist, PunTables
    <3> QED BY <3>1, QuietKeeps
  <2> QED BY <1>0, <1>2, <2>1, <2>2, TextsAreChecked, HitsAreWritten, DebitsAreWritten, ScoresAreStored,
             BansAreWritten, CountsAreTaken, UsersAreJudged, SwitchesAreSet, MinutesAndCrashesPass, DaysPass
          DEF GuardNext
<1>3. ASSUME NEW s \in Slots, NEW u \in Users, NEW p \in Procs, NEW text \in Texts,
             AsksWith(s, u, p, text)
      PROVE  PunInv'
  <2>1. \E r : Fresh(s, r)
    BY <1>0, <1>3, TextAsksAreMade
  <2> QED BY <1>0, <2>1, AsksOweNothing
<1>4. ASSUME NEW s \in Slots, NEW u \in Users, NEW p \in Procs, AsksFor(s, u, p)
      PROVE  PunInv'
  <2>1. \E r : Fresh(s, r)
    BY <1>0, <1>4, OtherAsksAreMade
  <2> QED BY <1>0, <2>1, AsksOweNothing
<1>5. ASSUME NEW s \in Busy,
             \/ WriteThread(s) \/ WriteEdit(s)
             \/ InsertReply(s) \/ DeleteReply(s) \/ WriteBook(s)
             \/ WriteRelist(s) \/ WriteTalk(s) \/ WriteMessage(s)
             \/ WriteRevision(s) \/ WriteProfile(s)
      PROVE  PunInv'
  <2>1. s \in Slots /\ req' = [req EXCEPT ![s] = NoReq] /\ UNCHANGED PunTables
    BY <1>0, <1>5, WritersEnd DEF GuardTables, PunTables
  <2> QED BY <1>0, <2>1, OneIsQuiet
<1>6. ASSUME NEW s \in Busy, ReadFloor(s) PROVE PunInv'
  BY <1>0, <1>6, FloorsOweNothing
<1>7. CASE \/ \E t \in DOMAIN threads : \/ DeleteThread(t)
                                        \/ \E st \in Statuses : ReviewThread(t, st)
           \/ \E i \in DOMAIN replies, st \in Statuses : ReviewReply(i, st)
           \/ \E b \in DOMAIN books : \/ \E deleted \in BOOLEAN : TakeDown(b, deleted)
                                      \/ \E st \in {"on_sale", "off_shelf", "deleted"} :
                                           ReviewBook(b, st)
  BY <1>s, <1>7 DEF DeleteThread, ReviewThread, ReviewReply, TakeDown, ReviewBook
<1>8. ASSUME Next PROVE PunInv'
  BY <1>2, <1>3, <1>4, <1>5, <1>6, <1>7, <1>8 DEF Next, AsksWith, AsksFor, Statuses
<1> QED BY <1>1, <1>8

\* What rests on hits is what the invariant says, and what is not owed is on record.
LEMMA PunishmentsRestOnHits ==
    ASSUME PunInv
    PROVE  PunishmentsAreOnRecord
<1>1. ASSUME NEW u \in Users
      PROVE  /\ Cardinality(EntriesOf(u, "severe")) <= hits[u].severe
             /\ Cardinality(EntriesOf(u, "debit")) <= hits[u].serious
  <2>1. /\ Cardinality(EntriesOf(u, "severe")) \in Nat /\ Cardinality(EntriesOf(u, "debit")) \in Nat
        /\ Cardinality(Owing(u, "ban", 4)) \in Nat /\ Cardinality(Owing(u, "debit", 3)) \in Nat
        /\ hits[u].severe \in Nat /\ hits[u].serious \in Nat
    BY PunNumbers, OwingNumbers DEF PunInv, Counters
  <2>2. HitsCover(u)
    BY DEF PunInv, UserOK
  <2> QED BY <2>1, <2>2 DEF HitsCover
<1>2. ASSUME NEW u \in Users, users[u].mute > 0
      PROVE  \E i \in DOMAIN penalties[u] : penalties[u][i].kind \in DOMAIN MuteDays
  BY <1>2 DEF PunInv, UserOK, SwitchesRest, EntriesOf
<1>3. ASSUME NEW u \in Users PROVE EntriesRest(u) /\ (users[u].banned => EntriesOf(u, "severe") # {})
  BY DEF PunInv, UserOK, SwitchesRest
<1>4. PunishmentHasEvidence
  BY <1>1, <1>2, <1>3 DEF PunishmentHasEvidence, EntriesRest
<1>5. ScoreLossIsOnRecord
  BY DEF ScoreLossIsOnRecord, PunInv, UserOK, Covers
<1> QED BY <1>4, <1>5 DEF PunishmentsAreOnRecord

\* No one is muted, banned or charged without the hits for it on record, and no score
\* falls by more than what is on record, whatever requests of a user run at once and
\* wherever a process stops between the statements of enforce.
THEOREM PunishmentsRest == Spec => []PunishmentsAreOnRecord
<1>1. Init => ForumInv /\ TimeInv /\ PunInv
  BY ForumStarts, TimeInvStarts, PunInvStarts
<1>2. ForumInv /\ TimeInv /\ PunInv /\ [Next /\ UNCHANGED kinds]_vars => ForumInv' /\ TimeInv' /\ PunInv'
  BY ForumGoesOn, TimeGoesOn, PunGoesOn
<1>3. PunInv => PunishmentsAreOnRecord
  BY PunishmentsRestOnHits
<1> QED BY <1>1, <1>2, <1>3, PTL DEF Spec
=============================================================================
